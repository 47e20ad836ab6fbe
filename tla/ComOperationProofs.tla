-------------------------- MODULE ComOperationProofs --------------------------
(***************************************************************************)
(* Proofs about the two COM layers around the operations of                *)
(* AsyncOperation, with any tree of operations inside and any number of    *)
(* threads that cancel.                                                    *)
(*                                                                         *)
(* First Common::ComAsyncOperationContext, whose client may cancel it.     *)
(* The operations keep the invariant of AsyncOperationProofs; the          *)
(* invariant of the context relates its state to that of the operation     *)
(* inside and to the frames of the context.  Then                          *)
(* Common::ComProxyAsyncOperation, which begins, cancels and ends the      *)
(* context: both invariants hold there too, and one more relates the       *)
(* native operation to the context.                                        *)
(***************************************************************************)
EXTENDS ComProxyAsyncOperation, AsyncOperationProofs, FiniteSetTheorems

ComPlaces == {"ComStart", "ComAttach", "ComTryComplete", "ComFinishComplete", "ComInvoke",
              "ComCleanup", "ComCleanupChild", "ComCancel", "ComCancelChild", "ComCancelSelf"}

Context(at) == One(at, Proxy)

ComTypeInv ==
    /\ state_ \in [lifecycle : Phase, observed : BOOLEAN, cancelRequested : BOOLEAN]
    /\ skipCompleteOnCancel_ \in BOOLEAN /\ callback_ \in BOOLEAN /\ child_ \in BOOLEAN
    /\ result_ \in Error /\ invoked \in Nat
    /\ answer \in Error \cup {"none", "NotComplete"}
    /\ \A t \in Thread, k \in Nat : F(t, k).at \in ComPlaces =>
          F(t, k).op = Proxy /\ F(t, k).kids = {}

\* The frame k is in Begin of the operation inside, which has not started it yet.
Beginning(t, k) ==
    \/ On(t, k, "Begin", Inner)
    \/ /\ On(t, k, "Begun", Inner)
       /\ F(t, k + 1).op = Inner /\ F(t, k + 1).at \in {"Start", "Attach", "AttachPush"}

\* Start of the context has not done its transition, and perhaps is not called yet.
Unbegun == state_.lifecycle = "Created"

\* The operation inside is begun by Start of the context, and the proxy is not
\* known to anybody before it is attached to it.
AttachInv ==
    /\ asserts \subseteq {"attach"} /\ Inner \notin refused
    /\ Unique({"ComStart", "ComAttach"})
    /\ Context("ComStart") => Unbegun
    /\ Context("ComAttach") \/ Context("ComCancel") \/ state_.cancelRequested => ~Unbegun
    /\ Unbegun => Fresh(Inner)
    /\ Young(Inner) =>
          \/ Unbegun
          \/ \E t \in Thread, k \in Nat : On(t, k, "ComAttach", Proxy) /\ Beginning(t, k + 1)
    /\ Unbegun \/ Context("ComAttach") =>
          ~child_ /\ ~cancelRequested[Proxy] /\ ~One("Cancel", Proxy)

\* Cancel has got to the operation inside, or comes too late for it.
Reached == cancelRequested[Proxy] \/ One("Cancel", Proxy) \/ CompletingOrCompleted(Inner)

\* The first Cancel has dealt with child_.
Passed == state_.cancelRequested /\ ~Context("ComCancelChild")

ReachInv ==
    /\ Context("ComCancelChild") \/ Context("ComCancelSelf") => state_.cancelRequested
    /\ Unique({"ComCancelChild", "ComCancelSelf"})
    /\ ~child_ \/ Passed => Unbegun \/ Context("ComAttach") \/ Reached
    /\ Context("ComTryComplete") \/ ComCompletingOrCompleted => CompletingOrCompleted(Inner) \/ Passed

\* The callback is invoked once, before Cleanup takes it away.
InvokeInv ==
    /\ Context("ComFinishComplete") => state_.lifecycle = "Completing"
    /\ Unique({"ComFinishComplete"}) /\ Unique({"ComInvoke"}) /\ Unique({"ComCleanup"})
    /\ invoked = IF state_.lifecycle \in Over /\ ~Context("ComInvoke") THEN 1 ELSE 0
    /\ Context("ComInvoke") \/ state_.lifecycle \notin Over => callback_
    /\ \A t \in Thread, k \in Nat : On(t, k + 1, "ComInvoke", Proxy) =>
          k + 1 = Len(stack[t]) /\ On(t, k, "ComCleanup", Proxy)
    /\ Context("ComInvoke") \/ Context("ComCleanup") \/ Context("ComCleanupChild") =>
          state_.lifecycle \in Over
    /\ state_.lifecycle \in Over =>
          /\ callback_ => Context("ComCleanup")
          /\ child_ => Context("ComCleanup") \/ Context("ComCleanupChild")
    /\ answer = "none" <=> state_.lifecycle # "Ended"
    /\ answer # "none" => answer = result_

\* The error that the context is completed with.
ComJustified(err) ==
    /\ err = "Success" => lifecycle[Inner] = "Ended" /\ error_[Inner] = "Success"
    /\ err = "OperationCanceled" =>
          \/ state_.cancelRequested
          \/ lifecycle[Inner] = "Ended" /\ error_[Inner] = "OperationCanceled"

ComClaims(err) == Claimed("ComTryComplete", Proxy, err) \/ Claimed("ComFinishComplete", Proxy, err)

AnswerInv ==
    /\ state_.lifecycle \in Over => ComJustified(result_)
    /\ \A err \in Error : ComClaims(err) => ComJustified(err)

ContextInv == ComTypeInv /\ AttachInv /\ ReachInv /\ InvokeInv /\ AnswerInv

-----------------------------------------------------------------------------
(***************************************************************************)
(* Steps that are not steps of AsyncOperation keep its invariant: they     *)
(* replace frames of other places, and may call Cancel of a host.          *)
(***************************************************************************)
Foreign(f) == f.kids = {} /\ (f.at \notin OwnPlaces \/ (f.at = "Cancel" /\ f.op \in Host))

LEMMA ForeignKeeps ==
    ASSUME OpInv, ResultInv, NEW t \in Thread, NEW d \in Nat, NEW f, NEW g, Moves(t, d, f, g),
           F(t, d + 1) = NoFrame, F(t, d).at \notin OwnPlaces, Foreign(f), Foreign(g),
           fresh' \subseteq fresh, \A u \in fresh' : stack'[u] = <<>>,
           UNCHANGED <<word, error_, tree, handedOver, history>>,
           asserts' \cap {"TransitionStarted", "TransitionCompleted", "TransitionEnded"} = {}
    PROVE  OpInv' /\ ResultInv'
<1> USE DEF OpInv
<1>1. /\ UNCHANGED <<lifecycle, observed, cancelRequested, error_, children_, childLock_, handedOver,
                     onStarted, refused>>
  BY DEF word, tree, history
<1>2. /\ \A x \in OwnPlaces \ {"Cancel"} : \A o : One(x, o)' <=> One(x, o)
      /\ \A o : One("Cancel", o) => One("Cancel", o)'
      /\ \A o : One("Cancel", o)' => One("Cancel", o) \/ o \in Host
  <2>1. "none" \notin OwnPlaces /\ "Cancel" \in OwnPlaces
    BY DEF OwnPlaces
  <2>2. \A x \in OwnPlaces : \A o : ~On(t, d, x, o)
    BY DEF On
  <2> QED
    BY <2>1, <2>2, OneMoves DEF Foreign
<1>3. /\ \A o : /\ One("Begin", o)' <=> One("Begin", o)
                /\ One("Start", o)' <=> One("Start", o)
                /\ One("Attach", o)' <=> One("Attach", o)
                /\ One("AttachPush", o)' <=> One("AttachPush", o)
                /\ One("OnStart", o)' <=> One("OnStart", o)
                /\ One("Begun", o)' <=> One("Begun", o)
                /\ One("Callback", o)' <=> One("Callback", o)
                /\ One("Finish", o)' <=> One("Finish", o)
                /\ One("TryComplete", o)' <=> One("TryComplete", o)
                /\ One("FinishComplete", o)' <=> One("FinishComplete", o)
                /\ One("Cleanup", o)' <=> One("Cleanup", o)
                /\ One("Detach", o)' <=> One("Detach", o)
                /\ One("CancelCollect", o)' <=> One("CancelCollect", o)
                /\ One("CancelChildren", o)' <=> One("CancelChildren", o)
  BY <1>2 DEF OwnPlaces
<1>4. Unique(Starting)' /\ Unique({"Begun"})' /\ Unique({"FinishComplete"})' /\ Unique({"Callback"})'
      /\ Unique({"Finish"})' /\ Unique({"CancelCollect", "CancelChildren"})'
  BY UniqueMoves DEF StartInv, EndInv, CancelInv, Starting, Foreign, OwnPlaces
<1>5. \A o \in Op : (Fresh(o)' <=> Fresh(o)) /\ (Young(o)' <=> Young(o)) /\ (Attaching(o)' <=> Attaching(o))
  BY <1>1, <1>3 DEF Fresh, Young, Attaching
<1>6. TypeInv'
  BY <1>1 DEF TypeInv, Moves
<1>7. StartInv'
  BY <1>1, <1>3, <1>4, <1>5 DEF StartInv
<1>8. BegunInv'
  <2>1. ~On(t, d, "Start", NoFrame.op) /\ \A o : ~On(t, d, "Start", o)
    BY DEF On, OwnPlaces
  <2>2. f.at # "Begun" /\ g.at # "Begun"
    BY DEF Foreign, OwnPlaces
  <2>3. \A o \in Op \ Op : lifecycle'[o] # "Created"
    OBVIOUS
  <2>4. \A o \in Op \cap Op : lifecycle'[o] = lifecycle[o] /\ ~On(t, d, "Start", o)
    BY <1>1, <2>1
  <2> QED
    BY <2>2, <2>3, <2>4, BegunMoves
<1>9. EndInv'
  BY <1>1, <1>3, <1>4 DEF EndInv
<1>10. OrderInv'
  BY <1>1, <1>3, <1>5, TreeFacts DEF OrderInv
<1>11. YoungInv'
  <2>1. \A o : Held(o)' => Held(o)
    BY HeldMoves DEF Foreign
  <2> QED
    BY <1>1, <1>2, <1>3, <1>5, <2>1 DEF YoungInv
<1>12. LockInv'
  BY <1>1, <1>3 DEF LockInv, Free
<1>13. \A p \in Op : Adding(p)' <=> Adding(p)
  BY <1>1, <1>3 DEF Adding
<1>14. \A p, c : Pursued(p, c) => Pursued(p, c)'
  BY PursuedMoves DEF On, OwnPlaces
<1>15. CancelInv'
  BY <1>1, <1>3, <1>4, <1>5, <1>13, <1>14 DEF CancelInv, Attached
<1>16. CompleteInv'
  BY <1>1, <1>3, <1>5 DEF CompleteInv, CompletingOrCompleted, MayComplete
<1>17. ListInv'
  BY <1>1, <1>3, <1>13 DEF ListInv
<1>18. ResultInv'
  <2>1. \A o, e : Claims(o, e)' => Claims(o, e)
    BY ClaimsMove DEF Foreign, OwnPlaces, Claiming
  <2> QED
    BY <1>1, <2>1, ResultStays
<1> QED
  BY <1>6, <1>7, <1>8, <1>9, <1>10, <1>11, <1>12, <1>15, <1>16, <1>17, <1>18

LEMMA InnerFacts ==
    /\ Proxy \in Host /\ Proxy \in Op /\ Proxy \notin Op \ Host /\ Inner \in Op \ Host /\ Inner # Proxy
    /\ IsChild(Inner, Proxy) /\ HasParent(Inner) /\ Parent(Inner) = Proxy
    /\ \A c \in Op : IsChild(c, Proxy) <=> c = Inner
    /\ \A i, j \in DOMAIN Steps[Proxy] : ~(i < j)
<1>1. Proxy \in Host /\ Proxy \in Op /\ Steps[Proxy] \in Seq(Op) /\ Len(Steps[Proxy]) = 1
  BY ProxyAssumption, TreeFacts
<1>2. DOMAIN Steps[Proxy] = {1} /\ Inner = Steps[Proxy][1] /\ Inner \in Op
  BY <1>1 DEF Inner
<1>3. \A c \in Op : IsChild(c, Proxy) <=> c = Inner
  BY <1>2 DEF IsChild
<1>4. HasParent(Inner) /\ Parent(Inner) = Proxy /\ Inner \notin Host
  BY <1>1, <1>2, <1>3, TreeFacts
<1> QED
  BY <1>1, <1>2, <1>3, <1>4

\* Start of the context begins the operation inside.
LEMMA InnerBegins ==
    ASSUME OpInv, ResultInv, NEW t \in Thread, NEW d \in Nat, NEW f, NEW g, Moves(t, d, f, g),
           stack[t] # <<>>, F(t, d + 1) = NoFrame, F(t, d).at \notin OwnPlaces, Foreign(f),
           f.at # "Cancel", g = Frame("Begin", Inner), Fresh(Inner), fresh' = fresh,
           UNCHANGED <<word, error_, tree, handedOver, history>>,
           asserts' \cap {"TransitionStarted", "TransitionCompleted", "TransitionEnded"} = {}
    PROVE  OpInv' /\ ResultInv' /\ (\A op \in Op : Young(op)' <=> Young(op))
<1> USE DEF OpInv
<1>1. /\ UNCHANGED <<lifecycle, observed, cancelRequested, error_, children_, childLock_, handedOver,
                     onStarted, refused>>
  BY DEF word, tree, history
<1>2. g.at = "Begin" /\ g.op = Inner /\ g.kids = {} /\ f.kids = {} /\ f.at \notin OwnPlaces
  BY FrameFacts, InnerFacts DEF Foreign, Frame
<1>3. \A x \in OwnPlaces : \A o : One(x, o)' <=> One(x, o) \/ (x = "Begin" /\ o = Inner)
  <2>1. "none" \notin OwnPlaces
    BY DEF OwnPlaces
  <2>2. \A x \in OwnPlaces : \A o : ~On(t, d, x, o)
    BY DEF On
  <2>3. ASSUME NEW x \in OwnPlaces, NEW o
        PROVE  /\ One(x, o)' => One(x, o) \/ (x = "Begin" /\ o = Inner)
               /\ One(x, o) => One(x, o)'
               /\ x = "Begin" /\ o = Inner => One(x, o)'
    <3>1. x # "none" /\ x # f.at /\ ~On(t, d, x, o)
      BY <1>2, <2>1, <2>2
    <3>2. /\ One(x, o)' => One(x, o) \/ (x = f.at /\ o = f.op) \/ (x = g.at /\ o = g.op)
          /\ x = g.at /\ o = g.op => One(x, o)'
          /\ One(x, o) => One(x, o)' \/ On(t, d, x, o)
      BY <3>1, OneMoves
    <3> QED
      BY <1>2, <3>1, <3>2
  <2> QED
    BY <2>3
<1>4. /\ \A o : /\ One("Begin", o)' <=> One("Begin", o) \/ o = Inner
                /\ One("Start", o)' <=> One("Start", o)
                /\ One("Attach", o)' <=> One("Attach", o)
                /\ One("AttachPush", o)' <=> One("AttachPush", o)
                /\ One("OnStart", o)' <=> One("OnStart", o)
                /\ One("Begun", o)' <=> One("Begun", o)
                /\ One("Callback", o)' <=> One("Callback", o)
                /\ One("Finish", o)' <=> One("Finish", o)
                /\ One("TryComplete", o)' <=> One("TryComplete", o)
                /\ One("FinishComplete", o)' <=> One("FinishComplete", o)
                /\ One("Cleanup", o)' <=> One("Cleanup", o)
                /\ One("Detach", o)' <=> One("Detach", o)
                /\ One("Cancel", o)' <=> One("Cancel", o)
                /\ One("CancelCollect", o)' <=> One("CancelCollect", o)
                /\ One("CancelChildren", o)' <=> One("CancelChildren", o)
  BY <1>3 DEF OwnPlaces
<1>5. \A at \in Starting : ~One(at, Inner)
  BY InnerFacts DEF Fresh, StartInv, Starting, Attaching
<1>6. Unique(Starting)' /\ Unique({"Begun"})' /\ Unique({"FinishComplete"})' /\ Unique({"Callback"})'
      /\ Unique({"Finish"})' /\ Unique({"CancelCollect", "CancelChildren"})'
  BY <1>2, <1>5, UniqueMoves DEF StartInv, EndInv, CancelInv, Starting, OwnPlaces
<1>7. \A o \in Op : (Young(o)' <=> Young(o)) /\ (Attaching(o)' <=> Attaching(o))
  BY <1>1, <1>4 DEF Young, Attaching
<1>8. \A o \in Op : o # Inner => (Fresh(o)' <=> Fresh(o))
  BY <1>1, <1>4 DEF Fresh
<1>9. TypeInv'
  BY <1>1, TypesMove DEF TypeInv
<1>10. StartInv'
  BY <1>1, <1>4, <1>6, <1>7, InnerFacts DEF StartInv, Fresh
<1>11. BegunInv'
  <2>1. f.at # "Begun" /\ g.at # "Begun"
    BY <1>2 DEF OwnPlaces
  <2>2. \A o \in Op \ Op : lifecycle'[o] # "Created"
    OBVIOUS
  <2>3. \A o \in Op \cap Op : lifecycle'[o] = lifecycle[o] /\ ~On(t, d, "Start", o)
    BY <1>1 DEF On, OwnPlaces
  <2> QED
    BY <2>1, <2>2, <2>3, BegunMoves
<1>12. EndInv'
  BY <1>1, <1>4, <1>6 DEF EndInv
<1>13. OrderInv'
  <2>1. \A p \in Op \ Host, c \in Op : IsChild(c, p) => c # Inner
    BY InnerFacts, TreeAssumption
  <2>2. ASSUME NEW p \in Op, NEW i \in DOMAIN Steps[p], NEW j \in DOMAIN Steps[p],
               i < j, ~Fresh(Steps[p][j])'
        PROVE  \/ lifecycle'[Steps[p][i]] = "Ended" /\ error_'[Steps[p][i]] = "Success"
               \/ p \in Host /\ Fresh(Steps[p][i])'
    <3>1. p # Proxy
      BY <2>2, InnerFacts
    <3>2. /\ Steps[p][i] \in Op /\ Steps[p][j] \in Op
          /\ IsChild(Steps[p][i], p) /\ IsChild(Steps[p][j], p)
      BY TreeFacts DEF IsChild
    <3>3. Steps[p][i] # Inner /\ Steps[p][j] # Inner
      BY <3>1, <3>2, InnerFacts, TreeAssumption
    <3> QED
      BY <1>1, <1>8, <2>2, <3>2, <3>3 DEF OrderInv
  <2> QED
    BY <1>1, <1>4, <1>7, <1>8, <2>1, <2>2 DEF OrderInv
<1>14. YoungInv'
  <2>1. \A o : Held(o)' => Held(o)
    BY <1>2, HeldMoves
  <2> QED
    BY <1>1, <1>4, <1>7, <2>1 DEF YoungInv
<1>15. LockInv'
  BY <1>1, <1>4 DEF LockInv, Free
<1>16. \A p \in Op : Adding(p)' <=> Adding(p)
  BY <1>1, <1>4 DEF Adding
<1>17. \A p, c : Pursued(p, c) => Pursued(p, c)'
  BY PursuedMoves DEF On, OwnPlaces
<1>18. CancelInv'
  BY <1>1, <1>4, <1>6, <1>7, <1>16, <1>17 DEF CancelInv, Attached
<1>19. CompleteInv'
  <2>1. \A p \in Op \ Host, c \in Op : IsChild(c, p) => c # Inner
    BY InnerFacts, TreeAssumption
  <2> QED
    BY <1>1, <1>4, <1>7, <1>8, <2>1 DEF CompleteInv, CompletingOrCompleted, MayComplete
<1>20. ListInv'
  BY <1>1, <1>4, <1>16 DEF ListInv
<1>21. ResultInv'
  <2>1. \A o, e : Claims(o, e)' => Claims(o, e)
    BY <1>2, ClaimsMove DEF OwnPlaces, Claiming
  <2> QED
    BY <1>1, <2>1, ResultStays
<1> QED
  BY <1>7, <1>9, <1>10, <1>11, <1>12, <1>13, <1>14, <1>15, <1>18, <1>19, <1>20, <1>21

\* How a step of AsyncOperation looks to the rest of the frames.
Seen(t, at, op, d, f, g) ==
    /\ AtTop(t, d, at, op) /\ One(at, op) /\ Moves(t, d, f, g)
    /\ f.at \in OwnPlaces \cup {"none"} /\ g.at \in OwnPlaces \cup {"none"}
    /\ f.at # "Cancel" /\ (g.at = "Cancel" => g.op \notin Host)
    /\ f.at # "Start" /\ (g.at = "Start" => at = "Begin" /\ g.op = op)
    /\ f.at \in {"Attach", "AttachPush"} => at \in {"Start", "Attach"} /\ f.op = op
    /\ g.at \notin {"Attach", "AttachPush"}
    /\ f.at = "Begin" => \E p \in Op : at = "Finish" /\ IsChild(op, p) /\ IsChild(f.op, p)
    /\ g.at = "Begin" => op \notin Host /\ IsChild(g.op, op)
    /\ f.at = "OnStart" => at \in {"Start", "Attach", "AttachPush"} /\ f.op = op
    /\ g.at # "OnStart" /\ (g.at = "Cancel" => at = "CancelChildren")
    /\ f.at = "FinishComplete" =>
          at = "TryComplete" /\ lifecycle[op] = "Started" /\ f.op = op /\ f.err = F(t, d).err
    /\ f.at = "TryComplete" =>
          \/ at = "CancelChildren" /\ f.op = op /\ f.err = "OperationCanceled"
          \/ at = "Finish" /\ IsChild(op, f.op) /\ f.err = error_[op]
    /\ g.at = "TryComplete" => at = "OnStart" /\ g.op = op /\ g.err # "OperationCanceled"
    /\ g.at # "FinishComplete"

SeenStep(t) ==
    \E at \in OwnPlaces, op \in Op, d \in Nat, f \in Frames, g \in Frames : Seen(t, at, op, d, f, g)

LEMMA GotoSeen ==
    ASSUME TypeInv, NEW t \in Thread, NEW at \in OwnPlaces, At(t, at), NEW f \in Frames, Goto(t, f),
           f.at \in OwnPlaces \ {"Begin", "Cancel", "Start"},
           f.at \in {"Attach", "AttachPush"} => at \in {"Start", "Attach"} /\ f.op = Top(t).op,
           f.at = "OnStart" => at \in {"Start", "Attach", "AttachPush"} /\ f.op = Top(t).op,
           f.at = "FinishComplete" => /\ at = "TryComplete" /\ lifecycle[Top(t).op] = "Started"
                                      /\ f.op = Top(t).op /\ f.err = Top(t).err,
           f.at = "TryComplete" =>
              \/ at = "CancelChildren" /\ f.op = Top(t).op /\ f.err = "OperationCanceled"
              \/ at = "Finish" /\ IsChild(Top(t).op, f.op) /\ f.err = error_[Top(t).op]
    PROVE  SeenStep(t)
<1>1. PICK d \in Nat, op \in Op : AtTop(t, d, at, op) /\ One(at, op)
  BY TopFacts
<1>2. Moves(t, d, f, NoFrame)
  BY <1>1, GotoMoves
<1>3. Seen(t, at, op, d, f, NoFrame)
  BY <1>1, <1>2, NoFrameFacts DEF Seen, AtTop
<1> QED
  BY <1>3, NoFrameFacts DEF SeenStep

LEMMA CallSeen ==
    ASSUME TypeInv, NEW t \in Thread, NEW at \in OwnPlaces, At(t, at), NEW f \in Frames,
           NEW g \in Frames, Call(t, f, g),
           f.at \in OwnPlaces \ {"Begin", "Cancel", "Start", "Attach", "AttachPush", "OnStart",
                                 "TryComplete", "FinishComplete"},
           g.at \in OwnPlaces \ {"Attach", "AttachPush", "OnStart", "FinishComplete"},
           g.at = "Start" => at = "Begin" /\ g.op = Top(t).op,
           g.at = "Cancel" => at = "CancelChildren" /\ g.op \notin Host,
           g.at = "TryComplete" => at = "OnStart" /\ g.op = Top(t).op /\ g.err # "OperationCanceled",
           g.at = "Begin" => Top(t).op \notin Host /\ IsChild(g.op, Top(t).op)
    PROVE  SeenStep(t)
<1>1. PICK d \in Nat, op \in Op : AtTop(t, d, at, op) /\ One(at, op)
  BY TopFacts
<1>2. Moves(t, d, f, g)
  BY <1>1, CallMoves
<1>3. Seen(t, at, op, d, f, g)
  BY <1>1, <1>2 DEF Seen, AtTop
<1> QED
  BY <1>3 DEF SeenStep

LEMMA ReturnSeen ==
    ASSUME TypeInv, NEW t \in Thread, NEW at \in OwnPlaces, At(t, at), Return(t)
    PROVE  SeenStep(t)
<1>1. PICK d \in Nat, op \in Op : AtTop(t, d, at, op) /\ One(at, op)
  BY TopFacts
<1>2. Moves(t, d, NoFrame, NoFrame)
  BY <1>1, ReturnMoves
<1>3. Seen(t, at, op, d, NoFrame, NoFrame)
  BY <1>1, <1>2, NoFrameFacts DEF Seen
<1> QED
  BY <1>3, NoFrameFacts DEF SeenStep

\* The frames that AsyncOperation puts on the stacks.
LEMMA PlainFrame ==
    ASSUME NEW at \in OwnPlaces, NEW op \in Op
    PROVE  \E f \in Frames : f = Frame(at, op) /\ f.at = at /\ f.op = op
<1>1. at \in Places
  BY DEF OwnPlaces, Places
<1> DEFINE f == Frame(at, op)
<1>2. f \in Frames /\ f.at = at /\ f.op = op
  BY <1>1 DEF Frame, Frames, Error
<1> HIDE DEF f
<1>3. f = Frame(at, op)
  BY DEF f
<1> QED
  BY <1>2, <1>3

LEMMA ErrorFrame ==
    ASSUME NEW at \in OwnPlaces, NEW op \in Op, NEW e \in Error
    PROVE  \E f \in Frames : f = [Frame(at, op) EXCEPT !.err = e] /\ f.at = at /\ f.op = op /\ f.err = e
<1>1. at \in Places
  BY DEF OwnPlaces, Places
<1> DEFINE f == [Frame(at, op) EXCEPT !.err = e]
<1>2. f \in Frames /\ f.at = at /\ f.op = op /\ f.err = e
  BY <1>1 DEF Frame, Frames
<1> HIDE DEF f
<1>3. f = [Frame(at, op) EXCEPT !.err = e]
  BY DEF f
<1> QED
  BY <1>2, <1>3

LEMMA PlaceFrame ==
    ASSUME NEW at \in OwnPlaces, NEW top \in Frames
    PROVE  \E f \in Frames :
              f = [top EXCEPT !.at = at] /\ f.at = at /\ f.op = top.op /\ f.err = top.err
<1>1. at \in Places
  BY DEF OwnPlaces, Places
<1> DEFINE f == [top EXCEPT !.at = at]
<1>2. f \in Frames /\ f.at = at /\ f.op = top.op /\ f.err = top.err
  BY <1>1 DEF Frames
<1> HIDE DEF f
<1>3. f = [top EXCEPT !.at = at]
  BY DEF f
<1> QED
  BY <1>2, <1>3

LEMMA ProceedSeen ==
    ASSUME OpInv, NEW t \in Thread, Proceed(t)
    PROVE  SeenStep(t)
<1> USE DEF OpInv
<1>1. /\ "Begin" \in OwnPlaces /\ "Start" \in OwnPlaces /\ "Attach" \in OwnPlaces
      /\ "AttachPush" \in OwnPlaces /\ "OnStart" \in OwnPlaces /\ "StartReturns" \in OwnPlaces
      /\ "Begun" \in OwnPlaces /\ "Callback" \in OwnPlaces /\ "Finish" \in OwnPlaces
      /\ "TryComplete" \in OwnPlaces /\ "FinishComplete" \in OwnPlaces /\ "Cleanup" \in OwnPlaces
      /\ "Detach" \in OwnPlaces /\ "Cancel" \in OwnPlaces /\ "CancelCollect" \in OwnPlaces
      /\ "CancelChildren" \in OwnPlaces
  BY DEF OwnPlaces
<1>2. \A x : At(t, x) => Top(t) \in Frames /\ Top(t).op \in Op
  BY TopFacts DEF AtTop
<1>3. CASE Start(t) \/ AttachChild(t) \/ AttachPush(t)
  <2>1. PICK at \in {"Start", "Attach", "AttachPush"} : At(t, at)
    BY <1>3 DEF Start, AttachChild, AttachPush
  <2>2. PICK f \in Frames : Goto(t, f) /\ f.at \in {"Attach", "AttachPush", "OnStart"}
                         /\ f.op = Top(t).op /\ (f.at # "OnStart" => at \in {"Start", "Attach"})
    <3> DEFINE op == Top(t).op
    <3>1. op \in Op /\ "Attach" \in Places /\ "AttachPush" \in Places /\ "OnStart" \in Places
      BY <1>2, <2>1 DEF Places
    <3>2. /\ Frame("Attach", op) \in Frames /\ Frame("Attach", op).at = "Attach"
          /\ Frame("AttachPush", op) \in Frames /\ Frame("AttachPush", op).at = "AttachPush"
          /\ Frame("Attach", op).op = op /\ Frame("AttachPush", op).op = op
          /\ Frame("OnStart", op) \in Frames /\ Frame("OnStart", op).at = "OnStart"
          /\ Frame("OnStart", op).op = op
      BY <3>1, FrameFacts
    <3>3. /\ [Frame("OnStart", op) EXCEPT !.attached = FALSE] \in Frames
          /\ [Frame("OnStart", op) EXCEPT !.attached = FALSE].at = "OnStart"
          /\ [Frame("OnStart", op) EXCEPT !.attached = FALSE].op = op
      BY <3>1 DEF Frame, Frames, Error
    <3> HIDE DEF op
    <3>4. op = Top(t).op
      BY DEF op
    <3>5. CASE Start(t)
      <4>1. at = "Start"
        BY <2>1, <3>5 DEF Start, At
      <4> QED
        BY <3>2, <3>4, <3>5, <4>1 DEF Start
    <3>6. CASE AttachChild(t)
      <4>1. at = "Attach"
        BY <2>1, <3>6 DEF AttachChild, At
      <4> QED
        BY <3>2, <3>3, <3>4, <3>6, <4>1 DEF AttachChild
    <3>7. CASE AttachPush(t)
      BY <3>2, <3>4, <3>7 DEF AttachPush
    <3> QED
      BY <1>3, <3>5, <3>6, <3>7
  <2> QED
    BY <1>1, <2>1, <2>2, GotoSeen
<1>4. CASE OnStart(t)
  <2>1. At(t, "OnStart") /\ Top(t).op \in Op
    BY <1>2, <1>4 DEF OnStart
  <2> DEFINE op == Top(t).op
             f == [Top(t) EXCEPT !.at = "StartReturns"]
  <2>2. f \in Frames /\ f.at = "StartReturns"
    <3>1. Top(t) \in Frames /\ "StartReturns" \in Places
      BY <1>2, <2>1 DEF Places
    <3> QED
      BY <3>1 DEF Frames
  <2>3. op \notin Host /\ Steps[op] \in Seq(Op)
    <3>1. One("OnStart", op)
      BY <2>1, TopFacts DEF AtTop
    <3> QED
      BY <2>1, <3>1, TreeFacts DEF StartInv
  <2>4. CASE ~IsLeaf(op) /\ Call(t, f, Frame("Begin", Head(Steps[op])))
    <3>1. Head(Steps[op]) \in Op /\ IsChild(Head(Steps[op]), op)
      BY <2>3, <2>4 DEF IsLeaf, IsChild
    <3>2. PICK g \in Frames : g = Frame("Begin", Head(Steps[op])) /\ g.at = "Begin" /\ g.op = Head(Steps[op])
      BY <1>1, <3>1, PlainFrame
    <3> HIDE DEF f
    <3> QED
      BY <1>1, <2>1, <2>2, <2>3, <2>4, <3>1, <3>2, CallSeen
  <2>5. ASSUME NEW e \in {"Success", "Failure"}, Call(t, f, [Frame("TryComplete", op) EXCEPT !.err = e])
        PROVE  SeenStep(t)
    <3>1. e \in Error
      BY DEF Error
    <3>2. PICK g \in Frames : /\ g = [Frame("TryComplete", op) EXCEPT !.err = e]
                              /\ g.at = "TryComplete" /\ g.op = op /\ g.err = e
      BY <1>1, <2>1, <3>1, ErrorFrame
    <3> HIDE DEF f
    <3> QED
      BY <1>1, <2>1, <2>2, <2>5, <3>2, CallSeen
  <2>6. CASE Goto(t, f)
    <3> HIDE DEF f
    <3> QED
      BY <1>1, <2>1, <2>2, <2>6, GotoSeen
  <2> QED
    BY <1>4, <2>4, <2>5, <2>6 DEF OnStart
<1>5. CASE Begin(t)
  <2>1. At(t, "Begin") /\ Top(t).op \in Op /\ Top(t) \in Frames
    BY <1>2, <1>5 DEF Begin
  <2>2. PICK f \in Frames : f = [Top(t) EXCEPT !.at = "Begun"] /\ f.at = "Begun"
    <3>1. "Begun" \in OwnPlaces /\ Top(t) \in Frames
      BY <1>1, <2>1
    <3> HIDE DEF OpInv
    <3> QED
      BY <3>1, PlaceFrame
  <2>3. PICK g \in Frames : g = Frame("Start", Top(t).op) /\ g.at = "Start" /\ g.op = Top(t).op
    BY <1>1, <2>1, PlainFrame
  <2>4. Call(t, f, g)
    BY <1>5, <2>2, <2>3 DEF Begin
  <2> QED
    BY <1>1, <2>1, <2>2, <2>3, <2>4, CallSeen
<1>6. CASE Begun(t) \/ Callback(t)
  <2>1. PICK at \in {"Begun", "Callback"} : At(t, at)
    BY <1>6 DEF Begun, Callback
  <2>2. Return(t) \/ Goto(t, Frame("Finish", Top(t).op))
    BY <1>6 DEF Begun, Callback
  <2>3. Frame("Finish", Top(t).op) \in Frames /\ Frame("Finish", Top(t).op).at = "Finish"
    BY <1>1, <1>2, <2>1, PlainFrame
  <2> QED
    BY <1>1, <2>1, <2>2, <2>3, GotoSeen, ReturnSeen
<1>7. CASE Finish(t)
  <2>1. PICK d \in Nat, op \in Op : AtTop(t, d, "Finish", op) /\ One("Finish", op)
    BY <1>7, TopFacts DEF Finish
  <2>2. At(t, "Finish") /\ Top(t).op = op
    BY <1>7, <2>1 DEF Finish, AtTop
  <2>3. CASE ~HasParent(op)
    BY <1>1, <1>7, <2>2, <2>3, ReturnSeen DEF Finish
  <2>4. CASE HasParent(op) /\ error_[op] = "Success" /\ Successors(op) # <<>>
    <3>1. PICK p \in Op : IsChild(op, p)
      BY <2>4, TreeFacts
    <3>2. Head(Successors(op)) \in Op /\ IsChild(Head(Successors(op)), p)
      BY <2>4, <3>1, SuccessorFacts DEF IsChild
    <3>3. PICK f \in Frames : f = Frame("Begin", Head(Successors(op))) /\ f.at = "Begin"
                             /\ f.op = Head(Successors(op))
      BY <1>1, <3>2, PlainFrame
    <3>4. Goto(t, f)
      BY <1>7, <2>2, <2>4, <3>3 DEF Finish
    <3>5. Moves(t, d, f, NoFrame)
      BY <2>1, <3>4, GotoMoves
    <3>6. Seen(t, "Finish", op, d, f, NoFrame)
      BY <1>1, <2>1, <3>1, <3>2, <3>3, <3>5, NoFrameFacts DEF Seen
    <3> QED
      BY <1>1, <3>6, NoFrameFacts DEF SeenStep
  <2>5. CASE HasParent(op) /\ ~(error_[op] = "Success" /\ Successors(op) # <<>>)
    <3>1. Parent(op) \in Op /\ error_[op] \in Error
      BY <2>5, TreeFacts DEF TypeInv
    <3>2. PICK f \in Frames : f = [Frame("TryComplete", Parent(op)) EXCEPT !.err = error_[op]]
                             /\ f.at = "TryComplete" /\ f.op = Parent(op) /\ f.err = error_[op]
      BY <1>1, <3>1, ErrorFrame
    <3>3. Goto(t, f) /\ IsChild(op, Parent(op))
      BY <1>7, <2>2, <2>5, <3>2, TreeFacts DEF Finish
    <3> QED
      BY <1>1, <2>2, <3>2, <3>3, GotoSeen
  <2> QED
    BY <2>3, <2>4, <2>5
<1>8. CASE TryComplete(t)
  <2>1. At(t, "TryComplete") /\ Top(t) \in Frames
    BY <1>2, <1>8 DEF TryComplete
  <2>2. PICK f \in Frames : /\ f = [Top(t) EXCEPT !.at = "FinishComplete"] /\ f.at = "FinishComplete"
                           /\ f.op = Top(t).op /\ f.err = Top(t).err
    <3>1. "FinishComplete" \in OwnPlaces /\ Top(t) \in Frames
      BY <1>1, <2>1
    <3> HIDE DEF OpInv
    <3> QED
      BY <3>1, PlaceFrame
  <2>3. (Goto(t, f) /\ lifecycle[Top(t).op] = "Started") \/ Return(t)
    BY <1>8, <2>2 DEF TryComplete
  <2> QED
    BY <1>1, <2>1, <2>2, <2>3, GotoSeen, ReturnSeen
<1>9. CASE FinishComplete(t)
  <2>1. At(t, "FinishComplete") /\ Top(t).op \in Op
    BY <1>2, <1>9 DEF FinishComplete
  <2>2. PICK f \in Frames : f = Frame("Cleanup", Top(t).op) /\ f.at = "Cleanup"
    BY <1>1, <2>1, PlainFrame
  <2>3. PICK g \in Frames : g = Frame("Callback", Top(t).op) /\ g.at = "Callback"
    BY <1>1, <2>1, PlainFrame
  <2>4. Call(t, f, g)
    BY <1>9, <2>2, <2>3 DEF FinishComplete
  <2> QED
    BY <1>1, <2>1, <2>2, <2>3, <2>4, CallSeen
<1>10. CASE Cleanup(t)
  <2>1. At(t, "Cleanup") /\ Top(t).op \in Op
    BY <1>2, <1>10 DEF Cleanup
  <2>2. Return(t) \/ Goto(t, Frame("Detach", Top(t).op))
    BY <1>10 DEF Cleanup
  <2>3. Frame("Detach", Top(t).op) \in Frames /\ Frame("Detach", Top(t).op).at = "Detach"
    BY <1>1, <2>1, PlainFrame
  <2> QED
    BY <1>1, <2>1, <2>2, <2>3, GotoSeen, ReturnSeen
<1>11. CASE StartReturns(t) \/ DetachChild(t)
  <2>1. PICK at \in {"StartReturns", "Detach"} : At(t, at)
    BY <1>11 DEF StartReturns, DetachChild
  <2> QED
    BY <1>1, <1>11, <2>1, ReturnSeen DEF StartReturns, DetachChild
<1>12. CASE Cancel(t)
  <2>1. At(t, "Cancel") /\ Top(t) \in Frames
    BY <1>2, <1>12 DEF Cancel
  <2>2. PICK f \in Frames : f = [Top(t) EXCEPT !.at = "CancelCollect"] /\ f.at = "CancelCollect"
    <3>1. "CancelCollect" \in OwnPlaces /\ Top(t) \in Frames
      BY <1>1, <2>1
    <3> HIDE DEF OpInv
    <3> QED
      BY <3>1, PlaceFrame
  <2>3. Goto(t, f) \/ Return(t)
    BY <1>12, <2>2 DEF Cancel
  <2> QED
    BY <1>1, <2>1, <2>2, <2>3, GotoSeen, ReturnSeen
<1>13. CASE CancelCollect(t)
  <2>1. At(t, "CancelCollect") /\ Top(t) \in Frames /\ Top(t).op \in Op
    BY <1>2, <1>13 DEF CancelCollect
  <2>2. children_[Top(t).op] \in SUBSET Op
    BY <2>1 DEF TypeInv
  <2>3. PICK f \in Frames : /\ f = [Top(t) EXCEPT !.at = "CancelChildren", !.kids = children_[Top(t).op]]
                           /\ f.at = "CancelChildren"
    <3> DEFINE f == [Top(t) EXCEPT !.at = "CancelChildren", !.kids = children_[Top(t).op]]
    <3>1. "CancelChildren" \in Places
      BY DEF Places
    <3>2. f \in Frames /\ f.at = "CancelChildren"
      BY <2>1, <2>2, <3>1 DEF Frames
    <3> QED
      BY <3>2
  <2>4. Goto(t, f)
    BY <1>13, <2>3 DEF CancelCollect
  <2> QED
    BY <1>1, <2>1, <2>3, <2>4, GotoSeen
<1>14. CASE CancelChild(t)
  <2>1. PICK d \in Nat, op \in Op : AtTop(t, d, "CancelChildren", op)
    BY <1>14, TopFacts DEF CancelChild
  <2>2. PICK kid \in Top(t).kids :
           Call(t, [Top(t) EXCEPT !.kids = @ \ {kid}], Frame("Cancel", kid))
    BY <1>14 DEF CancelChild
  <2>3. Top(t) \in Frames /\ F(t, d) = Top(t) /\ Top(t).at = "CancelChildren"
    BY <2>1 DEF AtTop
  <2>4. kid \in Op /\ kid \notin Host
    BY <2>3, TreeFacts DEF Frames, YoungInv, Held
  <2>5. PICK f \in Frames : f = [Top(t) EXCEPT !.kids = @ \ {kid}] /\ f.at = "CancelChildren"
    <3>1. Top(t).kids \ {kid} \in SUBSET Op
      BY <2>3 DEF Frames
    <3>2. [Top(t) EXCEPT !.kids = @ \ {kid}] \in Frames
      BY <2>3, <3>1 DEF Frames
    <3>3. [Top(t) EXCEPT !.kids = @ \ {kid}].at = "CancelChildren"
      BY <2>3 DEF Frames
    <3> QED
      BY <3>2, <3>3
  <2>6. PICK g \in Frames : g = Frame("Cancel", kid) /\ g.at = "Cancel" /\ g.op = kid
    BY <1>1, <2>4, PlainFrame
  <2>7. At(t, "CancelChildren") /\ Call(t, f, g)
    BY <1>14, <2>2, <2>5, <2>6 DEF CancelChild
  <2> QED
    BY <1>1, <2>4, <2>5, <2>6, <2>7, CallSeen
<1>15. CASE CancelSignals(t) \/ CancelCompletes(t)
  <2>1. At(t, "CancelChildren") /\ Top(t).op \in Op /\ "OperationCanceled" \in Error
    BY <1>2, <1>15 DEF CancelSignals, CancelCompletes, Error
  <2>2. PICK f \in Frames : /\ f = [Frame("TryComplete", Top(t).op) EXCEPT !.err = "OperationCanceled"]
                           /\ f.at = "TryComplete" /\ f.op = Top(t).op /\ f.err = "OperationCanceled"
    BY <1>1, <2>1, ErrorFrame
  <2>3. Goto(t, f) \/ Return(t)
    BY <1>15, <2>2 DEF CancelSignals, CancelCompletes
  <2> QED
    BY <1>1, <2>1, <2>2, <2>3, GotoSeen, ReturnSeen
<1> QED
  BY <1>3, <1>4, <1>5, <1>6, <1>7, <1>8, <1>9, <1>10, <1>11, <1>12, <1>13, <1>14, <1>15 DEF Proceed

\* What a step of AsyncOperation does to an operation.
LEMMA ProceedEffects ==
    ASSUME OpInv, NEW t \in Thread, Proceed(t), NEW op \in Op
    PROVE  /\ lifecycle[op] = "Ended" => lifecycle'[op] = "Ended" /\ error_'[op] = error_[op]
           /\ CompletingOrCompleted(op) => CompletingOrCompleted(op)'
           /\ lifecycle[op] = "Created" => lifecycle'[op] = "Created" \/ One("Start", op)
           /\ lifecycle'[op] = "Created" => lifecycle[op] = "Created"
           /\ cancelRequested[op] => cancelRequested'[op]
           /\ cancelRequested'[op] => cancelRequested[op] \/ One("Cancel", op)
<1> USE DEF OpInv
<1>1. CASE Start(t)
  <2>1. PICK d \in Nat, o \in Op : AtTop(t, d, "Start", o) /\ One("Start", o)
    BY <1>1, TopFacts DEF Start
  <2>2. /\ lifecycle[o] = "Created" /\ lifecycle' = [lifecycle EXCEPT ![o] = "Started"]
        /\ UNCHANGED <<cancelRequested, error_>>
    BY <1>1, <2>1 DEF Start, AtTop, Transition, StartInv
  <2> QED
    BY <2>1, <2>2 DEF TypeInv, CompletingOrCompleted
<1>2. CASE Finish(t)
  <2>1. PICK d \in Nat, o \in Op : AtTop(t, d, "Finish", o) /\ One("Finish", o)
    BY <1>2, TopFacts DEF Finish
  <2>2. /\ lifecycle[o] = "Completed" /\ lifecycle' = [lifecycle EXCEPT ![o] = "Ended"]
        /\ UNCHANGED <<cancelRequested, error_>>
    BY <1>2, <2>1 DEF Finish, AtTop, Transition, EndInv
  <2> QED
    BY <2>1, <2>2 DEF TypeInv, CompletingOrCompleted
<1>3. CASE TryComplete(t)
  <2>1. PICK d \in Nat, o \in Op : AtTop(t, d, "TryComplete", o)
    BY <1>3, TopFacts DEF TryComplete
  <2>2. /\ \/ lifecycle[o] = "Started" /\ lifecycle' = [lifecycle EXCEPT ![o] = "Completing"]
           \/ lifecycle' = lifecycle
        /\ UNCHANGED <<cancelRequested, error_>>
    BY <1>3, <2>1 DEF TryComplete, AtTop
  <2> QED
    BY <2>1, <2>2 DEF TypeInv, CompletingOrCompleted
<1>4. CASE FinishComplete(t)
  <2>1. PICK d \in Nat, o \in Op : AtTop(t, d, "FinishComplete", o) /\ One("FinishComplete", o)
    BY <1>4, TopFacts DEF FinishComplete
  <2>2. /\ lifecycle[o] = "Completing" /\ lifecycle' = [lifecycle EXCEPT ![o] = "Completed"]
        /\ error_' = [error_ EXCEPT ![o] = Top(t).err] /\ UNCHANGED cancelRequested
    BY <1>4, <2>1 DEF FinishComplete, AtTop, Transition, EndInv
  <2> QED
    BY <2>1, <2>2 DEF TypeInv, CompletingOrCompleted
<1>5. CASE Cancel(t)
  <2>1. PICK d \in Nat, o \in Op : AtTop(t, d, "Cancel", o) /\ One("Cancel", o)
    BY <1>5, TopFacts DEF Cancel
  <2>2. /\ \/ cancelRequested' = [cancelRequested EXCEPT ![o] = TRUE]
           \/ cancelRequested' = cancelRequested
        /\ UNCHANGED <<lifecycle, error_>>
    BY <1>5, <2>1 DEF Cancel, AtTop
  <2> QED
    BY <2>1, <2>2 DEF TypeInv, CompletingOrCompleted
<1>6. CASE UNCHANGED <<lifecycle, cancelRequested, error_>>
  BY <1>6 DEF CompletingOrCompleted
<1>7. \/ Start(t) \/ Finish(t) \/ TryComplete(t) \/ FinishComplete(t) \/ Cancel(t)
      \/ UNCHANGED <<lifecycle, cancelRequested, error_>>
  BY DEF Proceed, AttachChild, AttachPush, OnStart, StartReturns, Begin, Begun, Callback, Cleanup,
         DetachChild, CancelCollect, CancelChild, CancelSignals, CancelCompletes, word
<1> QED
  BY <1>1, <1>2, <1>3, <1>4, <1>5, <1>6, <1>7

\* Who is Started was so before, and who is over has reported what was claimed.
LEMMA ProceedReports ==
    ASSUME OpInv, NEW t \in Thread, Proceed(t), NEW op \in Op
    PROVE  /\ lifecycle'[op] = "Started" =>
                 One("Start", op) \/ (lifecycle[op] = "Started" /\ ~(At(t, "TryComplete") /\ Top(t).op = op))
           /\ lifecycle'[op] \in Over =>
                 \/ lifecycle[op] \in Over /\ error_'[op] = error_[op]
                 \/ error_'[op] \in Error /\ Claimed("FinishComplete", op, error_'[op])
           /\ error_'[op] # error_[op] => lifecycle'[op] \in Over /\ lifecycle[op] \notin Over
<1> USE DEF OpInv
<1>1. CASE Start(t)
  <2>1. PICK d \in Nat, o \in Op : AtTop(t, d, "Start", o) /\ One("Start", o)
    BY <1>1, TopFacts DEF Start
  <2>2. /\ lifecycle[o] = "Created" /\ lifecycle' = [lifecycle EXCEPT ![o] = "Started"]
        /\ UNCHANGED error_ /\ ~At(t, "TryComplete")
    BY <1>1, <2>1 DEF Start, AtTop, Transition, StartInv, At
  <2> QED
    BY <2>1, <2>2 DEF TypeInv, Over
<1>2. CASE Finish(t)
  <2>1. PICK d \in Nat, o \in Op : AtTop(t, d, "Finish", o) /\ One("Finish", o)
    BY <1>2, TopFacts DEF Finish
  <2>2. /\ lifecycle[o] = "Completed" /\ lifecycle' = [lifecycle EXCEPT ![o] = "Ended"]
        /\ UNCHANGED error_ /\ ~At(t, "TryComplete")
    BY <1>2, <2>1 DEF Finish, AtTop, Transition, EndInv, At
  <2> QED
    BY <2>1, <2>2 DEF TypeInv, Over
<1>3. CASE TryComplete(t)
  <2>1. PICK d \in Nat, o \in Op : AtTop(t, d, "TryComplete", o)
    BY <1>3, TopFacts DEF TryComplete
  <2>2. /\ \/ lifecycle[o] = "Started" /\ lifecycle' = [lifecycle EXCEPT ![o] = "Completing"]
           \/ lifecycle[o] # "Started" /\ lifecycle' = lifecycle
        /\ UNCHANGED error_ /\ Top(t).op = o
    BY <1>3, <2>1 DEF TryComplete, AtTop
  <2> QED
    BY <2>1, <2>2 DEF TypeInv, Over
<1>4. CASE FinishComplete(t)
  <2>1. PICK d \in Nat, o \in Op : AtTop(t, d, "FinishComplete", o) /\ One("FinishComplete", o)
    BY <1>4, TopFacts DEF FinishComplete
  <2>2. /\ lifecycle[o] = "Completing" /\ lifecycle' = [lifecycle EXCEPT ![o] = "Completed"]
        /\ error_' = [error_ EXCEPT ![o] = Top(t).err] /\ ~At(t, "TryComplete")
    BY <1>4, <2>1 DEF FinishComplete, AtTop, Transition, EndInv, At
  <2>3. Top(t).err \in Error /\ Claimed("FinishComplete", o, Top(t).err)
    BY <2>1 DEF AtTop, Frames, Claimed, On
  <2>4. lifecycle'[o] = "Completed" /\ error_'[o] = Top(t).err
    BY <2>1, <2>2 DEF TypeInv
  <2>5. op # o => lifecycle'[op] = lifecycle[op] /\ error_'[op] = error_[op]
    BY <2>1, <2>2 DEF TypeInv
  <2> QED
    BY <2>2, <2>3, <2>4, <2>5 DEF Over
<1>5. CASE UNCHANGED <<lifecycle, error_>> /\ ~At(t, "TryComplete")
  BY <1>5 DEF Over
<1>6. \/ Start(t) \/ Finish(t) \/ TryComplete(t) \/ FinishComplete(t)
      \/ UNCHANGED <<lifecycle, error_>> /\ ~At(t, "TryComplete")
  BY DEF Proceed, AttachChild, AttachPush, OnStart, StartReturns, Begin, Begun, Callback, Cleanup,
         DetachChild, Cancel, CancelCollect, CancelChild, CancelSignals, CancelCompletes, word, At
<1> QED
  BY <1>1, <1>2, <1>3, <1>4, <1>5, <1>6

LEMMA ProceedAsserts ==
    ASSUME OpInv, NEW t \in Thread, Proceed(t)
    PROVE  asserts' \subseteq asserts \cup {"attach"}
<1>1. asserts' \subseteq asserts \cup {"attach", "TransitionStarted", "TransitionCompleted", "TransitionEnded"}
  BY DEF Proceed, Start, Finish, TryComplete, FinishComplete, Cancel, AttachChild, AttachPush, OnStart,
         StartReturns, Begin, Begun, Callback, Cleanup, DetachChild, CancelCollect, CancelChild,
         CancelSignals, CancelCompletes, Transition
<1>2. asserts' \cap {"TransitionStarted", "TransitionCompleted", "TransitionEnded"} = {}
  BY ProceedKeeps DEF OpInv, StartInv
<1> QED
  BY <1>1, <1>2

\* Cancel of an operation is called for, or asks the operation.
LEMMA CancelLasts ==
    ASSUME OpInv, NEW t \in Thread, Proceed(t), NEW op \in Op, One("Cancel", op)
    PROVE  One("Cancel", op)' \/ cancelRequested'[op]
<1> USE DEF OpInv
<1>1. PICK at \in OwnPlaces, o \in Op, d \in Nat, f \in Frames, g \in Frames : Seen(t, at, o, d, f, g)
  BY ProceedSeen DEF SeenStep
<1>2. One("Cancel", op)' \/ On(t, d, "Cancel", op)
  BY <1>1, OneMoves DEF Seen, AtTop
<1>3. CASE On(t, d, "Cancel", op)
  <2>1. At(t, "Cancel") /\ Top(t).op = op
    BY <1>1, <1>3 DEF Seen, AtTop, At, On, Top
  <2>2. Cancel(t)
    BY <2>1 DEF Proceed, Start, Finish, TryComplete, FinishComplete, AttachChild, AttachPush, OnStart,
                StartReturns, Begin, Begun, Callback, Cleanup, DetachChild, CancelCollect, CancelChild,
                CancelSignals, CancelCompletes, At
  <2> QED
    BY <2>1, <2>2 DEF Cancel, TypeInv
<1> QED
  BY <1>2, <1>3
-----------------------------------------------------------------------------
(***************************************************************************)
(* The operation inside, while Start of the context begins it.             *)
(***************************************************************************)
LEMMA BeginningMoves ==
    ASSUME NEW t \in Thread, NEW d \in Nat, NEW f, NEW g, Moves(t, d, f, g), F(t, d + 1) = NoFrame,
           F(t, d).at # "ComAttach",
           F(t, d).at \in {"Begin", "Start", "Attach", "AttachPush"} => F(t, d).op # Inner,
           NEW u \in Thread, NEW k \in Nat, On(u, k, "ComAttach", Proxy), Beginning(u, k + 1)
    PROVE  On(u, k, "ComAttach", Proxy)' /\ Beginning(u, k + 1)'
<1>1. NoFrame.at = "none" /\ k + 1 \in Nat /\ k + 1 + 1 \in Nat /\ k + 1 # k + 1 + 1
  BY NoFrameFacts
<1>2. F(u, k)' = F(u, k)
  <2>1. ~(u = t /\ (k = d \/ k = d + 1))
    BY <1>1 DEF On
  <2> QED
    BY <2>1 DEF Moves
<1>3. F(u, k + 1)' = F(u, k + 1)
  <2>1. ~(u = t /\ k + 1 = d + 1)
    BY <1>1 DEF Beginning, On
  <2>2. ~(u = t /\ k + 1 = d)
    <3>1. SUFFICES ASSUME u = t, k + 1 = d PROVE FALSE
      OBVIOUS
    <3>2. F(u, k + 1 + 1).at = "none"
      BY <1>1, <3>1
    <3> QED
      BY <3>1, <3>2 DEF Beginning, On
  <2> QED
    BY <1>1, <2>1, <2>2 DEF Moves
<1>4. CASE On(u, k + 1, "Begin", Inner)
  BY <1>2, <1>3, <1>4 DEF Beginning, On
<1>5. CASE /\ On(u, k + 1, "Begun", Inner)
           /\ F(u, k + 1 + 1).op = Inner /\ F(u, k + 1 + 1).at \in {"Start", "Attach", "AttachPush"}
  <2>1. ~(u = t /\ (k + 1 + 1 = d \/ k + 1 + 1 = d + 1))
    BY <1>1, <1>5
  <2>2. F(u, k + 1 + 1)' = F(u, k + 1 + 1)
    BY <1>1, <2>1 DEF Moves
  <2> QED
    BY <1>2, <1>3, <1>5, <2>2 DEF Beginning, On
<1> QED
  BY <1>4, <1>5 DEF Beginning

\* The action at a place where operations are begun.
LEMMA StartingSteps ==
    ASSUME NEW t \in Thread, Proceed(t)
    PROVE  /\ At(t, "Begin") => Begin(t)
           /\ At(t, "Start") => Start(t)
           /\ At(t, "Attach") => AttachChild(t)
           /\ At(t, "AttachPush") => AttachPush(t)
BY DEF Proceed, Start, Finish, TryComplete, FinishComplete, Cancel, AttachChild, AttachPush, OnStart,
       StartReturns, Begin, Begun, Callback, Cleanup, DetachChild, CancelCollect, CancelChild,
       CancelSignals, CancelCompletes, At

\* The proxy is not cancelled while the operation inside is begun.
LEMMA ProxyIdle ==
    ASSUME OpInv, AttachInv, Young(Inner)
    PROVE  ~cancelRequested[Proxy] /\ ~CompletingOrCompleted(Proxy)
<1>1. Unbegun \/ Context("ComAttach")
  BY DEF AttachInv, Context, One
<1>2. lifecycle[Proxy] = "Created"
  BY InnerFacts DEF OpInv, StartInv
<1> QED
  BY <1>1, <1>2 DEF AttachInv, CompletingOrCompleted

LEMMA InnerProceeds ==
    ASSUME OpInv, AttachInv, NEW t \in Thread, Proceed(t),
           ~(At(t, "Finish") /\ IsChild(Top(t).op, Proxy))
    PROVE  /\ Unbegun => Fresh(Inner)'
           /\ Inner \notin refused'
           /\ Young(Inner)' => Young(Inner)
           /\ Young(Inner)' =>
                 \/ Unbegun
                 \/ \E u \in Thread, k \in Nat :
                       On(u, k, "ComAttach", Proxy)' /\ Beginning(u, k + 1)'
<1> USE DEF OpInv
<1>1. PICK at \in OwnPlaces, op \in Op, d \in Nat, f \in Frames, g \in Frames : Seen(t, at, op, d, f, g)
  BY ProceedSeen DEF SeenStep
<1>2. /\ Moves(t, d, f, g) /\ F(t, d + 1) = NoFrame /\ F(t, d).at = at /\ F(t, d).op = op
      /\ At(t, at) /\ Top(t).op = op /\ AtTop(t, d, at, op) /\ One(at, op)
  BY <1>1 DEF Seen, AtTop, At, Top
<1>3. /\ lifecycle[Inner] = "Created" => lifecycle'[Inner] = "Created" \/ One("Start", Inner)
      /\ lifecycle'[Inner] = "Created" => lifecycle[Inner] = "Created"
  BY InnerFacts, ProceedEffects
<1>4. ASSUME Fresh(Inner)
      PROVE  Fresh(Inner)'
  <2>1. ~One("Begin", Inner)'
    <3>1. One("Begin", Inner)' => (f.at = "Begin" /\ f.op = Inner) \/ (g.at = "Begin" /\ g.op = Inner)
      BY <1>2, <1>4, OneMoves DEF Fresh
    <3>2. ~(f.at = "Begin" /\ f.op = Inner)
      <4>1. SUFFICES ASSUME f.at = "Begin", f.op = Inner PROVE FALSE
        OBVIOUS
      <4>2. PICK p \in Op : at = "Finish" /\ IsChild(op, p) /\ IsChild(Inner, p)
        BY <1>1, <4>1 DEF Seen
      <4>3. p = Proxy
        BY <4>2, InnerFacts, TreeAssumption
      <4> QED
        BY <1>2, <4>2, <4>3
    <3>3. ~(g.at = "Begin" /\ g.op = Inner)
      <4>1. SUFFICES ASSUME g.at = "Begin", g.op = Inner PROVE FALSE
        OBVIOUS
      <4>2. op \notin Host /\ IsChild(Inner, op)
        BY <1>1, <4>1 DEF Seen
      <4> QED
        BY <4>2, InnerFacts, TreeAssumption
    <3> QED
      BY <3>1, <3>2, <3>3
  <2>2. ~One("Start", Inner)'
    <3>1. One("Start", Inner)' => (f.at = "Start" /\ f.op = Inner) \/ (g.at = "Start" /\ g.op = Inner)
      BY <1>2, <1>4, OneMoves DEF Fresh
    <3> QED
      BY <1>1, <1>2, <1>4, <3>1 DEF Seen, Fresh
  <2> QED
    BY <1>3, <1>4, <2>1, <2>2 DEF Fresh
<1>5. Young(Inner)' => Young(Inner)
  <2>1. SUFFICES ASSUME Attaching(Inner)', ~Attaching(Inner) PROVE Young(Inner)
    BY <1>3 DEF Young
  <2>2. One("Attach", Inner)' \/ One("AttachPush", Inner)'
    BY <2>1 DEF Attaching
  <2>3. (f.at \in {"Attach", "AttachPush"} /\ f.op = Inner) \/ (g.at \in {"Attach", "AttachPush"} /\ g.op = Inner)
    BY <1>2, <2>1, <2>2, OneMoves DEF Attaching
  <2>4. at \in {"Start", "Attach"} /\ op = Inner
    BY <1>1, <2>3 DEF Seen
  <2> QED
    BY <1>2, <2>1, <2>4 DEF StartInv, Attaching, Young
<1>6. Inner \notin refused'
  <2>1. CASE AttachChild(t)
    <3>1. At(t, "Attach") /\ at = "Attach"
      BY <1>2, <2>1 DEF AttachChild, At
    <3>2. CASE op = Inner
      <4>1. Young(Inner)
        BY <1>2, <3>1, <3>2 DEF Young, Attaching
      <4>2. ~CompletingOrCompleted(Parent(op)) /\ ~cancelRequested[Parent(op)]
        BY <3>2, <4>1, ProxyIdle, InnerFacts
      <4> QED
        BY <1>2, <2>1, <4>2 DEF AttachChild, AttachInv
    <3>3. CASE op # Inner
      BY <1>2, <2>1, <3>3 DEF AttachChild, AttachInv
    <3> QED
      BY <3>2, <3>3
  <2>2. CASE refused' = refused
    BY <2>2 DEF AttachInv
  <2>3. AttachChild(t) \/ refused' = refused
    BY DEF Proceed, Start, Finish, TryComplete, FinishComplete, Cancel, AttachPush, OnStart,
           StartReturns, Begin, Begun, Callback, Cleanup, DetachChild, CancelCollect, CancelChild,
           CancelSignals, CancelCompletes, history
  <2> QED
    BY <2>1, <2>2, <2>3
<1>7. ASSUME Young(Inner)', ~Unbegun
      PROVE  \E u \in Thread, k \in Nat : On(u, k, "ComAttach", Proxy)' /\ Beginning(u, k + 1)'
  <2>1. PICK u \in Thread, k \in Nat : On(u, k, "ComAttach", Proxy) /\ Beginning(u, k + 1)
    BY <1>5, <1>7 DEF AttachInv
  <2>2. F(t, d).at # "ComAttach"
    BY <1>2 DEF OwnPlaces
  <2>3. CASE ~(at \in {"Begin", "Start", "Attach", "AttachPush"} /\ op = Inner)
    BY <1>2, <2>1, <2>2, <2>3, BeginningMoves
  <2>4. CASE at \in {"Begin", "Start", "Attach", "AttachPush"} /\ op = Inner
    \* The innermost frame is the one that begins the operation.
    <3>1. /\ On(u, k + 1, "Begin", Inner) => u = t /\ d = k + 1
          /\ On(u, k + 1, "Begun", Inner) => u = t /\ d = k + 2 /\ at # "Begin"
          /\ On(u, k + 1, "Begin", Inner) => at = "Begin"
      <4>1. k + 1 \in Nat /\ k + 2 \in Nat /\ k + 1 + 1 = k + 2
        OBVIOUS
      <4>2. Unique(Starting) /\ F(t, d).at \in Starting /\ F(t, d).op = Inner
        BY <1>2, <2>4 DEF StartInv, Starting
      <4>3. On(u, k + 1, "Begin", Inner) => u = t /\ d = k + 1
        BY <4>1, <4>2 DEF Unique, On, Starting
      <4>4. On(u, k + 1, "Begun", Inner) => u = t /\ d = k + 2 /\ F(u, k + 2).at # "Begin"
        BY <2>1, <4>1, <4>2 DEF Unique, On, Starting, Beginning
      <4> QED
        BY <1>2, <4>3, <4>4 DEF On
    <3>2. k \in Nat /\ k # d /\ k # d + 1 /\ u = t
      BY <2>1, <3>1 DEF Beginning
    <3>3. On(u, k, "ComAttach", Proxy)'
      BY <1>2, <2>1, <3>2 DEF Moves, On
    <3>4. CASE at = "Begin"
      <4>1. Begin(t)
        BY <1>2, <3>4, StartingSteps
      <4>2. d = k + 1
        BY <2>1, <3>1, <3>4 DEF Beginning
      <4>3. PICK ff \in Frames : ff = [Top(t) EXCEPT !.at = "Begun"] /\ ff.at = "Begun"
        <5>1. "Begun" \in OwnPlaces /\ Top(t) \in Frames
          BY <1>2 DEF OwnPlaces, AtTop
        <5> QED
          BY <5>1, PlaceFrame
      <4>4. ff.op = Inner
        BY <1>2, <2>4, <4>3
      <4>5. PICK gg \in Frames : gg = Frame("Start", op) /\ gg.at = "Start" /\ gg.op = op
        BY PlainFrame DEF OwnPlaces
      <4>6. Moves(t, d, ff, gg)
        BY <1>2, <4>1, <4>3, <4>5, CallMoves DEF Begin
      <4>7. F(t, d)' = ff /\ F(t, d + 1)' = gg
        BY <4>6 DEF Moves
      <4>8. Beginning(u, k + 1)'
        BY <2>4, <3>2, <4>2, <4>4, <4>3, <4>5, <4>7 DEF Beginning, On
      <4> QED
        BY <3>3, <4>8
    <3>5. CASE at # "Begin"
      <4>1. On(u, k + 1, "Begun", Inner) /\ d = k + 2 /\ k + 1 # d /\ k + 1 # d + 1 /\ k + 1 + 1 = d
        BY <2>1, <3>1, <3>5 DEF Beginning
      <4>2. On(u, k + 1, "Begun", Inner)'
        BY <1>2, <3>2, <4>1 DEF Moves, On
      <4>3. F(t, d)' = f
        BY <1>2 DEF Moves
      <4>4. SUFFICES f.op = Inner /\ f.at \in {"Attach", "AttachPush"}
        BY <3>2, <3>3, <4>1, <4>2, <4>3 DEF Beginning
      <4>5. CASE at = "Start"
        <5>1. PICK ff \in Frames : ff = Frame("Attach", Inner) /\ ff.at = "Attach" /\ ff.op = Inner
          BY InnerFacts, PlainFrame DEF OwnPlaces
        <5>2. Goto(t, ff)
          BY <1>2, <2>4, <4>5, <5>1, StartingSteps, InnerFacts DEF Start
        <5>3. Moves(t, d, ff, NoFrame)
          BY <1>2, <5>2, GotoMoves
        <5> QED
          BY <4>3, <5>1, <5>3 DEF Moves
      <4>6. CASE at = "Attach"
        <5>1. ~CompletingOrCompleted(Parent(op)) /\ ~cancelRequested[Parent(op)]
          BY <1>5, <1>7, <2>4, ProxyIdle, InnerFacts
        <5>2. PICK ff \in Frames : ff = Frame("AttachPush", Inner) /\ ff.at = "AttachPush" /\ ff.op = Inner
          BY InnerFacts, PlainFrame DEF OwnPlaces
        <5>3. Goto(t, ff)
          BY <1>2, <2>4, <4>6, <5>1, <5>2, StartingSteps DEF AttachChild
        <5>4. Moves(t, d, ff, NoFrame)
          BY <1>2, <5>3, GotoMoves
        <5> QED
          BY <4>3, <5>2, <5>4 DEF Moves
      <4>7. CASE at = "AttachPush"
        <5>1. PICK ff \in Frames : ff = Frame("OnStart", Inner) /\ ff.at = "OnStart" /\ ff.op = Inner
          BY InnerFacts, PlainFrame DEF OwnPlaces
        <5>2. Goto(t, ff) /\ lifecycle' = lifecycle
          BY <1>2, <2>4, <4>7, <5>1, StartingSteps DEF AttachPush, word
        <5>3. Moves(t, d, ff, NoFrame)
          BY <1>2, <5>2, GotoMoves
        <5>4. Unique({"Attach", "AttachPush"})
          BY UniquePart DEF StartInv, Starting
        <5>5. \A x \in {"Attach", "AttachPush"} : ~One(x, Inner)'
          BY <1>2, <2>4, <4>7, <5>1, <5>3, <5>4, UniqueGone, NoFrameFacts
        <5>6. lifecycle[Inner] # "Created"
          BY <1>2, <2>4, <4>7, InnerFacts DEF StartInv, Attaching
        <5> QED
          BY <1>7, <5>2, <5>5, <5>6 DEF Young, Attaching
      <4> QED
        BY <2>4, <3>5, <4>5, <4>6, <4>7
    <3> QED
      BY <3>4, <3>5
  <2> QED
    BY <2>3, <2>4
<1> QED
  BY <1>4, <1>5, <1>6, <1>7 DEF AttachInv

-----------------------------------------------------------------------------
(***************************************************************************)
(* The parts of the invariant of the context, and what a step has to do to *)
(* keep them.                                                              *)
(***************************************************************************)
LEMMA ContextMoves ==
    ASSUME NEW t \in Thread, NEW d \in Nat, NEW f, NEW g, Moves(t, d, f, g), F(t, d + 1) = NoFrame
    PROVE  \A x \in ComPlaces :
              /\ Context(x)' => Context(x) \/ (x = f.at /\ Proxy = f.op) \/ (x = g.at /\ Proxy = g.op)
              /\ x = f.at /\ Proxy = f.op => Context(x)'
              /\ x = g.at /\ Proxy = g.op => Context(x)'
              /\ Context(x) => Context(x)' \/ On(t, d, x, Proxy)
<1>1. \A x \in ComPlaces : x # "none"
  BY DEF ComPlaces
<1> QED
  BY <1>1, OneMoves DEF Context

LEMMA ComTypesMove ==
    ASSUME ComTypeInv, NEW t \in Thread, NEW d \in Nat, NEW f, NEW g, Moves(t, d, f, g),
           f.at \in ComPlaces => f.op = Proxy /\ f.kids = {},
           g.at \in ComPlaces => g.op = Proxy /\ g.kids = {},
           state_' \in [lifecycle : Phase, observed : BOOLEAN, cancelRequested : BOOLEAN],
           skipCompleteOnCancel_' = skipCompleteOnCancel_, callback_' \in BOOLEAN, child_' \in BOOLEAN,
           result_' \in Error, invoked' \in Nat, answer' \in Error \cup {"none", "NotComplete"}
    PROVE  ComTypeInv'
<1>1. \A u \in Thread, k \in Nat : F(u, k)'.at \in ComPlaces =>
         F(u, k)'.op = Proxy /\ F(u, k)'.kids = {}
  BY DEF Moves, ComTypeInv
<1> QED
  BY <1>1 DEF ComTypeInv

LEMMA AttachStays ==
    ASSUME AttachInv, NEW t \in Thread, NEW d \in Nat, NEW f, NEW g, Moves(t, d, f, g),
           F(t, d + 1) = NoFrame, F(t, d).at \notin {"ComStart", "ComAttach"},
           f.at \notin {"ComStart", "ComAttach"}, g.at \notin {"ComStart", "ComAttach"},
           asserts' \subseteq {"attach"}, Inner \notin refused',
           Unbegun' <=> Unbegun, Unbegun => Fresh(Inner)',
           state_'.cancelRequested => state_.cancelRequested \/ ~Unbegun,
           f.at = "ComCancel" \/ g.at = "ComCancel" => ~Unbegun,
           Young(Inner)' =>
              \/ Unbegun
              \/ \E u \in Thread, k \in Nat : On(u, k, "ComAttach", Proxy)' /\ Beginning(u, k + 1)',
           Unbegun \/ Context("ComAttach") =>
              ~child_' /\ ~cancelRequested'[Proxy] /\ ~One("Cancel", Proxy)'
    PROVE  AttachInv'
<1>1. /\ (Context("ComStart")' <=> Context("ComStart")) /\ (Context("ComAttach")' <=> Context("ComAttach"))
      /\ Context("ComCancel")' => Context("ComCancel") \/ f.at = "ComCancel" \/ g.at = "ComCancel"
  BY ContextMoves DEF On, ComPlaces
<1>2. Unique({"ComStart", "ComAttach"})'
  BY UniqueMoves DEF AttachInv
<1> QED
  BY <1>1, <1>2 DEF AttachInv

LEMMA ReachStays ==
    ASSUME ReachInv, Reached => Reached', Passed => Passed',
           CompletingOrCompleted(Inner) => CompletingOrCompleted(Inner)',
           ~child_' \/ Passed' => ~child_ \/ Passed \/ Reached',
           Unbegun \/ Context("ComAttach") =>
              \/ Unbegun' \/ Context("ComAttach")'
              \/ Reached'
              \/ child_' /\ ~Passed',
           Context("ComTryComplete")' \/ ComCompletingOrCompleted' =>
              \/ Context("ComTryComplete") \/ ComCompletingOrCompleted
              \/ CompletingOrCompleted(Inner)' \/ Passed',
           Context("ComCancelChild")' \/ Context("ComCancelSelf")' => state_'.cancelRequested,
           Unique({"ComCancelChild", "ComCancelSelf"})'
    PROVE  ReachInv'
BY DEF ReachInv

\* The callback is called by the innermost frame of another thread.
LEMMA InvokeFrames ==
    ASSUME InvokeInv, NEW t \in Thread, NEW d \in Nat, NEW f, NEW g, Moves(t, d, f, g),
           F(t, Len(stack[t])).at # "ComInvoke", f.at # "ComInvoke", g.at # "ComInvoke",
           NEW u \in Thread, NEW k \in Nat, On(u, k + 1, "ComInvoke", Proxy)'
    PROVE  k + 1 = Len(stack'[u]) /\ On(u, k, "ComCleanup", Proxy)'
<1>1. k + 1 \in Nat /\ ~(u = t /\ (k + 1 = d \/ k + 1 = d + 1))
  BY DEF On, Moves
<1>2. On(u, k + 1, "ComInvoke", Proxy)
  BY <1>1 DEF On, Moves
<1>3. k + 1 = Len(stack[u]) /\ On(u, k, "ComCleanup", Proxy)
  BY <1>2 DEF InvokeInv
<1>4. u # t
  BY <1>2, <1>3 DEF On
<1> QED
  BY <1>3, <1>4 DEF Moves, On

\* Steps that neither complete the context nor call or clean up anything.
LEMMA InvokeStays ==
    ASSUME InvokeInv, NEW t \in Thread, NEW d \in Nat, NEW f, NEW g, Moves(t, d, f, g),
           F(t, d + 1) = NoFrame, F(t, Len(stack[t])).at # "ComInvoke",
           F(t, d).at \notin {"ComFinishComplete", "ComInvoke", "ComCleanup", "ComCleanupChild"},
           f.at \notin {"ComFinishComplete", "ComInvoke", "ComCleanup", "ComCleanupChild"},
           g.at \notin {"ComFinishComplete", "ComInvoke", "ComCleanup", "ComCleanupChild"},
           UNCHANGED <<callback_, result_, invoked, answer>>,
           \/ state_'.lifecycle = state_.lifecycle
           \/ state_.lifecycle = "Created" /\ state_'.lifecycle = "Started",
           state_.lifecycle \in Over /\ child_' => child_
    PROVE  InvokeInv'
<1>1. /\ Context("ComFinishComplete")' <=> Context("ComFinishComplete")
      /\ Context("ComInvoke")' <=> Context("ComInvoke")
      /\ Context("ComCleanup")' <=> Context("ComCleanup")
      /\ Context("ComCleanupChild")' <=> Context("ComCleanupChild")
  BY ContextMoves DEF On, ComPlaces
<1>2. Unique({"ComFinishComplete"})' /\ Unique({"ComInvoke"})' /\ Unique({"ComCleanup"})'
  BY UniqueMoves DEF InvokeInv
<1>3. \A u \in Thread, k \in Nat : On(u, k + 1, "ComInvoke", Proxy)' =>
         k + 1 = Len(stack'[u]) /\ On(u, k, "ComCleanup", Proxy)'
  BY InvokeFrames
<1> QED
  BY <1>1, <1>2, <1>3 DEF InvokeInv, Over

LEMMA AnswerStays ==
    ASSUME AnswerInv,
           state_.cancelRequested => state_'.cancelRequested,
           lifecycle[Inner] = "Ended" => lifecycle'[Inner] = "Ended" /\ error_'[Inner] = error_[Inner],
           state_'.lifecycle \in Over =>
              \/ state_.lifecycle \in Over /\ result_' = result_
              \/ ComJustified(result_)',
           \A err \in Error : ComClaims(err)' => ComClaims(err) \/ ComJustified(err)'
    PROVE  AnswerInv'
<1>1. \A err : ComJustified(err) => ComJustified(err)'
  BY DEF ComJustified
<1> QED
  BY <1>1 DEF AnswerInv, ComJustified

LEMMA ComClaimsMove ==
    ASSUME NEW t \in Thread, NEW d \in Nat, NEW f, NEW g, Moves(t, d, f, g)
    PROVE  \A err : ComClaims(err)' =>
              \/ ComClaims(err)
              \/ f.at \in {"ComTryComplete", "ComFinishComplete"} /\ err = f.err
              \/ g.at \in {"ComTryComplete", "ComFinishComplete"} /\ err = g.err
BY ClaimedMoves DEF ComClaims

-----------------------------------------------------------------------------
(***************************************************************************)
(* Steps of AsyncOperation.                                                *)
(***************************************************************************)
LEMMA OperationsKeep ==
    ASSUME ContextInv, NEW t \in Thread, NEW d \in Nat, NEW f, NEW g, Moves(t, d, f, g),
           F(t, d + 1) = NoFrame, F(t, d).at \notin ComPlaces \ {"ComCancel"},
           f.at \notin ComPlaces \ {"ComCancel"}, f.at \in ComPlaces => f.op = Proxy /\ f.kids = {},
           f.at = "ComCancel" => ~Unbegun,
           g.at \notin ComPlaces, F(t, Len(stack[t])).at # "ComInvoke", UNCHANGED com,
           asserts' \subseteq asserts \cup {"attach"}, Inner \notin refused',
           Unbegun => Fresh(Inner)',
           Young(Inner)' =>
              \/ Unbegun
              \/ \E u \in Thread, k \in Nat : On(u, k, "ComAttach", Proxy)' /\ Beginning(u, k + 1)',
           One("Cancel", Proxy)' => One("Cancel", Proxy),
           One("Cancel", Proxy) => One("Cancel", Proxy)' \/ cancelRequested'[Proxy],
           cancelRequested[Proxy] => cancelRequested'[Proxy],
           cancelRequested'[Proxy] => cancelRequested[Proxy] \/ One("Cancel", Proxy),
           CompletingOrCompleted(Inner) => CompletingOrCompleted(Inner)',
           lifecycle[Inner] = "Ended" => lifecycle'[Inner] = "Ended" /\ error_'[Inner] = error_[Inner]
    PROVE  ContextInv'
<1> USE DEF ContextInv
<1>1. UNCHANGED <<skipCompleteOnCancel_, state_, callback_, result_, child_, invoked, answer>>
  BY DEF com
<1>2. \A x \in ComPlaces \ {"ComCancel"} : Context(x)' <=> Context(x)
  BY ContextMoves DEF On
<1>3. ComTypeInv'
  BY <1>1, ComTypesMove DEF ComTypeInv, Foreign
<1>4. AttachInv'
  BY <1>1, AttachStays DEF AttachInv, ComPlaces, Unbegun
<1>5. ReachInv'
  <2>1. /\ Unbegun' <=> Unbegun
        /\ Context("ComAttach")' <=> Context("ComAttach")
        /\ Context("ComTryComplete")' <=> Context("ComTryComplete")
        /\ Context("ComCancelChild")' <=> Context("ComCancelChild")
        /\ Context("ComCancelSelf")' <=> Context("ComCancelSelf")
    BY <1>1, <1>2 DEF ComPlaces, Unbegun
  <2>2. Unique({"ComCancelChild", "ComCancelSelf"})'
    BY UniqueMoves DEF ReachInv, ComPlaces
  <2>3. Reached => Reached'
    BY DEF Reached
  <2>4. (Passed' <=> Passed) /\ (ComCompletingOrCompleted' <=> ComCompletingOrCompleted)
    BY <1>1, <2>1 DEF Passed, ComCompletingOrCompleted
  <2>5. Context("ComCancelChild")' \/ Context("ComCancelSelf")' => state_'.cancelRequested
    BY <1>1, <2>1 DEF ReachInv
  <2> QED
    BY <1>1, <2>1, <2>2, <2>3, <2>4, <2>5, ReachStays
<1>6. InvokeInv'
  BY <1>1, InvokeStays DEF ComPlaces
<1>7. AnswerInv'
  <2>1. \A err : ComClaims(err)' => ComClaims(err)
    BY ComClaimsMove DEF ComPlaces
  <2> QED
    BY <1>1, <2>1, AnswerStays
<1> QED
  BY <1>3, <1>4, <1>5, <1>6, <1>7

LEMMA ComProceedKeeps ==
    ASSUME OpInv, ContextInv, NEW t \in Thread, Proceed(t), UNCHANGED com,
           ~(At(t, "Finish") /\ IsChild(Top(t).op, Proxy))
    PROVE  ContextInv'
<1>1. PICK at \in OwnPlaces, op \in Op, d \in Nat, f \in Frames, g \in Frames : Seen(t, at, op, d, f, g)
  BY ProceedSeen DEF SeenStep
<1>2. /\ Moves(t, d, f, g) /\ F(t, d + 1) = NoFrame /\ F(t, d).at = at /\ F(t, d).op = op
      /\ d = Len(stack[t])
      /\ f.at \in OwnPlaces \cup {"none"} /\ g.at \in OwnPlaces \cup {"none"}
      /\ f.at # "Cancel" /\ (g.at = "Cancel" => g.op \notin Host)
  BY <1>1 DEF Seen, AtTop
<1>3. (OwnPlaces \cup {"none"}) \cap ComPlaces = {}
  BY DEF OwnPlaces, ComPlaces
<1>4. "ComInvoke" \in ComPlaces /\ "ComCancel" \in ComPlaces /\ F(t, Len(stack[t])).at \notin ComPlaces
  BY <1>2, <1>3 DEF ComPlaces
<1>5. /\ One("Cancel", Proxy)' => One("Cancel", Proxy)
  BY <1>2, OneMoves, InnerFacts
<1>6. One("Cancel", Proxy) => One("Cancel", Proxy)' \/ cancelRequested'[Proxy]
  BY CancelLasts, InnerFacts
<1>7. /\ cancelRequested[Proxy] => cancelRequested'[Proxy]
      /\ cancelRequested'[Proxy] => cancelRequested[Proxy] \/ One("Cancel", Proxy)
      /\ CompletingOrCompleted(Inner) => CompletingOrCompleted(Inner)'
      /\ lifecycle[Inner] = "Ended" => lifecycle'[Inner] = "Ended" /\ error_'[Inner] = error_[Inner]
  BY ProceedEffects, InnerFacts
<1>8. asserts' \subseteq asserts \cup {"attach"}
  BY ProceedAsserts
<1>9. /\ Unbegun => Fresh(Inner)'
      /\ Inner \notin refused'
      /\ Young(Inner)' =>
            \/ Unbegun
            \/ \E u \in Thread, k \in Nat : On(u, k, "ComAttach", Proxy)' /\ Beginning(u, k + 1)'
  BY InnerProceeds DEF ContextInv
<1> QED
  BY <1>2, <1>3, <1>4, <1>5, <1>6, <1>7, <1>8, <1>9, OperationsKeep

\* A thread that was idle completes an operation, or cancels one.
LEMMA ComCallKeeps ==
    ASSUME OpInv, ContextInv, NEW t \in Thread, NEW f, Moves(t, 1, f, NoFrame), stack[t] = <<>>,
           F(t, 1) = NoFrame, F(t, 1 + 1) = NoFrame,
           f.at \in {"TryComplete", "Cancel"}, f.at = "Cancel" => f.op # Proxy,
           UNCHANGED <<lifecycle, cancelRequested, error_, refused, asserts>>, UNCHANGED com
    PROVE  ContextInv'
<1>1. F(t, Len(stack[t])) = NoFrame /\ 1 \in Nat
  BY DEF F
<1>2. NoFrame.at \notin ComPlaces /\ f.at \notin ComPlaces /\ NoFrame.at = "none" /\ "ComInvoke" # "none"
  BY NoFrameFacts DEF ComPlaces
<1>3. /\ \A x \in {"Begin", "Start", "Attach", "AttachPush"} : \A o : One(x, o)' <=> One(x, o)
      /\ One("Cancel", Proxy)' <=> One("Cancel", Proxy)
  <2>1. ASSUME NEW x \in {"Begin", "Start", "Attach", "AttachPush", "Cancel"}, NEW o,
               x = "Cancel" => o = Proxy
        PROVE  One(x, o)' <=> One(x, o)
    <3>1. x # "none" /\ ~(x = f.at /\ o = f.op) /\ x # NoFrame.at /\ ~On(t, 1, x, o)
      BY <1>2, <2>1 DEF On
    <3> QED
      BY <1>1, <3>1, OneMoves
  <2> QED
    BY <2>1
<1>4. (Fresh(Inner)' <=> Fresh(Inner)) /\ (Young(Inner)' <=> Young(Inner))
  BY <1>3 DEF Fresh, Young, Attaching
<1>5. Young(Inner)' =>
         \/ Unbegun
         \/ \E u \in Thread, k \in Nat : On(u, k, "ComAttach", Proxy)' /\ Beginning(u, k + 1)'
  <2>1. F(t, 1).at # "ComAttach" /\ F(t, 1).at \notin {"Begin", "Start", "Attach", "AttachPush"}
    BY <1>2
  <2>2. SUFFICES ASSUME Young(Inner), ~Unbegun
                 PROVE  \E u \in Thread, k \in Nat : On(u, k, "ComAttach", Proxy)' /\ Beginning(u, k + 1)'
    BY <1>4
  <2>3. PICK u \in Thread, k \in Nat : On(u, k, "ComAttach", Proxy) /\ Beginning(u, k + 1)
    BY <2>2 DEF ContextInv, AttachInv
  <2> QED
    BY <1>1, <2>1, <2>3, BeginningMoves
<1>6. /\ Unbegun => Fresh(Inner)'
      /\ Inner \notin refused' /\ asserts' \subseteq asserts \cup {"attach"}
      /\ CompletingOrCompleted(Inner) => CompletingOrCompleted(Inner)'
  BY <1>4 DEF ContextInv, AttachInv, CompletingOrCompleted
<1>7. F(t, 1).at \notin ComPlaces /\ F(t, Len(stack[t])).at # "ComInvoke" /\ f.at # "ComCancel"
  BY <1>1, <1>2
<1> QED
  BY <1>1, <1>2, <1>3, <1>5, <1>6, <1>7, OperationsKeep

LEMMA ComWorkDoneKeeps ==
    ASSUME OpInv, ContextInv, NEW t \in Thread, WorkDone(t), UNCHANGED com
    PROVE  ContextInv'
<1>1. PICK op \in handedOver, e \in {"Success", "Failure"} :
        stack' = [stack EXCEPT ![t] = <<[Frame("TryComplete", op) EXCEPT !.err = e]>>]
  BY DEF WorkDone
<1>2. PICK f \in Frames : f = [Frame("TryComplete", op) EXCEPT !.err = e] /\ f.at = "TryComplete"
  <2>1. op \in Op /\ e \in Error /\ "TryComplete" \in OwnPlaces
    BY DEF OpInv, TypeInv, Error, OwnPlaces
  <2> QED
    BY <2>1, ErrorFrame
<1>3. stack[t] = <<>> /\ UNCHANGED <<lifecycle, cancelRequested, error_, refused, asserts>>
  BY DEF WorkDone, word, history
<1>4. F(t, 1) = NoFrame /\ F(t, 1 + 1) = NoFrame /\ Moves(t, 1, f, NoFrame)
  <2>1. stack' = [stack EXCEPT ![t] = <<f>>]
    BY <1>1, <1>2
  <2>2. F(t, 1) = NoFrame /\ F(t, 2) = NoFrame /\ Moves(t, 1, f, NoFrame)
    BY <1>3, <2>1, BeginMoves DEF OpInv
  <2>3. 1 + 1 = 2
    OBVIOUS
  <2> QED
    BY <2>2, <2>3
<1> QED
  BY <1>2, <1>3, <1>4, ComCallKeeps

-----------------------------------------------------------------------------
(***************************************************************************)
(* Steps of the context.                                                   *)
(***************************************************************************)
LEMMA ComTop ==
    ASSUME TypeInv, ComTypeInv, NEW t \in Thread, NEW at \in ComPlaces, At(t, at)
    PROVE  /\ \E d \in Nat : AtTop(t, d, at, Proxy) /\ Context(at)
           /\ Top(t).op = Proxy /\ Top(t) \in Frames
BY TopFacts DEF AtTop, ComTypeInv, Context

LEMMA ComFrame ==
    ASSUME NEW at \in ComPlaces
    PROVE  \E f \in Frames : f = Frame(at, Proxy) /\ f.at = at /\ f.op = Proxy /\ Foreign(f)
<1>1. at \in Places /\ at \notin OwnPlaces /\ Proxy \in Op
  BY InnerFacts DEF ComPlaces, Places, OwnPlaces
<1>2. /\ Frame(at, Proxy) \in Frames /\ Frame(at, Proxy).at = at
      /\ Frame(at, Proxy).op = Proxy /\ Frame(at, Proxy).kids = {}
  BY <1>1, FrameFacts
<1> DEFINE f == Frame(at, Proxy)
<1>3. f \in Frames /\ f.at = at /\ f.op = Proxy /\ Foreign(f)
  BY <1>1, <1>2 DEF Foreign
<1> QED
  BY <1>3

LEMMA ComErrorFrame ==
    ASSUME NEW at \in ComPlaces, NEW e \in Error
    PROVE  \E f \in Frames : /\ f = [Frame(at, Proxy) EXCEPT !.err = e] /\ f.at = at /\ f.op = Proxy
                             /\ f.err = e /\ Foreign(f)
<1>1. at \in Places /\ at \notin OwnPlaces /\ Proxy \in Op
  BY InnerFacts DEF ComPlaces, Places, OwnPlaces
<1> DEFINE f == [Frame(at, Proxy) EXCEPT !.err = e]
<1>2. f \in Frames /\ f.at = at /\ f.op = Proxy /\ f.err = e /\ f.kids = {}
  BY <1>1 DEF Frame, Frames
<1> HIDE DEF f
<1>3. f = [Frame(at, Proxy) EXCEPT !.err = e]
  BY DEF f
<1> QED
  BY <1>1, <1>2, <1>3 DEF Foreign

LEMMA NoForeign == Foreign(NoFrame)
<1>1. "none" \notin OwnPlaces
  BY DEF OwnPlaces
<1> QED
  BY <1>1, NoFrameFacts DEF Foreign

LEMMA ForeignEffects ==
    ASSUME NEW t \in Thread, NEW d \in Nat, NEW f, NEW g, Moves(t, d, f, g), F(t, d + 1) = NoFrame,
           F(t, d).at \notin OwnPlaces, Foreign(f), Foreign(g),
           UNCHANGED <<lifecycle, error_, cancelRequested>>, ContextInv
    PROVE  /\ One("Cancel", Proxy) => One("Cancel", Proxy)'
           /\ One("Cancel", Proxy)' => One("Cancel", Proxy) \/ f.at = "Cancel" \/ g.at = "Cancel"
           /\ Reached => Reached'
           /\ CompletingOrCompleted(Inner)' <=> CompletingOrCompleted(Inner)
           /\ Fresh(Inner)' <=> Fresh(Inner)
           /\ Young(Inner)' => Young(Inner)
           /\ F(t, d).at # "ComAttach" /\ Young(Inner)' =>
                 \/ Unbegun
                 \/ \E u \in Thread, k \in Nat : On(u, k, "ComAttach", Proxy)' /\ Beginning(u, k + 1)'
<1>1. /\ "Begin" \in OwnPlaces /\ "Start" \in OwnPlaces /\ "Attach" \in OwnPlaces
      /\ "AttachPush" \in OwnPlaces /\ "Cancel" \in OwnPlaces /\ "none" \notin OwnPlaces
  BY DEF OwnPlaces
<1>2. \A x \in OwnPlaces : \A o : ~On(t, d, x, o)
  BY DEF On
<1>3. ASSUME NEW x \in OwnPlaces, x # "Cancel", NEW o
      PROVE  One(x, o)' <=> One(x, o)
  <2>1. x # "none" /\ x # f.at /\ x # g.at /\ ~On(t, d, x, o)
    BY <1>1, <1>2, <1>3 DEF Foreign
  <2> QED
    BY <2>1, OneMoves
<1>4. /\ One("Cancel", Proxy) => One("Cancel", Proxy)'
      /\ One("Cancel", Proxy)' => One("Cancel", Proxy) \/ f.at = "Cancel" \/ g.at = "Cancel"
  <2>1. "Cancel" # "none" /\ ~On(t, d, "Cancel", Proxy)
    BY <1>1, <1>2
  <2> QED
    BY <2>1, OneMoves
<1>5. (Fresh(Inner)' <=> Fresh(Inner)) /\ (Young(Inner)' <=> Young(Inner))
  BY <1>1, <1>3 DEF Fresh, Young, Attaching
<1>6. F(t, d).at # "ComAttach" /\ Young(Inner)' =>
         \/ Unbegun
         \/ \E u \in Thread, k \in Nat : On(u, k, "ComAttach", Proxy)' /\ Beginning(u, k + 1)'
  <2>1. SUFFICES ASSUME F(t, d).at # "ComAttach", Young(Inner), ~Unbegun
                 PROVE  \E u \in Thread, k \in Nat : On(u, k, "ComAttach", Proxy)' /\ Beginning(u, k + 1)'
    BY <1>5
  <2>2. PICK u \in Thread, k \in Nat : On(u, k, "ComAttach", Proxy) /\ Beginning(u, k + 1)
    BY <2>1 DEF ContextInv, AttachInv
  <2>3. F(t, d).at \notin {"Begin", "Start", "Attach", "AttachPush"}
    BY <1>1
  <2> QED
    BY <2>1, <2>2, <2>3, BeginningMoves
<1>7. (CompletingOrCompleted(Inner)' <=> CompletingOrCompleted(Inner)) /\ (Reached => Reached')
  BY <1>4 DEF CompletingOrCompleted, Reached
<1> QED
  BY <1>4, <1>5, <1>6, <1>7

\* A step of the context on its own frames keeps the invariant of the operations.
LEMMA ComStepKeeps ==
    ASSUME OpInv, ResultInv, ContextInv, NEW t \in Thread, NEW d \in Nat, NEW at \in ComPlaces,
           AtTop(t, d, at, Proxy), NEW f, NEW g, Moves(t, d, f, g), Foreign(f), Foreign(g),
           fresh' = fresh, UNCHANGED <<word, error_, tree, handedOver, history, asserts>>
    PROVE  OpInv' /\ ResultInv'
<1>1. F(t, d + 1) = NoFrame /\ F(t, d).at \notin OwnPlaces
  BY DEF AtTop, ComPlaces, OwnPlaces
<1>2. \A u \in fresh' : stack'[u] = <<>>
  <2>1. t \notin fresh /\ \A u \in fresh : u \in Thread /\ stack[u] = <<>>
    BY TreeFacts DEF AtTop, OpInv, TypeInv
  <2> QED
    BY <2>1 DEF Moves
<1>3. asserts' \cap {"TransitionStarted", "TransitionCompleted", "TransitionEnded"} = {}
  BY DEF ContextInv, AttachInv
<1> QED
  BY <1>1, <1>2, <1>3, ForeignKeeps

LEMMA ComStartKeeps ==
    ASSUME OpInv, ResultInv, ContextInv, NEW t \in Thread, ComStart(t)
    PROVE  OpInv' /\ ResultInv' /\ ContextInv'
<1> USE DEF ContextInv
<1>1. "ComStart" \in ComPlaces /\ "ComAttach" \in ComPlaces /\ At(t, "ComStart")
  BY DEF ComPlaces, ComStart
<1>2. PICK d \in Nat : AtTop(t, d, "ComStart", Proxy) /\ Context("ComStart")
  BY <1>1, ComTop DEF OpInv
<1>3. /\ F(t, d + 1) = NoFrame /\ F(t, d).at = "ComStart" /\ F(t, d).op = Proxy /\ d = Len(stack[t])
      /\ stack[t] # <<>> /\ F(t, d).at \notin OwnPlaces
  BY <1>2 DEF AtTop, OwnPlaces
<1>4. state_.lifecycle = "Created" /\ Fresh(Inner) /\ ~child_ /\ ~cancelRequested[Proxy]
      /\ ~One("Cancel", Proxy) /\ ~state_.cancelRequested /\ ~Context("ComCancel")
  BY <1>2 DEF AttachInv, Unbegun
<1>5. /\ state_' = [state_ EXCEPT !.lifecycle = "Started"] /\ fresh' = fresh
      /\ UNCHANGED <<word, error_, tree, handedOver, history, asserts>>
      /\ UNCHANGED <<skipCompleteOnCancel_, callback_, result_, child_, invoked, answer>>
  BY <1>4 DEF ComStart, ComTransition, others
<1>6. UNCHANGED <<lifecycle, cancelRequested, error_, refused>>
  BY <1>5 DEF word, history
<1>7. /\ state_' \in [lifecycle : Phase, observed : BOOLEAN, cancelRequested : BOOLEAN]
      /\ state_'.lifecycle = "Started" /\ state_'.cancelRequested = state_.cancelRequested
  <2>1. "Started" \in Phase
    BY DEF Phase
  <2> QED
    BY <1>5, <2>1 DEF ComTypeInv
<1>8. PICK f \in Frames : f = Frame("ComAttach", Proxy) /\ f.at = "ComAttach" /\ f.op = Proxy /\ Foreign(f)
  BY <1>1, ComFrame
<1>9. PICK g \in Frames : g = Frame("Begin", Inner) /\ g.at = "Begin" /\ g.op = Inner
  <2>1. "Begin" \in OwnPlaces
    BY DEF OwnPlaces
  <2> QED
    BY <2>1, PlainFrame, InnerFacts
<1>10. Moves(t, d, f, g)
  <2>1. Call(t, f, g)
    BY <1>8, <1>9 DEF ComStart, Inner
  <2> QED
    BY <1>2, <1>8, <1>9, <2>1, CallMoves DEF OpInv
<1>11. OpInv' /\ ResultInv' /\ \A op \in Op : Young(op)' <=> Young(op)
  <2>1. asserts' \cap {"TransitionStarted", "TransitionCompleted", "TransitionEnded"} = {}
    BY <1>5 DEF AttachInv
  <2>2. f.at # "Cancel"
    BY <1>8
  <2> QED
    BY <1>3, <1>4, <1>5, <1>8, <1>9, <1>10, <2>1, <2>2, InnerBegins
<1>12. ~One("Cancel", Proxy)'
  BY <1>3, <1>4, <1>8, <1>9, <1>10, OneMoves
<1>13. ~Context("ComStart")' /\ Unique({"ComStart", "ComAttach"})'
  <2>1. Unique({"ComStart"}) /\ Unique({"ComStart", "ComAttach"})
    BY UniquePart DEF AttachInv
  <2>2. Unique({"ComStart", "ComAttach"})'
    BY <1>3, <1>8, <1>9, <1>10, <2>1, UniqueMoves
  <2>3. \A x \in {"ComStart"} : ~One(x, Proxy)'
    BY <1>3, <1>8, <1>9, <1>10, <2>1, UniqueGone
  <2> QED
    BY <2>2, <2>3 DEF Context
<1>14. \A x \in ComPlaces : x \notin {"ComStart", "ComAttach"} => (Context(x)' <=> Context(x))
  <2>1. "Begin" \notin ComPlaces
    BY DEF ComPlaces
  <2> QED
    BY <1>3, <1>8, <1>9, <1>10, <2>1, ContextMoves DEF On
<1>15. On(t, d, "ComAttach", Proxy)' /\ Beginning(t, d + 1)' /\ Context("ComAttach")'
  <2>1. d + 1 \in Nat /\ d # d + 1
    OBVIOUS
  <2>2. F(t, d)' = f /\ F(t, d + 1)' = g
    BY <1>10, <2>1 DEF Moves
  <2> QED
    BY <1>8, <1>9, <2>2 DEF On, Beginning, Context, One
<1>16. ComTypeInv'
  <2>1. "Begin" \notin ComPlaces
    BY DEF ComPlaces
  <2> QED
    BY <1>5, <1>7, <1>8, <1>9, <1>10, <2>1, ComTypesMove DEF ComTypeInv, Foreign
<1>17. AttachInv'
  <2>1. ~Unbegun'
    BY <1>7 DEF Unbegun
  <2> QED
    BY <1>4, <1>5, <1>6, <1>12, <1>13, <1>15, <2>1 DEF AttachInv
<1>18. ReachInv'
  <2>1. /\ Context("ComTryComplete")' <=> Context("ComTryComplete")
        /\ Context("ComCancelChild")' <=> Context("ComCancelChild")
        /\ Context("ComCancelSelf")' <=> Context("ComCancelSelf")
    BY <1>14 DEF ComPlaces
  <2>2. (Reached' <=> Reached) /\ (Passed' <=> Passed) /\ ~ComCompletingOrCompleted'
        /\ (CompletingOrCompleted(Inner)' <=> CompletingOrCompleted(Inner))
    BY <1>4, <1>6, <1>7, <1>12, <2>1 DEF Reached, Passed, ComCompletingOrCompleted, CompletingOrCompleted
  <2>3. Unique({"ComCancelChild", "ComCancelSelf"})'
    BY <1>8, <1>9, <1>10, UniqueMoves DEF ReachInv
  <2>4. Context("ComCancelChild")' \/ Context("ComCancelSelf")' => state_'.cancelRequested
    BY <1>7, <2>1 DEF ReachInv
  <2> QED
    BY <1>5, <1>15, <2>1, <2>2, <2>3, <2>4, ReachStays
<1>19. InvokeInv'
  BY <1>3, <1>4, <1>5, <1>7, <1>8, <1>9, <1>10, InvokeStays
<1>20. AnswerInv'
  <2>1. \A err : ComClaims(err)' => ComClaims(err)
    BY <1>8, <1>9, <1>10, ComClaimsMove
  <2>2. state_'.lifecycle \notin Over
    BY <1>7 DEF Over
  <2> QED
    BY <1>6, <1>7, <2>1, <2>2, AnswerStays
<1> QED
  BY <1>11, <1>16, <1>17, <1>18, <1>19, <1>20

LEMMA ComAttachKeeps ==
    ASSUME OpInv, ResultInv, ContextInv, NEW t \in Thread, ComAttach(t)
    PROVE  OpInv' /\ ResultInv' /\ ContextInv'
<1> USE DEF ContextInv
<1>0. PICK late \in BOOLEAN : late <=> ComCompletingOrCompleted \/ state_.cancelRequested
  OBVIOUS
<1>1. "ComAttach" \in ComPlaces /\ At(t, "ComAttach") /\ "none" \notin ComPlaces /\ "Cancel" \notin ComPlaces
  BY DEF ComPlaces, ComAttach
<1>2. PICK d \in Nat : AtTop(t, d, "ComAttach", Proxy) /\ Context("ComAttach")
  BY <1>1, ComTop DEF OpInv
<1>3. /\ F(t, d + 1) = NoFrame /\ F(t, d).at = "ComAttach" /\ F(t, d).op = Proxy /\ d = Len(stack[t])
      /\ F(t, d).at \notin OwnPlaces
  BY <1>2 DEF AtTop, OwnPlaces
<1>4. /\ fresh' = fresh /\ UNCHANGED <<word, error_, tree, handedOver, history, asserts>>
      /\ UNCHANGED <<skipCompleteOnCancel_, state_, callback_, result_, invoked, answer>>
      /\ child_' = ~late
  BY <1>0 DEF ComAttach, others
<1>5. UNCHANGED <<lifecycle, cancelRequested, error_, refused>>
  BY <1>4 DEF word, history
<1>6. PICK f \in Frames : /\ Moves(t, d, f, NoFrame) /\ f.at \notin ComPlaces /\ Foreign(f)
                          /\ late => f.at = "Cancel" /\ f.op = Proxy
  <2>1. CASE late
    <3> DEFINE f == [Frame("Cancel", Proxy) EXCEPT !.force = TRUE]
    <3>1. "Cancel" \in Places /\ Proxy \in Op
      BY InnerFacts DEF Places
    <3>2. f \in Frames /\ f.at = "Cancel" /\ f.op = Proxy /\ f.kids = {}
      BY <3>1 DEF Frame, Frames, Error
    <3> HIDE DEF f
    <3>3. Goto(t, f)
      BY <1>0, <2>1 DEF ComAttach, f
    <3>4. Moves(t, d, f, NoFrame)
      BY <1>2, <3>2, <3>3, GotoMoves DEF OpInv
    <3> QED
      BY <1>1, <3>2, <3>4, InnerFacts DEF Foreign
  <2>2. CASE ~late
    <3>1. Return(t)
      BY <1>0, <2>2 DEF ComAttach
    <3>2. Moves(t, d, NoFrame, NoFrame)
      BY <1>2, <3>1, ReturnMoves DEF OpInv
    <3> QED
      BY <1>1, <2>2, <3>2, NoForeign, NoFrameFacts
  <2> QED
    BY <2>1, <2>2
<1>7. NoFrame.at = "none" /\ Foreign(NoFrame)
  BY NoForeign, NoFrameFacts
<1>8. OpInv' /\ ResultInv'
  BY <1>1, <1>2, <1>4, <1>6, <1>7, ComStepKeeps
<1>9. ~Context("ComAttach")' /\ ~Context("ComStart")' /\ ~Context("ComStart") /\ Unique({"ComStart", "ComAttach"})'
  <2>1. f.at \notin {"ComStart", "ComAttach"} /\ NoFrame.at \notin {"ComStart", "ComAttach"}
    BY <1>6, <1>7 DEF ComPlaces
  <2>2. \A x \in {"ComStart", "ComAttach"} : ~One(x, Proxy)'
    <3>1. Unique({"ComStart", "ComAttach"})
      BY DEF AttachInv
    <3> DEFINE places == {"ComStart", "ComAttach"}
    <3>2. /\ F(t, d).at \in places /\ F(t, d).op = Proxy /\ "none" \notin places /\ Unique(places)
          /\ f.at \notin places /\ NoFrame.at \notin places /\ Moves(t, d, f, NoFrame)
      BY <1>3, <1>6, <2>1, <3>1
    <3> HIDE DEF ContextInv, places
    <3>3. \A x \in places : ~One(x, Proxy)'
      BY <3>2, UniqueGone
    <3> QED
      BY <3>3 DEF places
  <2>3. Unique({"ComStart", "ComAttach"})'
    BY <1>3, <1>6, <2>1, UniqueMoves DEF AttachInv
  <2>4. ~Context("ComStart")
    BY <1>2, UniquePlace DEF AttachInv, Context
  <2> QED
    BY <2>2, <2>3, <2>4 DEF Context
<1>10. ~Young(Inner)
  <2>1. SUFFICES ASSUME NEW u \in Thread, NEW k \in Nat, On(u, k, "ComAttach", Proxy), Beginning(u, k + 1)
                 PROVE  FALSE
    BY <1>2 DEF AttachInv
  <2>2. u = t /\ k = d
    BY <1>3, <2>1 DEF AttachInv, Unique, On
  <2> QED
    BY <1>3, <1>7, <2>1, <2>2 DEF Beginning, On
<1>11. /\ Reached => Reached'
       /\ ~Young(Inner)'
       /\ CompletingOrCompleted(Inner) => CompletingOrCompleted(Inner)'
  BY <1>3, <1>5, <1>6, <1>7, <1>10, ForeignEffects
<1>12. \A x \in ComPlaces : x # "ComAttach" => (Context(x)' <=> Context(x))
  BY <1>1, <1>3, <1>6, <1>7, ContextMoves DEF On
<1>13. ComTypeInv'
  <2>1. child_' \in BOOLEAN
    BY <1>4
  <2> QED
    BY <1>1, <1>4, <1>6, <1>7, <2>1, ComTypesMove DEF ComTypeInv, Foreign
<1>14. AttachInv'
  <2>1. ~Unbegun'
    BY <1>2, <1>4 DEF AttachInv, Unbegun
  <2> QED
    BY <1>4, <1>5, <1>9, <1>11, <2>1 DEF AttachInv
<1>15. ReachInv'
  <2>1. /\ Context("ComTryComplete")' <=> Context("ComTryComplete")
        /\ Context("ComCancelChild")' <=> Context("ComCancelChild")
        /\ Context("ComCancelSelf")' <=> Context("ComCancelSelf")
    BY <1>12 DEF ComPlaces
  <2>2. (Passed' <=> Passed) /\ (ComCompletingOrCompleted' <=> ComCompletingOrCompleted)
    BY <1>4, <2>1 DEF Passed, ComCompletingOrCompleted
  <2>3. late => Reached'
    <3>1. SUFFICES ASSUME late PROVE One("Cancel", Proxy)'
      BY DEF Reached
    <3>2. F(t, d)' = f
      BY <1>6 DEF Moves
    <3> QED
      BY <1>6, <3>1, <3>2 DEF One, On
  <2>4. ~late => child_' /\ ~Passed'
    BY <1>0, <1>4, <2>2 DEF Passed
  <2>5. Unique({"ComCancelChild", "ComCancelSelf"})'
    BY <1>6, <1>7, UniqueMoves DEF ReachInv, ComPlaces
  <2>6. Context("ComCancelChild")' \/ Context("ComCancelSelf")' => state_'.cancelRequested
    BY <1>4, <2>1 DEF ReachInv
  <2>7. ~child_' => Reached'
    BY <1>4, <2>3
  <2> QED
    BY <1>11, <2>1, <2>2, <2>3, <2>4, <2>5, <2>6, <2>7, ReachStays
<1>16. InvokeInv'
  <2>1. state_.lifecycle \in Over => ~child_'
    BY <1>0, <1>4 DEF Over, ComCompletingOrCompleted
  <2> QED
    BY <1>3, <1>4, <1>6, <1>7, <2>1, InvokeStays DEF ComPlaces
<1>17. AnswerInv'
  <2>1. \A err : ComClaims(err)' => ComClaims(err)
    BY <1>6, <1>7, ComClaimsMove DEF ComPlaces
  <2> QED
    BY <1>4, <1>5, <2>1, AnswerStays
<1> QED
  BY <1>8, <1>13, <1>14, <1>15, <1>16, <1>17

LEMMA OnFinishKeeps ==
    ASSUME OpInv, ResultInv, ContextInv, NEW t \in Thread, OnFinish(t)
    PROVE  OpInv' /\ ResultInv' /\ ContextInv'
<1> USE DEF ContextInv
<1>1. PICK d \in Nat, op \in Op : AtTop(t, d, "Finish", op) /\ One("Finish", op)
  BY TopFacts DEF OnFinish, OpInv
<1>2. op = Inner /\ lifecycle[Inner] = "Completed" /\ error_[Inner] \in Error
  BY <1>1, InnerFacts DEF OnFinish, AtTop, OpInv, EndInv, TypeInv
<1>3. /\ lifecycle' = [lifecycle EXCEPT ![Inner] = "Ended"]
      /\ UNCHANGED <<observed, cancelRequested, error_, children_, childLock_, handedOver, fresh,
                     onStarted, refused, asserts>>
      /\ UNCHANGED <<skipCompleteOnCancel_, state_, callback_, result_, child_, invoked, answer>>
  BY <1>1, <1>2 DEF OnFinish, AtTop, Transition, tree, history, com
<1>4. /\ lifecycle' \in [Op -> Phase] /\ lifecycle'[Inner] = "Ended"
      /\ \A o \in Op : o # Inner => lifecycle'[o] = lifecycle[o]
  BY <1>3, InnerFacts DEF OpInv, TypeInv, Phase
<1>5. "ComTryComplete" \in ComPlaces
  BY DEF ComPlaces
<1>6. PICK f \in Frames : /\ f = [Frame("ComTryComplete", Proxy) EXCEPT !.err = error_[Inner]]
                          /\ f.at = "ComTryComplete" /\ f.op = Proxy /\ f.err = error_[Inner] /\ Foreign(f)
  BY <1>2, <1>5, ComErrorFrame
<1>7. Moves(t, d, f, NoFrame)
  <2>1. Goto(t, f)
    BY <1>1, <1>2, <1>6 DEF OnFinish, AtTop
  <2> QED
    BY <1>1, <2>1, GotoMoves DEF OpInv
<1>8. /\ F(t, d + 1) = NoFrame /\ F(t, d).at = "Finish" /\ d = Len(stack[t]) /\ NoFrame.at = "none"
      /\ f.at = "ComTryComplete" /\ f.op = Proxy /\ f.err = error_[Inner] /\ f.kids = {}
  BY <1>1, <1>6, NoFrameFacts DEF AtTop, Foreign
<1>9. OpInv'
  <2>1. f.kids = {} /\ f.at \notin OwnPlaces /\ f.at \notin {"Begin", "TryComplete"} /\ Proxy \in Op
    BY <1>6, InnerFacts DEF Foreign, OwnPlaces
  <2> QED
    BY <1>1, <1>2, <1>3, <1>4, <1>7, <2>1, EndKeeps
<1>10. ResultInv'
  <2>1. \A o, e : Claims(o, e)' => Claims(o, e)
    BY <1>7, <1>8, ClaimsMove DEF Claiming
  <2>2. \A o \in Op : /\ lifecycle[o] = "Ended" => lifecycle'[o] = "Ended"
                      /\ lifecycle'[o] \in Over => lifecycle[o] \in Over
    BY <1>2, <1>4 DEF Over
  <2> QED
    BY <1>3, <2>1, <2>2, ResultStays
<1>11. ~Young(Inner)' /\ ~Unbegun
  <2>1. (One("Attach", Inner)' => One("Attach", Inner)) /\ (One("AttachPush", Inner)' => One("AttachPush", Inner))
    BY <1>7, <1>8, OneMoves
  <2>2. ~Attaching(Inner)
    BY <1>2, InnerFacts DEF OpInv, StartInv
  <2> QED
    BY <1>2, <1>4, <2>1, <2>2 DEF Young, Attaching, AttachInv, Fresh
<1>12. One("Cancel", Proxy)' => One("Cancel", Proxy)
  BY <1>7, <1>8, OneMoves
<1>13. \A x \in ComPlaces : x # "ComTryComplete" => (Context(x)' <=> Context(x))
  <2>1. "Finish" \notin ComPlaces /\ "none" \notin ComPlaces
    BY DEF ComPlaces
  <2> QED
    BY <1>7, <1>8, <2>1, ContextMoves DEF On
<1>14. ComTypeInv'
  BY <1>3, <1>7, <1>8, ComTypesMove DEF ComTypeInv, ComPlaces, Foreign
<1>15. AttachInv'
  BY <1>3, <1>7, <1>8, <1>11, <1>12, AttachStays DEF AttachInv, Unbegun
<1>16. ReachInv'
  <2>1. /\ Context("ComCancelChild")' <=> Context("ComCancelChild")
        /\ Context("ComCancelSelf")' <=> Context("ComCancelSelf")
    BY <1>13 DEF ComPlaces
  <2>2. CompletingOrCompleted(Inner)' /\ Reached' /\ (Passed' <=> Passed)
    BY <1>3, <1>4, <2>1 DEF CompletingOrCompleted, Reached, Passed
  <2>3. Unique({"ComCancelChild", "ComCancelSelf"})'
    BY <1>7, <1>8, UniqueMoves DEF ReachInv
  <2>4. Context("ComCancelChild")' \/ Context("ComCancelSelf")' => state_'.cancelRequested
    BY <1>3, <2>1 DEF ReachInv
  <2> QED
    BY <2>2, <2>3, <2>4, ReachStays
<1>17. InvokeInv'
  BY <1>3, <1>7, <1>8, InvokeStays
<1>18. AnswerInv'
  <2>1. \A err : ComClaims(err)' => ComClaims(err) \/ err = error_[Inner]
    BY <1>7, <1>8, ComClaimsMove
  <2>2. ComJustified(error_[Inner])'
    BY <1>3, <1>4 DEF ComJustified
  <2>3. \A err \in Error : ComClaims(err)' => ComClaims(err) \/ ComJustified(err)'
    BY <1>3, <1>4, <2>1 DEF ComJustified
  <2> QED
    BY <1>2, <1>3, <2>3, AnswerStays
<1> QED
  BY <1>9, <1>10, <1>14, <1>15, <1>16, <1>17, <1>18

LEMMA ComTryCompleteKeeps ==
    ASSUME OpInv, ResultInv, ContextInv, NEW t \in Thread, ComTryComplete(t)
    PROVE  OpInv' /\ ResultInv' /\ ContextInv'
<1> USE DEF ContextInv
<1>1. "ComTryComplete" \in ComPlaces /\ "ComFinishComplete" \in ComPlaces /\ At(t, "ComTryComplete")
  BY DEF ComPlaces, ComTryComplete
<1>2. PICK d \in Nat : AtTop(t, d, "ComTryComplete", Proxy) /\ Context("ComTryComplete")
  BY <1>1, ComTop DEF OpInv
<1>3. /\ F(t, d + 1) = NoFrame /\ F(t, d).at = "ComTryComplete" /\ F(t, d).op = Proxy
      /\ d = Len(stack[t]) /\ F(t, d) = Top(t) /\ Top(t) \in Frames
      /\ F(t, d).at \notin OwnPlaces /\ NoFrame.at = "none" /\ Foreign(NoFrame)
  BY <1>2, NoFrameFacts, NoForeign DEF AtTop, OwnPlaces
<1>4. /\ fresh' = fresh /\ UNCHANGED <<word, error_, tree, handedOver, history, asserts>>
      /\ UNCHANGED <<skipCompleteOnCancel_, callback_, result_, child_, invoked, answer>>
  BY DEF ComTryComplete, others
<1>5. UNCHANGED <<lifecycle, cancelRequested, error_, refused>>
  BY <1>4 DEF word, history
<1>6. PICK f \in Frames :
        /\ Moves(t, d, f, NoFrame) /\ Foreign(f) /\ f.at \in {"none", "ComFinishComplete"}
        /\ f.at = "none" => state_' = state_ /\ state_.lifecycle # "Started"
        /\ f.at = "ComFinishComplete" =>
              /\ f.op = Proxy /\ f.err = F(t, d).err
              /\ state_.lifecycle = "Started" /\ state_' = [state_ EXCEPT !.lifecycle = "Completing"]
  <2>1. CASE state_.lifecycle = "Started"
    <3> DEFINE f == [Top(t) EXCEPT !.at = "ComFinishComplete"]
    <3>1. /\ f \in Frames /\ f.at = "ComFinishComplete" /\ f.op = Proxy /\ f.err = F(t, d).err
          /\ f.kids = {}
      <4>1. "ComFinishComplete" \in Places /\ Top(t).kids = {}
        BY <1>1, <1>3 DEF Places, ComTypeInv
      <4> QED
        BY <1>3, <4>1 DEF Frames
    <3> HIDE DEF f
    <3>2. Goto(t, f) /\ state_' = [state_ EXCEPT !.lifecycle = "Completing"]
      BY <2>1 DEF ComTryComplete, f
    <3>3. Moves(t, d, f, NoFrame)
      BY <1>2, <3>1, <3>2, GotoMoves DEF OpInv
    <3> QED
      BY <2>1, <3>1, <3>2, <3>3 DEF Foreign, OwnPlaces
  <2>2. CASE state_.lifecycle # "Started"
    <3>1. Return(t) /\ state_' = state_
      BY <2>2 DEF ComTryComplete
    <3>2. Moves(t, d, NoFrame, NoFrame)
      BY <1>2, <3>1, ReturnMoves DEF OpInv
    <3> QED
      BY <1>3, <2>2, <3>1, <3>2, NoFrameFacts
  <2> QED
    BY <2>1, <2>2
<1>7. /\ f.at \in ComPlaces => f.op = Proxy /\ f.kids = {}
      /\ state_'.cancelRequested = state_.cancelRequested
      /\ state_' \in [lifecycle : Phase, observed : BOOLEAN, cancelRequested : BOOLEAN]
      /\ state_'.lifecycle = IF f.at = "none" THEN state_.lifecycle ELSE "Completing"
  <2>1. "Completing" \in Phase /\ "none" \notin ComPlaces
    BY DEF Phase, ComPlaces
  <2> QED
    BY <1>6, <2>1 DEF ComTypeInv, Foreign
<1>8. OpInv' /\ ResultInv'
  BY <1>1, <1>2, <1>3, <1>4, <1>6, ComStepKeeps
<1>9. /\ One("Cancel", Proxy)' => One("Cancel", Proxy)
      /\ Reached => Reached'
      /\ CompletingOrCompleted(Inner) => CompletingOrCompleted(Inner)'
      /\ Fresh(Inner)' <=> Fresh(Inner)
      /\ Young(Inner)' =>
            \/ Unbegun
            \/ \E u \in Thread, k \in Nat : On(u, k, "ComAttach", Proxy)' /\ Beginning(u, k + 1)'
  BY <1>3, <1>5, <1>6, ForeignEffects
<1>10. \A x \in ComPlaces : x \notin {"ComTryComplete", "ComFinishComplete"} => (Context(x)' <=> Context(x))
  <2>1. "none" \notin ComPlaces
    BY DEF ComPlaces
  <2> QED
    BY <1>3, <1>6, <2>1, ContextMoves DEF On
<1>11. ComTypeInv'
  BY <1>3, <1>4, <1>6, <1>7, ComTypesMove DEF ComTypeInv, ComPlaces
<1>12. AttachInv'
  <2>1. (Unbegun' <=> Unbegun) /\ (Unbegun => Fresh(Inner)')
    BY <1>6, <1>7, <1>9 DEF AttachInv, Unbegun
  <2> QED
    BY <1>3, <1>4, <1>5, <1>6, <1>7, <1>9, <2>1, AttachStays DEF AttachInv
<1>13. ReachInv'
  <2>1. /\ Unbegun' <=> Unbegun
        /\ Context("ComAttach")' <=> Context("ComAttach")
        /\ Context("ComCancelChild")' <=> Context("ComCancelChild")
        /\ Context("ComCancelSelf")' <=> Context("ComCancelSelf")
    BY <1>6, <1>7, <1>10 DEF ComPlaces, Unbegun
  <2>2. Passed' <=> Passed
    BY <1>7, <2>1 DEF Passed
  <2>3. Unique({"ComCancelChild", "ComCancelSelf"})'
    BY <1>3, <1>6, UniqueMoves DEF ReachInv
  <2>4. Context("ComCancelChild")' \/ Context("ComCancelSelf")' => state_'.cancelRequested
    BY <1>7, <2>1 DEF ReachInv
  <2> QED
    BY <1>2, <1>4, <1>9, <2>1, <2>2, <2>3, <2>4, ReachStays
<1>14. InvokeInv'
  <2>1. CASE f.at = "none"
    <3>1. state_' = state_
      BY <1>6, <2>1
    <3> QED
      BY <1>3, <1>4, <1>6, <2>1, <3>1, InvokeStays
  <2>2. CASE f.at = "ComFinishComplete"
    <3>1. state_.lifecycle = "Started" /\ state_'.lifecycle = "Completing"
      BY <1>6, <1>7, <2>2
    <3>2. /\ Context("ComInvoke")' <=> Context("ComInvoke")
          /\ Context("ComCleanup")' <=> Context("ComCleanup")
          /\ Context("ComCleanupChild")' <=> Context("ComCleanupChild")
      BY <1>10 DEF ComPlaces
    <3>3. Unique({"ComInvoke"})' /\ Unique({"ComCleanup"})'
      BY <1>3, <1>6, <2>2, UniqueMoves DEF InvokeInv
    <3>4. Unique({"ComFinishComplete"})'
      <4>1. ~Context("ComFinishComplete")
        BY <3>1 DEF InvokeInv
      <4>2. \A x \in {"ComFinishComplete"} : ~One(x, Proxy)
        BY <4>1 DEF Context
      <4> QED
        BY <1>3, <1>6, <2>2, <4>2, UniqueMoves DEF InvokeInv
    <3>5. \A u \in Thread, k \in Nat : On(u, k + 1, "ComInvoke", Proxy)' =>
             k + 1 = Len(stack'[u]) /\ On(u, k, "ComCleanup", Proxy)'
      BY <1>3, <1>6, <2>2, InvokeFrames
    <3> QED
      BY <1>4, <3>1, <3>2, <3>3, <3>4, <3>5 DEF InvokeInv, Over
  <2> QED
    BY <1>6, <2>1, <2>2
<1>15. AnswerInv'
  <2>1. ComClaims(F(t, d).err)
    BY <1>3 DEF ComClaims, Claimed, On
  <2>2. \A err : ComClaims(err)' => ComClaims(err)
    BY <1>3, <1>6, <2>1, ComClaimsMove
  <2>3. state_'.lifecycle \in Over => state_.lifecycle \in Over
    BY <1>7 DEF Over
  <2> QED
    BY <1>4, <1>5, <1>7, <2>2, <2>3, AnswerStays
<1> QED
  BY <1>8, <1>11, <1>12, <1>13, <1>14, <1>15

LEMMA ComFinishCompleteKeeps ==
    ASSUME OpInv, ResultInv, ContextInv, NEW t \in Thread, ComFinishComplete(t)
    PROVE  OpInv' /\ ResultInv' /\ ContextInv'
<1> USE DEF ContextInv
<1>1. /\ "ComFinishComplete" \in ComPlaces /\ "ComCleanup" \in ComPlaces /\ "ComInvoke" \in ComPlaces
      /\ At(t, "ComFinishComplete")
  BY DEF ComPlaces, ComFinishComplete
<1>2. PICK d \in Nat : AtTop(t, d, "ComFinishComplete", Proxy) /\ Context("ComFinishComplete")
  BY <1>1, ComTop DEF OpInv
<1>3. /\ F(t, d + 1) = NoFrame /\ F(t, d).at = "ComFinishComplete" /\ F(t, d).op = Proxy
      /\ d = Len(stack[t]) /\ F(t, d) = Top(t) /\ Top(t) \in Frames /\ F(t, d).at \notin OwnPlaces
  BY <1>2 DEF AtTop, OwnPlaces
<1>4. state_.lifecycle = "Completing" /\ Top(t).err \in Error
  BY <1>2, <1>3 DEF InvokeInv, Frames
<1>5. /\ fresh' = fresh /\ UNCHANGED <<word, error_, tree, handedOver, history, asserts>>
      /\ UNCHANGED <<skipCompleteOnCancel_, callback_, child_, invoked, answer>>
      /\ state_' = [state_ EXCEPT !.lifecycle = "Completed"] /\ result_' = Top(t).err
  BY <1>4 DEF ComFinishComplete, ComTransition, others
<1>6. UNCHANGED <<lifecycle, cancelRequested, error_, refused>>
  BY <1>5 DEF word, history
<1>7. /\ state_'.cancelRequested = state_.cancelRequested /\ state_'.lifecycle = "Completed"
      /\ state_' \in [lifecycle : Phase, observed : BOOLEAN, cancelRequested : BOOLEAN]
  <2>1. "Completed" \in Phase
    BY DEF Phase
  <2> QED
    BY <1>5, <2>1 DEF ComTypeInv
<1>8. PICK f \in Frames : f = Frame("ComCleanup", Proxy) /\ f.at = "ComCleanup" /\ f.op = Proxy /\ Foreign(f)
  BY <1>1, ComFrame
<1>9. PICK g \in Frames : g = Frame("ComInvoke", Proxy) /\ g.at = "ComInvoke" /\ g.op = Proxy /\ Foreign(g)
  BY <1>1, ComFrame
<1>10. Call(t, f, g)
  BY <1>8, <1>9 DEF ComFinishComplete
<1>11. Moves(t, d, f, g) /\ Len(stack'[t]) = d + 1
  <2>1. stack[t] \in Seq(Frames) /\ stack[t] # <<>> /\ stack \in [Thread -> Seq(Frames)]
    BY <1>2 DEF AtTop, OpInv, TypeInv
  <2>2. stack'[t] = <<g, f>> \o Tail(stack[t])
    BY <1>10, <2>1 DEF Call
  <2>3. Len(stack'[t]) = d + 1
    BY <1>3, <2>1, <2>2
  <2> QED
    BY <1>2, <1>10, <2>3, CallMoves DEF OpInv
<1>12. /\ f.at = "ComCleanup" /\ f.op = Proxy /\ f.kids = {} /\ Foreign(f)
       /\ g.at = "ComInvoke" /\ g.op = Proxy /\ g.kids = {} /\ Foreign(g)
  BY <1>8, <1>9 DEF Foreign
<1>13. OpInv' /\ ResultInv'
  BY <1>1, <1>2, <1>5, <1>11, <1>12, ComStepKeeps
<1>14. /\ One("Cancel", Proxy)' => One("Cancel", Proxy)
       /\ Reached => Reached'
       /\ CompletingOrCompleted(Inner) => CompletingOrCompleted(Inner)'
       /\ Fresh(Inner)' <=> Fresh(Inner)
       /\ Young(Inner)' =>
             \/ Unbegun
             \/ \E u \in Thread, k \in Nat : On(u, k, "ComAttach", Proxy)' /\ Beginning(u, k + 1)'
  BY <1>3, <1>6, <1>11, <1>12, ForeignEffects
<1>15. /\ \A x \in ComPlaces : x \notin {"ComFinishComplete", "ComInvoke", "ComCleanup"} =>
              (Context(x)' <=> Context(x))
       /\ Context("ComInvoke")' /\ Context("ComCleanup")'
  BY <1>1, <1>3, <1>11, <1>12, ContextMoves DEF On
<1>16. ~Context("ComFinishComplete")'
  <2>1. Unique({"ComFinishComplete"}) /\ "none" \notin {"ComFinishComplete"}
    BY DEF InvokeInv
  <2>2. /\ Moves(t, d, f, g) /\ F(t, d).at \in {"ComFinishComplete"} /\ F(t, d).op = Proxy
        /\ f.at \notin {"ComFinishComplete"} /\ g.at \notin {"ComFinishComplete"}
    BY <1>3, <1>11, <1>12
  <2>3. \A x \in {"ComFinishComplete"} : ~One(x, Proxy)'
    BY <2>1, <2>2, UniqueGone
  <2> QED
    BY <2>3 DEF Context
<1>17. ComTypeInv'
  BY <1>4, <1>5, <1>7, <1>11, <1>12, ComTypesMove DEF ComTypeInv
<1>18. AttachInv'
  <2>1. ~Unbegun /\ ~Unbegun'
    BY <1>4, <1>7 DEF Unbegun
  <2> QED
    BY <1>3, <1>5, <1>6, <1>7, <1>11, <1>12, <1>14, <2>1, AttachStays DEF AttachInv
<1>19. ReachInv'
  <2>1. /\ Unbegun' <=> Unbegun
        /\ Context("ComAttach")' <=> Context("ComAttach")
        /\ Context("ComTryComplete")' <=> Context("ComTryComplete")
        /\ Context("ComCancelChild")' <=> Context("ComCancelChild")
        /\ Context("ComCancelSelf")' <=> Context("ComCancelSelf")
    BY <1>4, <1>7, <1>15 DEF ComPlaces, Unbegun
  <2>2. (Passed' <=> Passed) /\ ComCompletingOrCompleted
    BY <1>4, <1>7, <2>1 DEF Passed, ComCompletingOrCompleted
  <2>3. Unique({"ComCancelChild", "ComCancelSelf"})'
    BY <1>3, <1>11, <1>12, UniqueMoves DEF ReachInv
  <2>4. Context("ComCancelChild")' \/ Context("ComCancelSelf")' => state_'.cancelRequested
    BY <1>7, <2>1 DEF ReachInv
  <2> QED
    BY <1>5, <1>14, <2>1, <2>2, <2>3, <2>4, ReachStays
<1>20. InvokeInv'
  <2>1. ~Context("ComInvoke") /\ ~Context("ComCleanup") /\ invoked = 0 /\ callback_ /\ answer = "none"
    BY <1>4 DEF InvokeInv, Over
  <2>2. Unique({"ComFinishComplete"})'
    BY <1>3, <1>11, <1>12, UniqueMoves DEF InvokeInv
  <2>3. Unique({"ComInvoke"})' /\ Unique({"ComCleanup"})'
    <3>1. (\A x \in {"ComInvoke"} : ~One(x, Proxy)) /\ (\A x \in {"ComCleanup"} : ~One(x, Proxy))
      BY <2>1 DEF Context
    <3>2. Unique({"ComInvoke"})'
      BY <1>3, <1>11, <1>12, <3>1, UniqueMoves DEF InvokeInv
    <3>3. Unique({"ComCleanup"})'
      BY <1>3, <1>11, <1>12, <3>1, UniqueMoves DEF InvokeInv
    <3> QED
      BY <3>2, <3>3
  <2>4. ASSUME NEW u \in Thread, NEW k \in Nat, On(u, k + 1, "ComInvoke", Proxy)'
        PROVE  k + 1 = Len(stack'[u]) /\ On(u, k, "ComCleanup", Proxy)'
    <3>1. k + 1 \in Nat /\ ~On(u, k + 1, "ComInvoke", Proxy)
      BY <2>1 DEF Context, One
    <3>2. u = t /\ k + 1 = d + 1 /\ k = d
      BY <1>11, <1>12, <2>4, <3>1 DEF On, Moves
    <3>3. F(t, d)' = f
      BY <1>11 DEF Moves
    <3> QED
      BY <1>11, <1>12, <3>2, <3>3 DEF On
  <2> QED
    BY <1>5, <1>7, <1>15, <1>16, <2>1, <2>2, <2>3, <2>4 DEF InvokeInv, Over
<1>21. AnswerInv'
  <2>1. ComClaims(F(t, d).err)
    BY <1>3 DEF ComClaims, Claimed, On
  <2>2. \A err : ComClaims(err)' => ComClaims(err)
    BY <1>11, <1>12, ComClaimsMove
  <2>3. ComJustified(Top(t).err)
    BY <1>3, <1>4, <2>1 DEF AnswerInv
  <2>4. ComJustified(result_)'
    BY <1>5, <1>6, <1>7, <2>3 DEF ComJustified
  <2> QED
    BY <1>6, <1>7, <2>2, <2>4, AnswerStays
<1> QED
  BY <1>13, <1>17, <1>18, <1>19, <1>20, <1>21

\* Steps that leave state_ and the result alone.
LEMMA ComQuietKeeps ==
    ASSUME OpInv, ResultInv, ContextInv, NEW t \in Thread, NEW d \in Nat,
           NEW at \in ComPlaces \ {"ComStart", "ComAttach", "ComCancelChild"}, AtTop(t, d, at, Proxy),
           NEW f, Moves(t, d, f, NoFrame), Foreign(f),
           f.at \in {"none", "ComCleanupChild"}, f.at = "ComCleanupChild" => f.op = Proxy,
           fresh' = fresh, UNCHANGED <<word, error_, tree, handedOver, history, asserts>>,
           UNCHANGED <<skipCompleteOnCancel_, state_, result_, answer>>,
           callback_' \in BOOLEAN, child_' \in BOOLEAN, invoked' \in Nat, child_' => child_,
           ~child_' => ~child_ \/ Passed \/ CompletingOrCompleted(Inner)
    PROVE  OpInv' /\ ResultInv' /\ ComTypeInv' /\ AttachInv' /\ ReachInv' /\ AnswerInv'
<1> USE DEF ContextInv
<1>1. /\ F(t, d + 1) = NoFrame /\ F(t, d).at = at /\ F(t, d).at \notin OwnPlaces
      /\ NoFrame.at = "none" /\ Foreign(NoFrame)
  BY NoFrameFacts, NoForeign DEF AtTop, OwnPlaces, ComPlaces
<1>2. UNCHANGED <<lifecycle, cancelRequested, error_, refused>>
  BY DEF word, history
<1>3. OpInv' /\ ResultInv'
  BY <1>1, ComStepKeeps
<1>4. /\ One("Cancel", Proxy)' => One("Cancel", Proxy)
      /\ Reached => Reached'
      /\ CompletingOrCompleted(Inner) => CompletingOrCompleted(Inner)'
      /\ Fresh(Inner)' <=> Fresh(Inner)
      /\ Young(Inner)' =>
            \/ Unbegun
            \/ \E u \in Thread, k \in Nat : On(u, k, "ComAttach", Proxy)' /\ Beginning(u, k + 1)'
  BY <1>1, <1>2, ForeignEffects
<1>5. /\ Unbegun' <=> Unbegun
      /\ Context("ComAttach")' <=> Context("ComAttach")
      /\ Context("ComCancelChild")' <=> Context("ComCancelChild")
      /\ Context("ComCancelSelf")' => Context("ComCancelSelf")
      /\ Context("ComTryComplete")' => Context("ComTryComplete")
  BY <1>1, ContextMoves DEF On, ComPlaces, Unbegun
<1>6. ComTypeInv'
  BY <1>1, ComTypesMove DEF ComTypeInv, ComPlaces, Foreign
<1>7. AttachInv'
  BY <1>1, <1>2, <1>4, <1>5, AttachStays DEF AttachInv
<1>8. ReachInv'
  <2>1. (Passed' <=> Passed) /\ (ComCompletingOrCompleted' <=> ComCompletingOrCompleted)
    BY <1>5 DEF Passed, ComCompletingOrCompleted
  <2>2. Unique({"ComCancelChild", "ComCancelSelf"})'
    BY <1>1, UniqueMoves DEF ReachInv
  <2>3. Context("ComCancelChild")' \/ Context("ComCancelSelf")' => state_'.cancelRequested
    BY <1>5 DEF ReachInv
  <2>4. CompletingOrCompleted(Inner) => Reached'
    BY <1>4 DEF Reached
  <2> QED
    BY <1>4, <1>5, <2>1, <2>2, <2>3, <2>4, ReachStays
<1>9. AnswerInv'
  <2>1. \A err : ComClaims(err)' => ComClaims(err)
    BY <1>1, ComClaimsMove
  <2> QED
    BY <1>2, <2>1, AnswerStays
<1> QED
  BY <1>3, <1>6, <1>7, <1>8, <1>9

LEMMA ComInvokeKeeps ==
    ASSUME OpInv, ResultInv, ContextInv, NEW t \in Thread, ComInvoke(t)
    PROVE  OpInv' /\ ResultInv' /\ ContextInv'
<1> USE DEF ContextInv
<1>1. "ComInvoke" \in ComPlaces \ {"ComStart", "ComAttach", "ComCancelChild"} /\ At(t, "ComInvoke")
  BY DEF ComPlaces, ComInvoke
<1>2. PICK d \in Nat : AtTop(t, d, "ComInvoke", Proxy) /\ Context("ComInvoke")
  BY <1>1, ComTop DEF OpInv
<1>3. /\ F(t, d + 1) = NoFrame /\ F(t, d).at = "ComInvoke" /\ F(t, d).op = Proxy
      /\ NoFrame.at = "none" /\ Foreign(NoFrame)
  BY <1>2, NoFrameFacts, NoForeign DEF AtTop
<1>4. state_.lifecycle \in Over /\ callback_ /\ invoked = 0
  BY <1>2 DEF InvokeInv
<1>5. /\ fresh' = fresh /\ UNCHANGED <<word, error_, tree, handedOver, history, asserts>>
      /\ UNCHANGED <<skipCompleteOnCancel_, state_, callback_, result_, child_, answer>>
      /\ invoked' = 1
  BY <1>4 DEF ComInvoke, others
<1>6. Moves(t, d, NoFrame, NoFrame)
  BY <1>2, ReturnMoves DEF ComInvoke, OpInv
<1>7. callback_' \in BOOLEAN /\ child_' \in BOOLEAN /\ invoked' \in Nat
  BY <1>5 DEF ComTypeInv
<1>8. OpInv' /\ ResultInv' /\ ComTypeInv' /\ AttachInv' /\ ReachInv' /\ AnswerInv'
  BY <1>1, <1>2, <1>3, <1>5, <1>6, <1>7, ComQuietKeeps
<1>9. ~Context("ComInvoke")'
  <2>1. Unique({"ComInvoke"}) /\ "none" \notin {"ComInvoke"} /\ F(t, d).at \in {"ComInvoke"}
    BY <1>3 DEF InvokeInv
  <2>2. \A x \in {"ComInvoke"} : ~One(x, Proxy)'
    BY <1>3, <1>6, <2>1, UniqueGone
  <2> QED
    BY <2>2 DEF Context
<1>10. /\ Context("ComFinishComplete")' <=> Context("ComFinishComplete")
       /\ Context("ComCleanup")' <=> Context("ComCleanup")
       /\ Context("ComCleanupChild")' <=> Context("ComCleanupChild")
  BY <1>3, <1>6, ContextMoves DEF On, ComPlaces
<1>11. InvokeInv'
  <2>1. Unique({"ComFinishComplete"})' /\ Unique({"ComInvoke"})' /\ Unique({"ComCleanup"})'
    BY <1>3, <1>6, UniqueMoves DEF InvokeInv
  <2>2. ASSUME NEW u \in Thread, NEW k \in Nat, On(u, k + 1, "ComInvoke", Proxy)' PROVE FALSE
    <3>1. k + 1 \in Nat
      OBVIOUS
    <3> QED
      BY <1>9, <2>2, <3>1 DEF Context, One
  <2> QED
    BY <1>4, <1>5, <1>9, <1>10, <2>1, <2>2 DEF InvokeInv
<1> QED
  BY <1>8, <1>11

LEMMA ComCleanupKeeps ==
    ASSUME OpInv, ResultInv, ContextInv, NEW t \in Thread, ComCleanup(t)
    PROVE  OpInv' /\ ResultInv' /\ ContextInv'
<1> USE DEF ContextInv
<1>1. /\ "ComCleanup" \in ComPlaces \ {"ComStart", "ComAttach", "ComCancelChild"}
      /\ "ComCleanupChild" \in ComPlaces /\ At(t, "ComCleanup")
  BY DEF ComPlaces, ComCleanup
<1>2. PICK d \in Nat : AtTop(t, d, "ComCleanup", Proxy) /\ Context("ComCleanup")
  BY <1>1, ComTop DEF OpInv
<1>3. /\ F(t, d + 1) = NoFrame /\ F(t, d).at = "ComCleanup" /\ F(t, d).op = Proxy
      /\ d = Len(stack[t]) /\ NoFrame.at = "none" /\ Foreign(NoFrame)
  BY <1>2, NoFrameFacts, NoForeign DEF AtTop
<1>4. /\ fresh' = fresh /\ UNCHANGED <<word, error_, tree, handedOver, history, asserts>>
      /\ UNCHANGED <<skipCompleteOnCancel_, state_, result_, child_, invoked, answer>>
      /\ callback_' = FALSE
  BY DEF ComCleanup, others
<1>5. PICK f \in Frames : /\ f = Frame("ComCleanupChild", Proxy) /\ f.at = "ComCleanupChild"
                          /\ f.op = Proxy /\ Foreign(f)
  BY <1>1, ComFrame
<1>6. Moves(t, d, f, NoFrame)
  BY <1>2, <1>5, GotoMoves DEF ComCleanup, OpInv
<1>7. f.at = "ComCleanupChild" /\ f.op = Proxy /\ Foreign(f)
  BY <1>5
<1>8. callback_' \in BOOLEAN /\ child_' \in BOOLEAN /\ invoked' \in Nat
  BY <1>4 DEF ComTypeInv
<1>9. OpInv' /\ ResultInv' /\ ComTypeInv' /\ AttachInv' /\ ReachInv' /\ AnswerInv'
  BY <1>1, <1>2, <1>4, <1>6, <1>7, <1>8, ComQuietKeeps
\* The callback has been called: its frame was on top of this one.
<1>10. ~Context("ComInvoke") /\ state_.lifecycle \in Over
  <2>1. SUFFICES ASSUME NEW u \in Thread, NEW k \in Nat, On(u, k, "ComInvoke", Proxy) PROVE FALSE
    BY <1>2 DEF Context, One, InvokeInv
  <2>2. k # 0
    BY <1>3, <2>1 DEF On, F
  <2>3. PICK j \in Nat : k = j + 1
    <3>1. k - 1 \in Nat /\ k = (k - 1) + 1
      BY <2>2
    <3> QED
      BY <3>1
  <2>4. On(u, j, "ComCleanup", Proxy)
    BY <2>1, <2>3 DEF InvokeInv
  <2>5. u = t /\ j = d
    BY <1>3, <2>4 DEF InvokeInv, Unique, On
  <2> QED
    BY <1>3, <2>1, <2>3, <2>5 DEF On
<1>11. /\ Context("ComFinishComplete")' <=> Context("ComFinishComplete")
       /\ Context("ComInvoke")' <=> Context("ComInvoke")
       /\ Context("ComCleanupChild")'
  BY <1>3, <1>6, <1>7, ContextMoves DEF On, ComPlaces
<1>12. ~Context("ComCleanup")'
  <2>1. /\ Unique({"ComCleanup"}) /\ "none" \notin {"ComCleanup"} /\ F(t, d).at \in {"ComCleanup"}
        /\ F(t, d).op = Proxy /\ f.at \notin {"ComCleanup"} /\ NoFrame.at \notin {"ComCleanup"}
    BY <1>3, <1>7 DEF InvokeInv
  <2>2. \A x \in {"ComCleanup"} : ~One(x, Proxy)'
    BY <1>6, <2>1, UniqueGone
  <2> QED
    BY <2>2 DEF Context
<1>13. InvokeInv'
  <2>1. Unique({"ComFinishComplete"})' /\ Unique({"ComInvoke"})' /\ Unique({"ComCleanup"})'
    BY <1>3, <1>6, <1>7, UniqueMoves DEF InvokeInv
  <2>2. ASSUME NEW u \in Thread, NEW k \in Nat, On(u, k + 1, "ComInvoke", Proxy)' PROVE FALSE
    <3>1. k + 1 \in Nat
      OBVIOUS
    <3> QED
      BY <1>10, <1>11, <2>2, <3>1 DEF Context, One
  <2> QED
    BY <1>4, <1>10, <1>11, <1>12, <2>1, <2>2 DEF InvokeInv
<1> QED
  BY <1>9, <1>13

LEMMA ComCleanupChildKeeps ==
    ASSUME OpInv, ResultInv, ContextInv, NEW t \in Thread, ComCleanupChild(t)
    PROVE  OpInv' /\ ResultInv' /\ ContextInv'
<1> USE DEF ContextInv
<1>1. /\ "ComCleanupChild" \in ComPlaces \ {"ComStart", "ComAttach", "ComCancelChild"}
      /\ At(t, "ComCleanupChild")
  BY DEF ComPlaces, ComCleanupChild
<1>2. PICK d \in Nat : AtTop(t, d, "ComCleanupChild", Proxy) /\ Context("ComCleanupChild")
  BY <1>1, ComTop DEF OpInv
<1>3. /\ F(t, d + 1) = NoFrame /\ F(t, d).at = "ComCleanupChild" /\ F(t, d).op = Proxy
      /\ d = Len(stack[t]) /\ NoFrame.at = "none" /\ Foreign(NoFrame)
  BY <1>2, NoFrameFacts, NoForeign DEF AtTop
<1>4. /\ fresh' = fresh /\ UNCHANGED <<word, error_, tree, handedOver, history, asserts>>
      /\ UNCHANGED <<skipCompleteOnCancel_, state_, callback_, result_, invoked, answer>>
      /\ child_' = FALSE
  BY DEF ComCleanupChild, others
<1>5. Moves(t, d, NoFrame, NoFrame)
  BY <1>2, ReturnMoves DEF ComCleanupChild, OpInv
<1>6. state_.lifecycle \in Over /\ (Passed \/ CompletingOrCompleted(Inner))
  BY <1>2 DEF InvokeInv, ReachInv, Over, ComCompletingOrCompleted
<1>7. callback_' \in BOOLEAN /\ child_' \in BOOLEAN /\ invoked' \in Nat
  BY <1>4 DEF ComTypeInv
<1>8. OpInv' /\ ResultInv' /\ ComTypeInv' /\ AttachInv' /\ ReachInv' /\ AnswerInv'
  BY <1>1, <1>2, <1>3, <1>4, <1>5, <1>6, <1>7, ComQuietKeeps
<1>9. /\ Context("ComFinishComplete")' <=> Context("ComFinishComplete")
      /\ Context("ComInvoke")' <=> Context("ComInvoke")
      /\ Context("ComCleanup")' <=> Context("ComCleanup")
  BY <1>3, <1>5, ContextMoves DEF On, ComPlaces
<1>10. InvokeInv'
  <2>1. Unique({"ComFinishComplete"})' /\ Unique({"ComInvoke"})' /\ Unique({"ComCleanup"})'
    BY <1>3, <1>5, UniqueMoves DEF InvokeInv
  <2>2. \A u \in Thread, k \in Nat : On(u, k + 1, "ComInvoke", Proxy)' =>
           k + 1 = Len(stack'[u]) /\ On(u, k, "ComCleanup", Proxy)'
    BY <1>3, <1>5, InvokeFrames
  <2> QED
    BY <1>4, <1>6, <1>9, <2>1, <2>2 DEF InvokeInv
<1> QED
  BY <1>8, <1>10

LEMMA ComCallCancelKeeps ==
    ASSUME OpInv, ResultInv, ContextInv, NEW t \in Thread, ComCallCancel(t)
    PROVE  OpInv' /\ ResultInv' /\ ContextInv'
<1>1. /\ stack[t] = <<>> /\ fresh' = fresh \ {t} /\ UNCHANGED com
      /\ UNCHANGED <<word, error_, tree, handedOver, history, asserts>>
  BY DEF ComCallCancel, others, OpInv, TypeInv
<1>2. "ComCancel" \in ComPlaces
  BY DEF ComPlaces
<1>3. PICK f \in Frames : f = Frame("ComCancel", Proxy) /\ f.at = "ComCancel" /\ f.op = Proxy /\ Foreign(f)
  BY <1>2, ComFrame
<1>4. /\ F(t, 1) = NoFrame /\ F(t, 1 + 1) = NoFrame /\ Moves(t, 1, f, NoFrame) /\ 1 \in Nat
      /\ F(t, Len(stack[t])) = NoFrame
  <2>1. stack' = [stack EXCEPT ![t] = <<f>>]
    BY <1>3 DEF ComCallCancel
  <2>2. F(t, 1) = NoFrame /\ F(t, 2) = NoFrame /\ Moves(t, 1, f, NoFrame)
    BY <1>1, <2>1, BeginMoves DEF OpInv
  <2>3. 1 \in Nat /\ 1 + 1 = 2 /\ F(t, Len(stack[t])) = NoFrame
    BY <1>1 DEF F
  <2> QED
    BY <2>2, <2>3
<1>5. /\ f.at = "ComCancel" /\ f.op = Proxy /\ f.kids = {} /\ Foreign(f)
      /\ NoFrame.at = "none" /\ Foreign(NoFrame)
      /\ F(t, 1).at = "none" /\ F(t, 1).at \notin OwnPlaces /\ F(t, Len(stack[t])).at = "none"
  BY <1>3, <1>4, NoFrameFacts, NoForeign DEF Foreign, OwnPlaces
<1>6. UNCHANGED <<lifecycle, cancelRequested, error_, refused>>
  BY <1>1 DEF word, history
<1>7. OpInv' /\ ResultInv'
  <2>1. \A u \in fresh' : stack'[u] = <<>>
    BY <1>1, <1>4, TreeFacts DEF OpInv, TypeInv, Moves
  <2>2. asserts' \cap {"TransitionStarted", "TransitionCompleted", "TransitionEnded"} = {}
    BY <1>1 DEF ContextInv, AttachInv
  <2> QED
    BY <1>1, <1>4, <1>5, <2>1, <2>2, ForeignKeeps
<1>8. /\ One("Cancel", Proxy) => One("Cancel", Proxy)'
      /\ One("Cancel", Proxy)' => One("Cancel", Proxy)
      /\ CompletingOrCompleted(Inner) => CompletingOrCompleted(Inner)'
      /\ Fresh(Inner)' <=> Fresh(Inner)
      /\ Young(Inner)' =>
            \/ Unbegun
            \/ \E u \in Thread, k \in Nat : On(u, k, "ComAttach", Proxy)' /\ Beginning(u, k + 1)'
  BY <1>4, <1>5, <1>6, ForeignEffects
<1>9. ContextInv'
  <2>1. /\ F(t, 1).at \notin ComPlaces \ {"ComCancel"} /\ f.at \notin ComPlaces \ {"ComCancel"}
        /\ NoFrame.at \notin ComPlaces /\ F(t, Len(stack[t])).at # "ComInvoke"
    BY <1>5 DEF ComPlaces
  <2>2. Unbegun => Fresh(Inner)'
    BY <1>8 DEF ContextInv, AttachInv
  <2>3. asserts' \subseteq asserts \cup {"attach"} /\ Inner \notin refused'
    BY <1>1, <1>6 DEF ContextInv, AttachInv
  <2>4. ~Unbegun
    BY DEF ComCallCancel, Unbegun
  <2> QED
    BY <1>1, <1>4, <1>5, <1>6, <1>8, <2>1, <2>2, <2>3, <2>4, OperationsKeep
<1> QED
  BY <1>7, <1>9

LEMMA ComCancelKeeps ==
    ASSUME OpInv, ResultInv, ContextInv, NEW t \in Thread, ComCancel(t)
    PROVE  OpInv' /\ ResultInv' /\ ContextInv'
<1> USE DEF ContextInv
<1>1. "ComCancel" \in ComPlaces /\ "ComCancelChild" \in ComPlaces /\ At(t, "ComCancel")
  BY DEF ComPlaces, ComCancel
<1>2. PICK d \in Nat : AtTop(t, d, "ComCancel", Proxy) /\ Context("ComCancel")
  BY <1>1, ComTop DEF OpInv
<1>3. /\ F(t, d + 1) = NoFrame /\ F(t, d).at = "ComCancel" /\ F(t, d).op = Proxy
      /\ d = Len(stack[t]) /\ F(t, d).at \notin OwnPlaces /\ NoFrame.at = "none" /\ Foreign(NoFrame)
  BY <1>2, NoFrameFacts, NoForeign DEF AtTop, OwnPlaces
<1>4. /\ fresh' = fresh /\ UNCHANGED <<word, error_, tree, handedOver, history, asserts>>
      /\ UNCHANGED <<skipCompleteOnCancel_, callback_, result_, child_, invoked, answer>>
  BY DEF ComCancel, others
<1>5. UNCHANGED <<lifecycle, cancelRequested, error_, refused>>
  BY <1>4 DEF word, history
<1>6. PICK f \in Frames :
        /\ Moves(t, d, f, NoFrame) /\ Foreign(f) /\ f.at \in {"none", "ComCancelChild"}
        /\ f.at = "none" => state_' = state_
        /\ f.at = "ComCancelChild" =>
              f.op = Proxy /\ ~state_.cancelRequested /\ state_' = [state_ EXCEPT !.cancelRequested = TRUE]
  <2>1. CASE state_.cancelRequested
    <3>1. Return(t) /\ state_' = state_
      BY <2>1 DEF ComCancel
    <3>2. Moves(t, d, NoFrame, NoFrame)
      BY <1>2, <3>1, ReturnMoves DEF OpInv
    <3> QED
      BY <1>3, <3>1, <3>2, NoFrameFacts
  <2>2. CASE ~state_.cancelRequested
    <3>1. PICK f \in Frames : /\ f = Frame("ComCancelChild", Proxy) /\ f.at = "ComCancelChild"
                              /\ f.op = Proxy /\ Foreign(f)
      BY <1>1, ComFrame
    <3>2. Goto(t, f) /\ state_' = [state_ EXCEPT !.cancelRequested = TRUE]
      BY <2>2, <3>1 DEF ComCancel
    <3>3. Moves(t, d, f, NoFrame)
      BY <1>2, <3>2, GotoMoves DEF OpInv
    <3> QED
      BY <2>2, <3>1, <3>2, <3>3
  <2> QED
    BY <2>1, <2>2
<1>7. OpInv' /\ ResultInv'
  BY <1>1, <1>2, <1>3, <1>4, <1>6, ComStepKeeps
<1>8. /\ One("Cancel", Proxy) => One("Cancel", Proxy)'
      /\ One("Cancel", Proxy)' => One("Cancel", Proxy)
      /\ Reached => Reached'
      /\ CompletingOrCompleted(Inner) => CompletingOrCompleted(Inner)'
      /\ Fresh(Inner)' <=> Fresh(Inner)
      /\ Young(Inner)' =>
            \/ Unbegun
            \/ \E u \in Thread, k \in Nat : On(u, k, "ComAttach", Proxy)' /\ Beginning(u, k + 1)'
  BY <1>3, <1>5, <1>6, ForeignEffects
<1>9. CASE f.at = "none"
  <2>1. /\ F(t, d).at \notin ComPlaces \ {"ComCancel"} /\ f.at \notin ComPlaces
        /\ NoFrame.at \notin ComPlaces /\ F(t, Len(stack[t])).at # "ComInvoke" /\ UNCHANGED com
    BY <1>3, <1>4, <1>6, <1>9 DEF ComPlaces, com
  <2>2. Unbegun => Fresh(Inner)'
    BY <1>8 DEF AttachInv
  <2>3. asserts' \subseteq asserts \cup {"attach"} /\ Inner \notin refused'
    BY <1>4, <1>5 DEF AttachInv
  <2> QED
    BY <1>3, <1>5, <1>6, <1>7, <1>8, <2>1, <2>2, <2>3, OperationsKeep
<1>10. CASE f.at = "ComCancelChild"
  <2>1. /\ f.op = Proxy /\ ~state_.cancelRequested /\ state_'.cancelRequested
        /\ state_'.lifecycle = state_.lifecycle
        /\ state_' \in [lifecycle : Phase, observed : BOOLEAN, cancelRequested : BOOLEAN]
    BY <1>6, <1>10 DEF ComTypeInv
  <2>2. /\ \A x \in ComPlaces : x \notin {"ComCancel", "ComCancelChild"} => (Context(x)' <=> Context(x))
        /\ Context("ComCancelChild")'
    <3>1. "none" \notin ComPlaces
      BY DEF ComPlaces
    <3> QED
      BY <1>1, <1>3, <1>6, <1>10, <2>1, <3>1, ContextMoves DEF On
  <2>3. ComTypeInv'
    BY <1>3, <1>4, <1>6, <1>10, <2>1, ComTypesMove DEF ComTypeInv, ComPlaces, Foreign
  <2>4. AttachInv'
    <3>1. ~Unbegun /\ ~Unbegun'
      BY <1>2, <2>1 DEF AttachInv, Unbegun
    <3> QED
      BY <1>3, <1>4, <1>5, <1>6, <1>8, <1>10, <2>1, <3>1, AttachStays DEF AttachInv
  <2>5. ReachInv'
    <3>1. /\ Unbegun' <=> Unbegun
          /\ Context("ComAttach")' <=> Context("ComAttach")
          /\ Context("ComTryComplete")' <=> Context("ComTryComplete")
      BY <2>1, <2>2 DEF ComPlaces, Unbegun
    <3>2. ~Passed /\ ~Passed' /\ (ComCompletingOrCompleted' <=> ComCompletingOrCompleted)
      BY <2>1, <2>2 DEF Passed, ComCompletingOrCompleted
    <3>3. Unique({"ComCancelChild", "ComCancelSelf"})'
      <4>1. ~Context("ComCancelChild") /\ ~Context("ComCancelSelf")
        BY <2>1 DEF ReachInv
      <4>2. \A x \in {"ComCancelChild", "ComCancelSelf"} : ~One(x, Proxy)
        BY <4>1 DEF Context
      <4> QED
        BY <1>3, <1>6, <1>10, <2>1, <4>2, UniqueMoves DEF ReachInv
    <3> QED
      BY <1>4, <1>8, <2>1, <3>1, <3>2, <3>3, ReachStays
  <2>6. InvokeInv'
    BY <1>3, <1>4, <1>6, <1>10, <2>1, InvokeStays
  <2>7. AnswerInv'
    <3>1. \A err : ComClaims(err)' => ComClaims(err)
      BY <1>3, <1>6, <1>10, ComClaimsMove
    <3> QED
      BY <1>4, <1>5, <2>1, <3>1, AnswerStays
  <2> QED
    BY <1>7, <2>3, <2>4, <2>5, <2>6, <2>7
<1> QED
  BY <1>6, <1>9, <1>10

LEMMA ComCancelChildKeeps ==
    ASSUME OpInv, ResultInv, ContextInv, NEW t \in Thread, ComCancelChild(t)
    PROVE  OpInv' /\ ResultInv' /\ ContextInv'
<1> USE DEF ContextInv
<1>1. "ComCancelChild" \in ComPlaces /\ "ComCancelSelf" \in ComPlaces /\ At(t, "ComCancelChild")
  BY DEF ComPlaces, ComCancelChild
<1>2. PICK d \in Nat : AtTop(t, d, "ComCancelChild", Proxy) /\ Context("ComCancelChild")
  BY <1>1, ComTop DEF OpInv
<1>3. /\ F(t, d + 1) = NoFrame /\ F(t, d).at = "ComCancelChild" /\ F(t, d).op = Proxy
      /\ d = Len(stack[t]) /\ F(t, d).at \notin OwnPlaces /\ NoFrame.at = "none" /\ Foreign(NoFrame)
  BY <1>2, NoFrameFacts, NoForeign DEF AtTop, OwnPlaces
<1>4. /\ fresh' = fresh /\ UNCHANGED <<word, error_, tree, handedOver, history, asserts>>
      /\ UNCHANGED <<skipCompleteOnCancel_, state_, callback_, result_, child_, invoked, answer>>
  BY DEF ComCancelChild, others, com
<1>5. UNCHANGED <<lifecycle, cancelRequested, error_, refused>>
  BY <1>4 DEF word, history
<1>6. PICK f \in Frames : f = Frame("ComCancelSelf", Proxy) /\ f.at = "ComCancelSelf" /\ f.op = Proxy /\ Foreign(f)
  BY <1>1, ComFrame
<1>7. PICK g \in Frames :
        /\ Moves(t, d, f, g) /\ Foreign(g) /\ g.at \in {"none", "Cancel"}
        /\ child_ <=> g.at = "Cancel"
        /\ g.at = "Cancel" => g.op = Proxy
  <2>1. CASE child_
    <3>1. "Cancel" \in OwnPlaces /\ "Cancel" \in Places /\ Proxy \in Op
      BY InnerFacts DEF OwnPlaces, Places
    <3>2. Frame("Cancel", Proxy).kids = {}
      BY <3>1, FrameFacts
    <3>3. PICK g \in Frames : g = Frame("Cancel", Proxy) /\ g.at = "Cancel" /\ g.op = Proxy
      BY <3>1, PlainFrame
    <3>4. Call(t, f, g)
      BY <1>6, <2>1, <3>3 DEF ComCancelChild
    <3>5. Moves(t, d, f, g)
      BY <1>2, <3>4, CallMoves DEF OpInv
    <3>6. Foreign(g)
      BY <3>2, <3>3, InnerFacts DEF Foreign
    <3> QED
      BY <2>1, <3>3, <3>5, <3>6
  <2>2. CASE ~child_
    <3>1. Goto(t, f)
      BY <1>6, <2>2 DEF ComCancelChild
    <3>2. Moves(t, d, f, NoFrame)
      BY <1>2, <3>1, GotoMoves DEF OpInv
    <3> QED
      BY <1>3, <2>2, <3>2, NoFrameFacts
  <2> QED
    BY <2>1, <2>2
<1>8. f.at = "ComCancelSelf" /\ f.op = Proxy /\ f.kids = {} /\ Foreign(f)
  BY <1>6 DEF Foreign
<1>9. OpInv' /\ ResultInv'
  BY <1>1, <1>2, <1>4, <1>7, <1>8, ComStepKeeps
<1>10. /\ One("Cancel", Proxy)' => One("Cancel", Proxy) \/ child_
       /\ Reached => Reached'
       /\ CompletingOrCompleted(Inner) => CompletingOrCompleted(Inner)'
       /\ Fresh(Inner)' <=> Fresh(Inner)
       /\ Young(Inner)' =>
             \/ Unbegun
             \/ \E u \in Thread, k \in Nat : On(u, k, "ComAttach", Proxy)' /\ Beginning(u, k + 1)'
  BY <1>3, <1>5, <1>7, <1>8, ForeignEffects
<1>11. child_ => Reached'
  <2>1. SUFFICES ASSUME g.at = "Cancel", g.op = Proxy PROVE One("Cancel", Proxy)'
    BY <1>7 DEF Reached
  <2> QED
    BY <1>3, <1>7, <2>1, OneMoves
<1>12. /\ \A x \in ComPlaces : x \notin {"ComCancelSelf", "ComCancelChild"} => (Context(x)' <=> Context(x))
       /\ state_.cancelRequested
  <2>1. "none" \notin ComPlaces /\ "Cancel" \notin ComPlaces
    BY DEF ComPlaces
  <2> QED
    BY <1>2, <1>3, <1>7, <1>8, <2>1, ContextMoves DEF On, ReachInv
<1>13. ComTypeInv'
  BY <1>4, <1>7, <1>8, ComTypesMove DEF ComTypeInv, ComPlaces
<1>14. AttachInv'
  BY <1>3, <1>4, <1>5, <1>7, <1>8, <1>10, AttachStays DEF AttachInv, Unbegun
<1>15. ReachInv'
  <2>1. /\ Unbegun' <=> Unbegun
        /\ Context("ComAttach")' <=> Context("ComAttach")
        /\ Context("ComTryComplete")' <=> Context("ComTryComplete")
    BY <1>4, <1>12 DEF ComPlaces, Unbegun
  <2>2. ~Passed /\ (ComCompletingOrCompleted' <=> ComCompletingOrCompleted)
    BY <1>2, <1>4 DEF Passed, ComCompletingOrCompleted
  <2>3. Unique({"ComCancelChild", "ComCancelSelf"})'
    BY <1>3, <1>7, <1>8, UniqueMoves DEF ReachInv
  <2> QED
    BY <1>4, <1>10, <1>11, <1>12, <2>1, <2>2, <2>3, ReachStays
<1>16. InvokeInv'
  BY <1>3, <1>4, <1>7, <1>8, InvokeStays
<1>17. AnswerInv'
  <2>1. \A err : ComClaims(err)' => ComClaims(err)
    BY <1>7, <1>8, ComClaimsMove
  <2> QED
    BY <1>4, <1>5, <2>1, AnswerStays
<1> QED
  BY <1>9, <1>13, <1>14, <1>15, <1>16, <1>17

LEMMA ComCancelSelfKeeps ==
    ASSUME OpInv, ResultInv, ContextInv, NEW t \in Thread, ComCancelSelf(t)
    PROVE  OpInv' /\ ResultInv' /\ ContextInv'
<1> USE DEF ContextInv
<1>1. /\ "ComCancelSelf" \in ComPlaces \ {"ComStart", "ComAttach", "ComCancelChild"}
      /\ "ComCancelSelf" \in ComPlaces /\ "ComTryComplete" \in ComPlaces /\ At(t, "ComCancelSelf")
  BY DEF ComPlaces, ComCancelSelf
<1>2. PICK d \in Nat : AtTop(t, d, "ComCancelSelf", Proxy) /\ Context("ComCancelSelf")
  BY <1>1, ComTop DEF OpInv
<1>3. /\ F(t, d + 1) = NoFrame /\ F(t, d).at = "ComCancelSelf" /\ F(t, d).op = Proxy
      /\ d = Len(stack[t]) /\ F(t, d).at \notin OwnPlaces /\ NoFrame.at = "none" /\ Foreign(NoFrame)
  BY <1>2, NoFrameFacts, NoForeign DEF AtTop, OwnPlaces
<1>4. /\ fresh' = fresh /\ UNCHANGED <<word, error_, tree, handedOver, history, asserts>>
      /\ UNCHANGED <<skipCompleteOnCancel_, state_, callback_, result_, child_, invoked, answer>>
  BY DEF ComCancelSelf, others, com
<1>5. UNCHANGED <<lifecycle, cancelRequested, error_, refused>>
  BY <1>4 DEF word, history
<1>6. Passed /\ state_.cancelRequested
  <2>1. ~Context("ComCancelChild")
    BY <1>2, UniquePlace DEF ReachInv, Context
  <2> QED
    BY <1>2, <2>1 DEF ReachInv, Passed
<1>7. CASE skipCompleteOnCancel_
  <2>1. Moves(t, d, NoFrame, NoFrame)
    BY <1>2, <1>7, ReturnMoves DEF ComCancelSelf, OpInv
  <2>2. callback_' \in BOOLEAN /\ child_' \in BOOLEAN /\ invoked' \in Nat
    BY <1>4 DEF ComTypeInv
  <2>3. OpInv' /\ ResultInv' /\ ComTypeInv' /\ AttachInv' /\ ReachInv' /\ AnswerInv'
    BY <1>1, <1>2, <1>3, <1>4, <1>6, <2>1, <2>2, ComQuietKeeps
  <2>4. InvokeInv'
    BY <1>3, <1>4, <2>1, InvokeStays
  <2> QED
    BY <2>3, <2>4
<1>8. CASE ~skipCompleteOnCancel_
  <2>1. "OperationCanceled" \in Error
    BY DEF Error
  <2>2. PICK f \in Frames :
          /\ f = [Frame("ComTryComplete", Proxy) EXCEPT !.err = "OperationCanceled"]
          /\ f.at = "ComTryComplete" /\ f.op = Proxy /\ f.err = "OperationCanceled" /\ Foreign(f)
    BY <1>1, <2>1, ComErrorFrame
  <2>3. Moves(t, d, f, NoFrame)
    BY <1>2, <1>8, <2>2, GotoMoves DEF ComCancelSelf, OpInv
  <2>4. /\ f.at = "ComTryComplete" /\ f.op = Proxy /\ f.err = "OperationCanceled"
        /\ f.kids = {} /\ Foreign(f)
    BY <2>2 DEF Foreign
  <2>5. OpInv' /\ ResultInv'
    BY <1>1, <1>2, <1>3, <1>4, <2>3, <2>4, ComStepKeeps
  <2>6. /\ One("Cancel", Proxy)' => One("Cancel", Proxy)
        /\ Reached => Reached'
        /\ CompletingOrCompleted(Inner) => CompletingOrCompleted(Inner)'
        /\ Fresh(Inner)' <=> Fresh(Inner)
        /\ Young(Inner)' =>
              \/ Unbegun
              \/ \E u \in Thread, k \in Nat : On(u, k, "ComAttach", Proxy)' /\ Beginning(u, k + 1)'
    BY <1>3, <1>5, <2>3, <2>4, ForeignEffects
  <2>7. \A x \in ComPlaces : x \notin {"ComCancelSelf", "ComTryComplete"} => (Context(x)' <=> Context(x))
    <3>1. "none" \notin ComPlaces
      BY DEF ComPlaces
    <3> QED
      BY <1>3, <2>3, <2>4, <3>1, ContextMoves DEF On
  <2>8. ComTypeInv'
    BY <1>3, <1>4, <2>3, <2>4, ComTypesMove DEF ComTypeInv, ComPlaces
  <2>9. AttachInv'
    BY <1>3, <1>4, <1>5, <2>3, <2>4, <2>6, AttachStays DEF AttachInv, Unbegun
  <2>10. ReachInv'
    <3>1. /\ Unbegun' <=> Unbegun
          /\ Context("ComAttach")' <=> Context("ComAttach")
          /\ Context("ComCancelChild")' <=> Context("ComCancelChild")
      BY <1>4, <2>7 DEF ComPlaces, Unbegun
    <3>2. Passed' /\ state_'.cancelRequested
      BY <1>4, <1>6, <3>1 DEF Passed
    <3>3. Unique({"ComCancelChild", "ComCancelSelf"})'
      BY <1>3, <2>3, <2>4, UniqueMoves DEF ReachInv
    <3> QED
      BY <1>4, <1>6, <2>6, <3>1, <3>2, <3>3, ReachStays
  <2>11. InvokeInv'
    BY <1>3, <1>4, <2>3, <2>4, InvokeStays
  <2>12. AnswerInv'
    <3>1. \A err : ComClaims(err)' => ComClaims(err) \/ err = "OperationCanceled"
      BY <1>3, <2>3, <2>4, ComClaimsMove
    <3>2. ComJustified("OperationCanceled")'
      BY <1>4, <1>6 DEF ComJustified
    <3>3. \A err \in Error : ComClaims(err)' => ComClaims(err) \/ ComJustified(err)'
      BY <1>4, <1>6, <3>1 DEF ComJustified
    <3> QED
      BY <1>4, <1>5, <3>3, AnswerStays
  <2> QED
    BY <2>5, <2>8, <2>9, <2>10, <2>11, <2>12
<1> QED
  BY <1>7, <1>8

\* The client ends the context, or nothing happens any more.
LEMMA ComIdleKeeps ==
    ASSUME OpInv, ResultInv, ContextInv, ClientEnds \/ UNCHANGED comVars
    PROVE  OpInv' /\ ResultInv' /\ ContextInv'
<1> USE DEF ContextInv
<1>1. UNCHANGED <<vars, skipCompleteOnCancel_, callback_, result_, child_, invoked>>
  BY DEF ClientEnds, comVars, com
<1>2. OpInv' /\ ResultInv'
  BY <1>1, StutterKeeps, StutterResults
<1>3. UNCHANGED <<lifecycle, error_, cancelRequested, refused, asserts, stack>>
  BY <1>1 DEF vars, word, history
<1>4. \A t, k : F(t, k)' = F(t, k)
  BY <1>3 DEF F
<1>5. /\ \A x, o : One(x, o)' <=> One(x, o)
      /\ \A t, k, x, o : On(t, k, x, o)' <=> On(t, k, x, o)
      /\ \A x, o, e : Claimed(x, o, e)' <=> Claimed(x, o, e)
  BY <1>4 DEF One, On, Claimed
<1>6. \A p : Unique(p) => Unique(p)'
  BY <1>4 DEF Unique
<1>7. /\ \A x : Context(x)' <=> Context(x)
      /\ Fresh(Inner)' <=> Fresh(Inner)
      /\ Young(Inner)' <=> Young(Inner)
      /\ CompletingOrCompleted(Inner)' <=> CompletingOrCompleted(Inner)
      /\ Reached' <=> Reached
      /\ \A err : ComClaims(err)' <=> ComClaims(err)
  BY <1>3, <1>5 DEF Context, Fresh, Young, Attaching, CompletingOrCompleted, Reached, ComClaims
<1>8. \A t, k : Beginning(t, k) => Beginning(t, k)'
  BY <1>4, <1>5 DEF Beginning
\* The client waits for its callback: the context is Completed.
<1>9. /\ state_' \in [lifecycle : Phase, observed : BOOLEAN, cancelRequested : BOOLEAN]
      /\ state_'.cancelRequested = state_.cancelRequested
      /\ \/ state_'.lifecycle = state_.lifecycle /\ answer' = answer
         \/ /\ state_.lifecycle = "Completed" /\ state_'.lifecycle = "Ended" /\ answer' = result_
  <2>1. CASE UNCHANGED comVars
    BY <2>1 DEF comVars, com, ComTypeInv
  <2>2. CASE ClientEnds
    <3>1. state_.lifecycle = "Completed"
      BY <2>2 DEF ClientEnds, InvokeInv, Over
    <3>2. state_' = [state_ EXCEPT !.lifecycle = "Ended"] /\ answer' = result_
      BY <2>2, <3>1 DEF ClientEnds, ComEnded
    <3> QED
      BY <3>1, <3>2 DEF ComTypeInv, Phase
  <2> QED
    BY <2>1, <2>2
<1>10. ComTypeInv'
  <2>1. answer' \in Error \cup {"none", "NotComplete"}
    BY <1>9 DEF ComTypeInv
  <2> QED
    BY <1>1, <1>4, <1>9, <2>1 DEF ComTypeInv
<1>11. AttachInv'
  <2>0. Unbegun' <=> Unbegun
    BY <1>9 DEF Unbegun
  <2>1. Young(Inner)' =>
           \/ Unbegun'
           \/ \E t \in Thread, k \in Nat : On(t, k, "ComAttach", Proxy)' /\ Beginning(t, k + 1)'
    BY <1>5, <1>7, <1>8, <2>0 DEF AttachInv
  <2>2. Unique({"ComStart", "ComAttach"})'
    BY <1>6 DEF AttachInv
  <2> QED
    BY <1>1, <1>3, <1>5, <1>7, <1>9, <2>0, <2>1, <2>2 DEF AttachInv
<1>12. ReachInv'
  <2>1. /\ (Passed' <=> Passed) /\ (ComCompletingOrCompleted' <=> ComCompletingOrCompleted)
        /\ (Unbegun' <=> Unbegun)
    BY <1>7, <1>9 DEF Passed, ComCompletingOrCompleted, Unbegun
  <2>2. Unique({"ComCancelChild", "ComCancelSelf"})'
    BY <1>6 DEF ReachInv
  <2> QED
    BY <1>1, <1>7, <1>9, <2>1, <2>2 DEF ReachInv
<1>13. InvokeInv'
  <2>1. Unique({"ComFinishComplete"})' /\ Unique({"ComInvoke"})' /\ Unique({"ComCleanup"})'
    BY <1>6 DEF InvokeInv
  <2>2. \A t \in Thread, k \in Nat : On(t, k + 1, "ComInvoke", Proxy)' =>
           k + 1 = Len(stack'[t]) /\ On(t, k, "ComCleanup", Proxy)'
    BY <1>3, <1>5 DEF InvokeInv
  <2>3. result_ # "none"
    BY DEF ComTypeInv, Error
  <2> QED
    BY <1>1, <1>7, <1>9, <2>1, <2>2, <2>3 DEF InvokeInv, Over
<1>14. AnswerInv'
  <2>1. state_'.lifecycle \in Over => state_.lifecycle \in Over
    BY <1>9 DEF Over
  <2> QED
    BY <1>1, <1>3, <1>7, <1>9, <2>1, AnswerStays
<1> QED
  BY <1>2, <1>10, <1>11, <1>12, <1>13, <1>14

LEMMA ContextNextKeeps ==
    ASSUME OpInv, ResultInv, ContextInv, [ContextNext]_comVars
    PROVE  OpInv' /\ ResultInv' /\ ContextInv'
<1>1. ASSUME NEW t \in Thread, ComProceed(t) PROVE OpInv' /\ ResultInv' /\ ContextInv'
  <2>1. CASE Proceed(t) /\ ~(At(t, "Finish") /\ IsChild(Top(t).op, Proxy)) /\ UNCHANGED com
    BY <2>1, ProceedKeeps, ProceedResults, ComProceedKeeps
  <2> QED
    BY <1>1, <2>1, ComStartKeeps, ComAttachKeeps, OnFinishKeeps, ComTryCompleteKeeps,
       ComFinishCompleteKeeps, ComCleanupKeeps, ComCleanupChildKeeps, ComCancelKeeps,
       ComCancelChildKeeps, ComCancelSelfKeeps DEF ComProceed
<1>2. ASSUME NEW t \in Thread, WorkDone(t), UNCHANGED com PROVE OpInv' /\ ResultInv' /\ ContextInv'
  BY <1>2, WorkDoneKeeps, LeafResults, ComWorkDoneKeeps
<1> QED
  BY <1>1, <1>2, ComInvokeKeeps, ComCallCancelKeeps, ComIdleKeeps DEF ContextNext

LEMMA ContextInitKeeps ==
    ASSUME ContextInit
    PROVE  OpInv /\ ResultInv /\ ContextInv
<1>1. PICK f \in Frames : f = Frame("ComStart", Proxy) /\ f.at = "ComStart" /\ f.op = Proxy /\ Foreign(f)
  BY ComFrame DEF ComPlaces
<1>2. InitMembers /\ FirstCall(f) /\ f.kids = {} /\ f.at \in {"Begin", "ComStart"} /\ f.at # "Begin"
  BY <1>1 DEF ContextInit, Foreign
<1>3. OpInv /\ ResultInv
  BY <1>2, InitKeeps
<1>4. \A t \in Thread, k \in Nat : F(t, k) = IF t = User /\ k = 1 THEN f ELSE NoFrame
  <2>1. ASSUME NEW t \in Thread, NEW k \in Nat
        PROVE  F(t, k) = IF t = User /\ k = 1 THEN f ELSE NoFrame
    <3>1. CASE t = User
      <4>1. stack[t] = <<f>> /\ Len(stack[t]) = 1
        BY <1>2, <3>1 DEF FirstCall
      <4> QED
        BY <3>1, <4>1 DEF F
    <3>2. CASE t # User
      <4>1. stack[t] = <<>>
        BY <1>2, <3>2 DEF FirstCall
      <4> QED
        BY <3>2, <4>1 DEF F
    <3> QED
      BY <3>1, <3>2
  <2> QED
    BY <2>1
<1>5. NoFrame.at = "none" /\ User \in Thread /\ 1 \in Nat
  BY NoFrameFacts, TreeFacts
<1>6. /\ \A x, o : x # "none" => (One(x, o) <=> x = "ComStart" /\ o = Proxy)
      /\ \A p : "none" \notin p => Unique(p)
      /\ \A x, o, e : x \notin {"none", "ComStart"} => ~Claimed(x, o, e)
  BY <1>1, <1>4, <1>5 DEF One, On, Unique, Claimed
<1>7. /\ lifecycle[Inner] = "Created" /\ ~cancelRequested[Proxy] /\ refused = {} /\ asserts = {}
  BY <1>2, InnerFacts DEF InitMembers
<1>8. /\ skipCompleteOnCancel_ \in BOOLEAN /\ callback_ = TRUE /\ result_ = "Success"
      /\ child_ = FALSE /\ invoked = 0 /\ answer = "none"
      /\ state_ \in [lifecycle : Phase, observed : BOOLEAN, cancelRequested : BOOLEAN]
      /\ state_.lifecycle = "Created" /\ ~state_.cancelRequested
  BY DEF ContextInit, ComInit, Phase
<1>9. ComTypeInv
  BY <1>1, <1>4, <1>5, <1>8 DEF ComTypeInv, ComPlaces, Error, Foreign
<1>10. AttachInv
  BY <1>6, <1>7, <1>8 DEF AttachInv, Context, Fresh, Unbegun
<1>11. ReachInv
  BY <1>6, <1>8 DEF ReachInv, Context, Passed, ComCompletingOrCompleted, Unbegun
<1>12. InvokeInv
  <2>1. \A t \in Thread, k \in Nat : ~On(t, k + 1, "ComInvoke", Proxy)
    BY <1>1, <1>4, <1>5 DEF On
  <2> QED
    BY <1>6, <1>8, <2>1 DEF InvokeInv, Context, Over
<1>13. AnswerInv
  BY <1>6, <1>8 DEF AnswerInv, ComClaims, Over
<1> QED
  BY <1>3, <1>9, <1>10, <1>11, <1>12, <1>13 DEF ContextInv

-----------------------------------------------------------------------------
(***************************************************************************)
(* Start, Cancel, completion and End of a context, and all that the        *)
(* operation inside and the operations below it do, keep the invariant.    *)
(***************************************************************************)
THEOREM ContextInvariant == ContextSpec => [](OpInv /\ ResultInv /\ ContextInv)
<1>1. ContextInit => OpInv /\ ResultInv /\ ContextInv
  BY ContextInitKeeps
<1>2. OpInv /\ ResultInv /\ ContextInv /\ [ContextNext]_comVars
      => (OpInv /\ ResultInv /\ ContextInv)'
  BY ContextNextKeeps
<1> QED
  BY <1>1, <1>2, PTL DEF ContextSpec

LEMMA ComAtTop ==
    ASSUME TypeInv, ComTypeInv, NEW t \in Thread, NEW at \in ComPlaces, At(t, at)
    PROVE  \E k \in Nat : k = Len(stack[t]) /\ On(t, k, at, Proxy)
<1>1. PICK d \in Nat, op \in Op : AtTop(t, d, at, op)
  BY TopFacts
<1>2. F(t, d).at = at /\ d = Len(stack[t])
  BY <1>1 DEF AtTop
<1> QED
  BY <1>2 DEF ComTypeInv, On

\* Threads that are about to invoke the callback.
LEMMA Invokers ==
    ASSUME TypeInv, ComTypeInv, InvokeInv
    PROVE  Cardinality({t \in Thread : At(t, "ComInvoke")}) = IF Context("ComInvoke") THEN 1 ELSE 0
<1> DEFINE callers == {t \in Thread : At(t, "ComInvoke")}
<1>1. \A t \in callers : Context("ComInvoke") /\ \E k \in Nat : On(t, k, "ComInvoke", Proxy)
  BY ComAtTop DEF Context, One, ComPlaces
<1>2. CASE ~Context("ComInvoke")
  BY <1>1, <1>2, FS_EmptySet
<1>3. CASE Context("ComInvoke")
  <2>1. PICK t \in Thread, k \in Nat : On(t, k, "ComInvoke", Proxy)
    BY <1>3 DEF Context, One
  <2>2. F(t, k).at # "none" /\ F(t, k) # NoFrame
    BY <2>1, NoFrameFacts DEF On
  <2>3. k \in 1..Len(stack[t]) /\ stack[t] \in Seq(Frames)
    BY <2>2 DEF F, TypeInv
  <2>4. PICK j \in Nat : k = j + 1
    BY <2>3
  <2>5. k = Len(stack[t])
    BY <2>1, <2>4 DEF InvokeInv
  <2>6. F(t, k) = Head(stack[t]) /\ stack[t] # <<>>
    BY <2>3, <2>5 DEF F
  <2>7. t \in callers
    BY <2>1, <2>6 DEF At, On
  <2>8. \A u \in callers : u = t
    BY <1>1, <2>1 DEF InvokeInv, Unique, On
  <2>9. callers = {t}
    BY <2>7, <2>8
  <2> QED
    BY <1>3, <2>9, FS_Singleton
<1> QED
  BY <1>2, <1>3

LEMMA ContextImplies ==
    ASSUME OpInv, ContextInv
    PROVE  CalledBackOnce /\ CancelReachesInner /\ ContextResult /\ ContextCleaned
<1> USE DEF OpInv, ContextInv
<1>1. CalledBackOnce
  <2>1. state_.lifecycle \in Over =>
           invoked + Cardinality({t \in Thread : At(t, "ComInvoke")}) = 1
    BY Invokers DEF InvokeInv
  <2> QED
    BY <2>1 DEF CalledBackOnce, AttachInv, InvokeInv, Over
<1>2. CancelReachesInner
  <2>1. SUFFICES ASSUME state_.cancelRequested,
                        ~Someone({"ComStart", "ComAttach", "ComCancelChild", "Cancel",
                                  "CancelCollect", "CancelChildren"}, Proxy)
                 PROVE  cancelRequested[Inner] \/ CompletingOrCompleted(Inner)
    BY DEF CancelReachesInner
  <2>2. /\ ~Context("ComStart") /\ ~Context("ComAttach") /\ ~Context("ComCancelChild")
        /\ ~One("Cancel", Proxy) /\ ~One("CancelCollect", Proxy) /\ ~One("CancelChildren", Proxy)
    BY <2>1, SomeoneIsOne DEF Context
  <2>3. Reached /\ ~Unbegun
    BY <2>1, <2>2 DEF ReachInv, AttachInv, Passed
  <2>4. CASE cancelRequested[Proxy] /\ ~CompletingOrCompleted(Inner)
    <3>1. ~Young(Inner)
      BY <2>2, <2>3 DEF AttachInv, Context, One
    <3>2. Attached(Inner)
      BY <2>4, <3>1, InnerFacts DEF Attached, Young, AttachInv, CompletingOrCompleted, TypeInv, Phase
    <3>3. Inner \notin children_[Proxy]
      BY <2>2, <2>4, InnerFacts DEF CancelInv, Adding
    <3>4. ~Pursued(Proxy, Inner)
      BY <2>2 DEF Pursued, One
    <3> QED
      BY <3>2, <3>3, <3>4, InnerFacts DEF CancelInv
  <2> QED
    BY <2>2, <2>3, <2>4 DEF Reached
<1>3. ContextResult
  BY DEF ContextResult, AnswerInv, ComJustified, Over
<1>4. ContextCleaned
  <2>1. SUFFICES ASSUME state_.lifecycle \in Over,
                        ~Someone({"ComInvoke", "ComCleanup", "ComCleanupChild"}, Proxy)
                 PROVE  ~callback_ /\ ~child_
    BY DEF ContextCleaned, Over
  <2>2. ~Context("ComCleanup") /\ ~Context("ComCleanupChild")
    BY <2>1, SomeoneIsOne DEF Context
  <2> QED
    BY <2>1, <2>2 DEF InvokeInv
<1> QED
  BY <1>1, <1>2, <1>3, <1>4

(***************************************************************************)
(* The transitions of the context and of the operation inside are made     *)
(* once, and the client is called back once, with the result of the        *)
(* completion that won, whoever cancels and whoever completes first.       *)
(***************************************************************************)
THEOREM AlwaysCalledBackOnce == ContextSpec => []CalledBackOnce
<1>1. OpInv /\ ResultInv /\ ContextInv => CalledBackOnce
  BY ContextImplies
<1> QED
  BY <1>1, ContextInvariant, PTL

(***************************************************************************)
(* Either Start sees that the context is cancelled, or Cancel sees the     *)
(* child: the operation inside is asked to cancel, or is over by then.     *)
(***************************************************************************)
THEOREM CancelAlwaysReachesInner == ContextSpec => []CancelReachesInner
<1>1. OpInv /\ ResultInv /\ ContextInv => CancelReachesInner
  BY ContextImplies
<1> QED
  BY <1>1, ContextInvariant, PTL

(***************************************************************************)
(* A context does not succeed before the operation inside was ended with   *)
(* success, nor report E_ABORT when nothing was cancelled.                 *)
(***************************************************************************)
THEOREM ContextResultIsJustified == ContextSpec => []ContextResult
<1>1. OpInv /\ ResultInv /\ ContextInv => ContextResult
  BY ContextImplies
<1> QED
  BY <1>1, ContextInvariant, PTL

(***************************************************************************)
(* Once Cleanup has run, a context that is over holds neither the callback *)
(* nor the proxy, also when Start returns late.                            *)
(***************************************************************************)
THEOREM ContextIsCleaned == ContextSpec => []ContextCleaned
<1>1. OpInv /\ ResultInv /\ ContextInv => ContextCleaned
  BY ContextImplies
<1> QED
  BY <1>1, ContextInvariant, PTL
-----------------------------------------------------------------------------
(***************************************************************************)
(* Common::ComProxyAsyncOperation.                                         *)
(***************************************************************************)
ProxyPlaces == {"ProxyBegun", "ProxyStore", "ProxyFinish", "ProxyCleanup", "ProxyOnCancel",
                "ProxyNeverInvoked"}

\* Start of the native operation has not called OnStart yet.
NativeStarting == \E at \in Starting : One(at, Native)

\* OnStart has not returned: the COM operation is being begun, or will be kept.
Entering == NativeStarting \/ One("ProxyBegun", Native) \/ One("ProxyStore", Native)

NativeTypes ==
    /\ comAsyncOperationSPtr_ \in BOOLEAN /\ Native \notin handedOver
    /\ \A t \in Thread, k \in Nat : F(t, k).at \in ProxyPlaces =>
          F(t, k).op = Native /\ F(t, k).kids = {} /\ lifecycle[Native] # "Created"

\* The COM operation is begun once, by OnStart, and not known to anybody before it is kept.
EnterInv ==
    /\ NativeStarting => Unbegun /\ ~Context("ComStart")
    /\ ~Unbegun => lifecycle[Native] # "Created"
    /\ Unique({"ProxyBegun", "ProxyStore"})
    /\ One("ProxyBegun", Native) \/ One("ProxyStore", Native) => ~NativeStarting
    /\ \A t \in Thread, k \in Nat : On(t, k, "ProxyBegun", Native) /\ Unbegun =>
          On(t, k + 1, "ComStart", Proxy)
    /\ Context("ComStart") => One("ProxyBegun", Native)
    /\ comAsyncOperationSPtr_ \/ One("ProxyStore", Native) => ~Unbegun
    /\ Entering => ~comAsyncOperationSPtr_ /\ ~state_.cancelRequested /\ ~Context("ComCancel")

\* OnStart ends a COM operation that it finds completed, else the callback does.
EndsInv ==
    /\ NativeStarting \/ One("ProxyBegun", Native) => ~state_.observed /\ state_.lifecycle # "Ended"
    /\ Unique({"ProxyFinish"})
    /\ One("ProxyFinish", Native) =>
          /\ state_.lifecycle = "Completed" /\ ~One("ProxyBegun", Native)
          /\ state_.observed => ~Context("ComInvoke")
    /\ Context("ComInvoke") /\ state_.lifecycle = "Ended" => ~state_.observed
    /\ ~Unbegun /\ ~state_.observed /\ state_.lifecycle # "Ended" =>
          One("ProxyBegun", Native) \/ One("ProxyFinish", Native)
    /\ state_.observed /\ state_.lifecycle = "Completed" =>
          Context("ComInvoke") \/ One("ProxyFinish", Native)
    /\ answer # "NotComplete"

\* The COM operation could not be begun, and never will be.
Failed == Unbegun /\ ~Context("ComStart") /\ ~NativeStarting

NativeJustified(err) ==
    \/ err = answer
    \/ err = "Failure" /\ Failed
    \/ err = "OperationCanceled" /\ cancelRequested[Native]

ReportInv ==
    /\ lifecycle[Native] \in Over => NativeJustified(error_[Native])
    /\ \A err \in Error : Claims(Native, err) => NativeJustified(err)

\* Only Cancel of the context reaches what is inside, before it is completed.
Quiet(op) ==
    /\ ~cancelRequested[op] /\ ~One("Cancel", op)
    /\ error_[op] # "OperationCanceled" /\ ~Claims(op, "OperationCanceled")

QuietInv ==
    ~state_.cancelRequested =>
        /\ ~ComCompletingOrCompleted => \A op \in Op \ {Native} : Quiet(op)
        /\ ~ComClaims("OperationCanceled") /\ result_ # "OperationCanceled"
        /\ ComCompletingOrCompleted \/ Context("ComTryComplete") => lifecycle[Inner] = "Ended"

\* Cancel has won: the native operation will not report the answer.
Overtaken ==
    /\ CompletingOrCompleted(Native)
    /\ lifecycle[Native] \in Over => error_[Native] # answer
    /\ ~Claimed("FinishComplete", Native, answer)

\* The frame below one that completes the native operation cleans up.
StoreInv ==
    /\ answer # "none" /\ lifecycle[Native] = "Started" =>
          \E t \in Thread, k \in Nat :
              On(t, k, "ProxyCleanup", Native) /\ On(t, k + 1, "TryComplete", Native)
    /\ \A t \in Thread, k \in Nat :
          /\ F(t, k + 1).op = Native /\ F(t, k + 1).at \in {"TryComplete", "FinishComplete"}
          /\ F(t, k + 1).err # "OperationCanceled"
          => Failed \/ On(t, k, "ProxyCleanup", Native)
    /\ answer # "none" /\ comAsyncOperationSPtr_ => One("ProxyCleanup", Native) \/ Overtaken

\* The context is cancelled by OnCancel only.
SignalInv ==
    One("ProxyOnCancel", Native) \/ Context("ComCancel") \/ state_.cancelRequested =>
        cancelRequested[Native]

NativeInv ==
    /\ NativeTypes /\ EnterInv /\ EndsInv /\ ReportInv /\ QuietInv /\ SignalInv /\ StoreInv

-----------------------------------------------------------------------------
LEMMA NativeFacts ==
    /\ Native \in Op /\ Native \notin Host /\ Native # Inner /\ Native # Proxy
    /\ IsLeaf(Native) /\ ~HasParent(Native) /\ Targets \subseteq {Native}
    /\ \A c \in Op : ~IsChild(c, Native) /\ ~IsChild(Native, c)
<1>1. \A c \in Op : ~IsChild(c, Native) /\ ~IsChild(Native, c)
  BY NativeAssumption, TreeFacts
<1> QED
  BY <1>1, NativeAssumption, InnerFacts

LEMMA ProxyPlaceFacts ==
    /\ ProxyPlaces \subseteq Places /\ ProxyPlaces \cap OwnPlaces = {} /\ ProxyPlaces \cap ComPlaces = {}
    /\ "none" \notin ProxyPlaces /\ OwnPlaces \cap ComPlaces = {} /\ "none" \notin OwnPlaces
    /\ "none" \notin ComPlaces /\ Starting \subseteq OwnPlaces /\ ComPlaces \subseteq Places
BY DEF ProxyPlaces, Places, OwnPlaces, ComPlaces, Starting

(***************************************************************************)
(* A step that is not one of the native operation's own.                   *)
(***************************************************************************)
Outside(t, d, f, g) ==
    /\ Moves(t, d, f, g) /\ F(t, d + 1) = NoFrame
    /\ F(t, d).at \notin ProxyPlaces /\ f.at \notin ProxyPlaces /\ g.at \notin ProxyPlaces
    /\ (f.at \in Starting /\ f.op = Native) \/ (g.at \in Starting /\ g.op = Native) => NativeStarting
    /\ f.at # "ComStart" /\ g.at # "ComStart" /\ f.at # "ComCancel" /\ g.at # "ComCancel"
    /\ comAsyncOperationSPtr_' = comAsyncOperationSPtr_ /\ answer' = answer
    /\ lifecycle[Native] # "Created" => lifecycle'[Native] # "Created"
    /\ cancelRequested[Native] => cancelRequested'[Native]
    /\ state_'.observed = state_.observed
    /\ state_'.cancelRequested => state_.cancelRequested \/ Context("ComCancel")
    /\ \/ F(t, d).at # "ComStart" /\ (Unbegun' <=> Unbegun)
       \/ /\ On(t, d, "ComStart", Proxy) /\ ~Unbegun' /\ \A x \in {"ComStart"} : ~One(x, Proxy)'
          /\ state_'.lifecycle = "Started"

LEMMA OutsidePlaces ==
    ASSUME NEW t \in Thread, NEW d \in Nat, NEW f, NEW g, Outside(t, d, f, g)
    PROVE  /\ \A x \in ProxyPlaces : One(x, Native)' <=> One(x, Native)
           /\ \A x \in ProxyPlaces : \A u \in Thread, k \in Nat :
                 /\ On(u, k, x, Native) => On(u, k, x, Native)' /\ ~(u = t /\ (k = d \/ k = d + 1))
                 /\ On(u, k, x, Native)' => On(u, k, x, Native) /\ ~(u = t /\ (k = d \/ k = d + 1))
           /\ \A u \in Thread, k \in Nat : F(u, k)'.at \in ProxyPlaces => F(u, k)' = F(u, k)
           /\ NativeStarting' => NativeStarting
           /\ Entering' => Entering
<1>1. \A x \in ProxyPlaces : x # "none"
  BY ProxyPlaceFacts
<1>2. \A x \in ProxyPlaces : \A u \in Thread, k \in Nat :
         /\ On(u, k, x, Native) => On(u, k, x, Native)' /\ ~(u = t /\ (k = d \/ k = d + 1))
         /\ On(u, k, x, Native)' => On(u, k, x, Native) /\ ~(u = t /\ (k = d \/ k = d + 1))
  BY <1>1, NoFrameFacts DEF Outside, Moves, On
<1>3. \A x \in ProxyPlaces : One(x, Native)' <=> One(x, Native)
  BY <1>2 DEF One
<1>4. \A u \in Thread, k \in Nat : F(u, k)'.at \in ProxyPlaces => F(u, k)' = F(u, k)
  BY DEF Outside, Moves
<1>5. NativeStarting' => NativeStarting
  <2>1. ASSUME NEW x \in Starting, One(x, Native)' PROVE NativeStarting
    <3>1. x # "none"
      BY DEF Starting
    <3>2. One(x, Native) \/ (x = f.at /\ Native = f.op) \/ (x = g.at /\ Native = g.op)
      BY <2>1, <3>1, OneMoves DEF Outside
    <3> QED
      BY <3>2 DEF NativeStarting, Outside
  <2> QED
    BY <2>1 DEF NativeStarting
<1>6. Entering' => Entering
  BY <1>3, <1>5 DEF Entering, ProxyPlaces
<1> QED
  BY <1>2, <1>3, <1>4, <1>5, <1>6

LEMMA OutsideEnter ==
    ASSUME NativeTypes, EnterInv, NEW t \in Thread, NEW d \in Nat, NEW f, NEW g, Outside(t, d, f, g)
    PROVE  EnterInv'
<1>1. /\ One("ProxyBegun", Native)' <=> One("ProxyBegun", Native)
      /\ One("ProxyStore", Native)' <=> One("ProxyStore", Native)
      /\ (NativeStarting' => NativeStarting) /\ (Entering' => Entering)
  BY OutsidePlaces DEF ProxyPlaces
<1>2. /\ Context("ComStart")' => Context("ComStart")
      /\ Context("ComCancel")' => Context("ComCancel")
  BY OneMoves DEF Outside, Context
<1>3. Unique({"ProxyBegun", "ProxyStore"})'
  <2>1. {"ProxyBegun", "ProxyStore"} \subseteq ProxyPlaces /\ "none" \notin {"ProxyBegun", "ProxyStore"}
    BY DEF ProxyPlaces
  <2> QED
    BY <2>1, UniqueMoves DEF Outside, EnterInv
<1>4. NativeStarting' => Unbegun'
  <2>1. On(t, d, "ComStart", Proxy) => Context("ComStart")
    BY DEF Context, One
  <2> QED
    BY <1>1, <2>1 DEF EnterInv, Outside
<1>5. ASSUME NEW u \in Thread, NEW k \in Nat, On(u, k, "ProxyBegun", Native)', Unbegun'
      PROVE  On(u, k + 1, "ComStart", Proxy)'
  <2>1. On(u, k, "ProxyBegun", Native) /\ ~(u = t /\ (k = d \/ k = d + 1))
    BY <1>5, OutsidePlaces DEF ProxyPlaces
  <2>2. Unbegun /\ F(t, d).at # "ComStart"
    BY <1>5 DEF Outside
  <2>3. On(u, k + 1, "ComStart", Proxy)
    BY <2>1, <2>2 DEF EnterInv
  <2>4. ~(u = t /\ (k + 1 = d \/ k + 1 = d + 1))
    BY <2>1, <2>2, <2>3 DEF On
  <2>5. k + 1 \in Nat /\ F(u, k + 1)' = F(u, k + 1)
    BY <2>4 DEF Outside, Moves
  <2> QED
    BY <2>3, <2>5 DEF On
<1>6. Context("ComStart")' => One("ProxyBegun", Native)'
  BY <1>1, <1>2 DEF EnterInv
<1>7. comAsyncOperationSPtr_' \/ One("ProxyStore", Native)' => ~Unbegun'
  BY <1>1 DEF EnterInv, Outside
<1>8. Entering' => ~comAsyncOperationSPtr_' /\ ~state_'.cancelRequested /\ ~Context("ComCancel")'
  BY <1>1, <1>2 DEF EnterInv, Outside
<1>9. ~Unbegun' => lifecycle'[Native] # "Created"
  <2>1. Context("ComStart") => lifecycle[Native] # "Created"
    BY DEF EnterInv, NativeTypes, One, On, ProxyPlaces
  <2>2. On(t, d, "ComStart", Proxy) => Context("ComStart")
    BY DEF Context, One
  <2> QED
    BY <2>1, <2>2 DEF EnterInv, Outside
<1> QED
  BY <1>1, <1>2, <1>3, <1>4, <1>5, <1>6, <1>7, <1>8, <1>9 DEF EnterInv

\* What the step may do to the life of the context.
LEMMA OutsideEnds ==
    ASSUME EnterInv, EndsInv, NEW t \in Thread, NEW d \in Nat, NEW f, NEW g, Outside(t, d, f, g),
           state_'.lifecycle = "Ended" <=> state_.lifecycle = "Ended",
           state_.lifecycle = "Completed" => state_'.lifecycle = "Completed",
           state_'.lifecycle = "Completed" => state_.lifecycle = "Completed" \/ Context("ComInvoke")',
           Context("ComInvoke") => Context("ComInvoke")',
           Context("ComInvoke")' =>
              \/ Context("ComInvoke")
              \/ state_.lifecycle \notin Over /\ state_'.lifecycle = "Completed"
    PROVE  EndsInv'
<1>1. /\ One("ProxyBegun", Native)' <=> One("ProxyBegun", Native)
      /\ One("ProxyFinish", Native)' <=> One("ProxyFinish", Native)
      /\ NativeStarting' => NativeStarting
  BY OutsidePlaces DEF ProxyPlaces
<1>2. Unique({"ProxyFinish"})'
  <2>1. {"ProxyFinish"} \subseteq ProxyPlaces /\ "none" \notin {"ProxyFinish"}
    BY DEF ProxyPlaces
  <2> QED
    BY <2>1, UniqueMoves DEF Outside, EndsInv
<1>3. ~Unbegun' => ~Unbegun \/ One("ProxyBegun", Native)
  <2>1. On(t, d, "ComStart", Proxy) => Context("ComStart")
    BY DEF Context, One
  <2> QED
    BY <2>1 DEF Outside, EnterInv
<1>4. state_'.observed = state_.observed /\ answer' = answer
  BY DEF Outside
<1> QED
  BY <1>1, <1>2, <1>3, <1>4 DEF EndsInv, Over

LEMMA OutsideTypes ==
    ASSUME NativeTypes, NEW t \in Thread, NEW d \in Nat, NEW f, NEW g, Outside(t, d, f, g),
           Native \notin handedOver'
    PROVE  NativeTypes'
<1>1. \A u \in Thread, k \in Nat : F(u, k)'.at \in ProxyPlaces => F(u, k)' = F(u, k)
  BY OutsidePlaces
<1>2. lifecycle[Native] # "Created" => lifecycle'[Native] # "Created"
  BY DEF Outside
<1>3. comAsyncOperationSPtr_' = comAsyncOperationSPtr_
  BY DEF Outside
<1> QED
  BY <1>1, <1>2, <1>3 DEF NativeTypes

\* The native operation reports what was claimed before.
LEMMA OutsideReport ==
    ASSUME EnterInv, ReportInv, NEW t \in Thread, NEW d \in Nat, NEW f, NEW g, Outside(t, d, f, g),
           lifecycle'[Native] \in Over =>
              \/ lifecycle[Native] \in Over /\ error_'[Native] = error_[Native]
              \/ error_'[Native] \in Error /\ Claimed("FinishComplete", Native, error_'[Native]),
           \A err : Claims(Native, err)' => Claims(Native, err)
    PROVE  ReportInv'
<1>1. Failed => Failed'
  <2>1. Context("ComStart")' => Context("ComStart")
    BY OneMoves DEF Outside, Context
  <2>2. On(t, d, "ComStart", Proxy) => Context("ComStart")
    BY DEF Context, One
  <2>3. NativeStarting' => NativeStarting
    BY OutsidePlaces
  <2> QED
    BY <2>1, <2>2, <2>3 DEF Failed, Outside
<1>2. \A err : NativeJustified(err) => NativeJustified(err)'
  BY <1>1 DEF NativeJustified, Outside
<1>3. \A err : Claimed("FinishComplete", Native, err) => Claims(Native, err)
  BY DEF Claims
<1> QED
  BY <1>2, <1>3 DEF ReportInv

LEMMA OutsideSignal ==
    ASSUME SignalInv, NEW t \in Thread, NEW d \in Nat, NEW f, NEW g, Outside(t, d, f, g)
    PROVE  SignalInv'
<1>1. One("ProxyOnCancel", Native)' <=> One("ProxyOnCancel", Native)
  BY OutsidePlaces DEF ProxyPlaces
<1>2. Context("ComCancel")' => Context("ComCancel")
  BY OneMoves DEF Outside, Context
<1> QED
  BY <1>1, <1>2 DEF SignalInv, Outside

\* The step only takes claims of the native operation on.
LEMMA OutsideStore ==
    ASSUME OpInv, NativeTypes, EnterInv, EndsInv, ReportInv, StoreInv, InvokeInv,
           NEW t \in Thread, NEW d \in Nat, NEW f, NEW g, Outside(t, d, f, g),
           lifecycle'[Native] = "Started" =>
              \/ One("Start", Native)
              \/ lifecycle[Native] = "Started" /\ ~On(t, d, "TryComplete", Native),
           lifecycle'[Native] \in Over =>
              \/ lifecycle[Native] \in Over /\ error_'[Native] = error_[Native]
              \/ error_'[Native] \in Error /\ Claimed("FinishComplete", Native, error_'[Native]),
           CompletingOrCompleted(Native) => CompletingOrCompleted(Native)',
           ~(g.op = Native /\ g.at \in Claiming),
           f.op = Native /\ f.at \in Claiming =>
              /\ f.at = "FinishComplete" /\ On(t, d, "TryComplete", Native) /\ f.err = F(t, d).err
              /\ lifecycle[Native] = "Started"
    PROVE  StoreInv'
<1>1. answer' = answer /\ comAsyncOperationSPtr_' = comAsyncOperationSPtr_
  BY DEF Outside
<1>2. Failed => Failed'
  <2>1. Context("ComStart")' => Context("ComStart")
    BY OneMoves DEF Outside, Context
  <2>2. On(t, d, "ComStart", Proxy) => Context("ComStart")
    BY DEF Context, One
  <2>3. NativeStarting' => NativeStarting
    BY OutsidePlaces
  <2> QED
    BY <2>1, <2>2, <2>3 DEF Failed, Outside
<1>3. ASSUME answer # "none", lifecycle'[Native] = "Started"
      PROVE  \E u \in Thread, k \in Nat :
                On(u, k, "ProxyCleanup", Native)' /\ On(u, k + 1, "TryComplete", Native)'
  <2>1. state_.lifecycle = "Ended"
    BY <1>3 DEF InvokeInv
  <2>2. ~One("Start", Native)
    BY <2>1 DEF EndsInv, NativeStarting, Starting
  <2>3. lifecycle[Native] = "Started" /\ ~On(t, d, "TryComplete", Native)
    BY <1>3, <2>2
  <2>4. PICK u \in Thread, k \in Nat : On(u, k, "ProxyCleanup", Native) /\ On(u, k + 1, "TryComplete", Native)
    BY <1>3, <2>3 DEF StoreInv
  <2>5. On(u, k, "ProxyCleanup", Native)' /\ ~(u = t /\ (k = d \/ k = d + 1))
    BY <2>4, OutsidePlaces DEF ProxyPlaces
  <2>6. ~(u = t /\ (k + 1 = d \/ k + 1 = d + 1))
    BY <2>3, <2>4, <2>5
  <2>7. k + 1 \in Nat /\ F(u, k + 1)' = F(u, k + 1)
    BY <2>6 DEF Outside, Moves
  <2> QED
    BY <2>4, <2>5, <2>7 DEF On
<1>4. ASSUME NEW u \in Thread, NEW k \in Nat, F(u, k + 1)'.op = Native, F(u, k + 1)'.at \in Claiming,
             F(u, k + 1)'.err # "OperationCanceled"
      PROVE  Failed' \/ On(u, k, "ProxyCleanup", Native)'
  <2>1. k + 1 \in Nat /\ d + 1 \in Nat /\ k # k + 1
    OBVIOUS
  <2>2. /\ F(u, k + 1).op = Native /\ F(u, k + 1).at \in Claiming /\ F(u, k + 1).err # "OperationCanceled"
    <3>1. CASE u = t /\ k + 1 = d
      <4>1. F(u, k + 1)' = f
        BY <2>1, <3>1 DEF Outside, Moves
      <4> QED
        BY <1>4, <3>1, <4>1 DEF On, Claiming
    <3>2. CASE u = t /\ k + 1 = d + 1
      <4>1. F(u, k + 1)' = g
        BY <2>1, <3>2 DEF Outside, Moves
      <4> QED
        BY <1>4, <4>1
    <3>3. CASE ~(u = t /\ (k + 1 = d \/ k + 1 = d + 1))
      BY <1>4, <2>1, <3>3 DEF Outside, Moves
    <3> QED
      BY <3>1, <3>2, <3>3
  <2>3. Failed \/ On(u, k, "ProxyCleanup", Native)
    BY <2>2 DEF StoreInv, Claiming
  <2>4. On(u, k, "ProxyCleanup", Native) => On(u, k, "ProxyCleanup", Native)'
    BY OutsidePlaces DEF ProxyPlaces
  <2> QED
    BY <1>2, <2>3, <2>4
<1>5. Overtaken => Overtaken'
  <2>1. ASSUME Overtaken, lifecycle'[Native] \in Over PROVE error_'[Native] # answer
    BY <2>1 DEF Overtaken
  <2>2. ASSUME Overtaken PROVE ~Claimed("FinishComplete", Native, answer)'
    <3>1. lifecycle[Native] # "Started"
      BY <2>2 DEF Overtaken, CompletingOrCompleted
    <3>2. ~(f.op = Native /\ f.at = "FinishComplete") /\ ~(g.op = Native /\ g.at = "FinishComplete")
      BY <3>1 DEF Claiming
    <3>3. Claimed("FinishComplete", Native, answer)' => Claimed("FinishComplete", Native, answer)
      <4>1. answer' = answer
        BY DEF Outside
      <4>2. \A u \in Thread, k \in Nat : On(u, k, "FinishComplete", Native)' => F(u, k)' = F(u, k)
        BY <3>2 DEF Outside, Moves, On
      <4> QED
        BY <4>1, <4>2 DEF Claimed, On
    <3> QED
      BY <2>2, <3>3 DEF Overtaken
  <2> QED
    BY <1>1, <2>1, <2>2 DEF Overtaken
<1>6. One("ProxyCleanup", Native) => One("ProxyCleanup", Native)'
  BY OutsidePlaces DEF ProxyPlaces
<1> QED
  BY <1>1, <1>3, <1>4, <1>5, <1>6 DEF StoreInv, Claiming

-----------------------------------------------------------------------------
(***************************************************************************)
(* Steps of AsyncOperation.                                                *)
(***************************************************************************)
LEMMA ProceedOutside ==
    ASSUME OpInv, ContextInv, NativeInv, NEW t \in Thread, Proceed(t), ~Overrides(t), UNCHANGED com,
           comAsyncOperationSPtr_' = comAsyncOperationSPtr_,
           NEW at \in OwnPlaces, NEW op \in Op, NEW d \in Nat, NEW f \in Frames, NEW g \in Frames,
           Seen(t, at, op, d, f, g)
    PROVE  /\ Outside(t, d, f, g) /\ F(t, d).at = at /\ F(t, d).op = op
           /\ op = Native => at \notin {"OnStart", "CancelChildren"}
           /\ Native \notin handedOver'
<1>1. /\ Moves(t, d, f, g) /\ F(t, d + 1) = NoFrame /\ F(t, d).at = at /\ F(t, d).op = op /\ One(at, op)
      /\ stack[t] # <<>> /\ Top(t).at = at /\ Top(t).op = op
  BY DEF Seen, AtTop
<1>2. op = Native => at \notin {"OnStart", "CancelChildren"}
  BY <1>1 DEF Overrides
<1>3. at \notin ProxyPlaces /\ f.at \notin ProxyPlaces /\ g.at \notin ProxyPlaces
      /\ f.at \notin ComPlaces /\ g.at \notin ComPlaces /\ at \notin ComPlaces
  BY ProxyPlaceFacts DEF Seen
<1>4. "ComStart" \in ComPlaces /\ "ComCancel" \in ComPlaces
  BY DEF ComPlaces
<1>5. f.at \in Starting /\ f.op = Native => NativeStarting
  <2>1. SUFFICES ASSUME f.at \in Starting, f.op = Native PROVE NativeStarting
    OBVIOUS
  <2>2. f.at # "Begin" /\ f.at # "Start"
    BY <2>1, NativeFacts DEF Seen
  <2>3. at \in {"Start", "Attach", "AttachPush"} /\ op = Native
    BY <2>1, <2>2 DEF Seen, Starting
  <2> QED
    BY <1>1, <2>3 DEF NativeStarting, Starting
<1>6. g.at \in Starting /\ g.op = Native => NativeStarting
  <2>1. SUFFICES ASSUME g.at \in Starting, g.op = Native PROVE NativeStarting
    OBVIOUS
  <2>2. g.at # "Begin" /\ g.at \notin {"Attach", "AttachPush"} /\ g.at # "OnStart"
    BY <2>1, NativeFacts DEF Seen
  <2>3. at = "Begin" /\ op = Native
    BY <2>1, <2>2 DEF Seen, Starting
  <2> QED
    BY <1>1, <2>3 DEF NativeStarting, Starting
<1>7. /\ lifecycle[Native] # "Created" => lifecycle'[Native] # "Created"
      /\ cancelRequested[Native] => cancelRequested'[Native]
  BY ProceedEffects, NativeFacts
<1>8. UNCHANGED <<state_, answer>> /\ (Unbegun' <=> Unbegun)
  BY DEF com, Unbegun
<1>9. Outside(t, d, f, g)
  BY <1>1, <1>3, <1>4, <1>5, <1>6, <1>7, <1>8 DEF Outside
<1>10. Native \notin handedOver'
  <2>1. \/ handedOver' = handedOver
        \/ At(t, "OnStart") /\ handedOver' = handedOver \cup {Top(t).op}
    BY DEF Proceed, Start, Finish, TryComplete, FinishComplete, Cancel, AttachChild, AttachPush, OnStart,
           StartReturns, Begin, Begun, Callback, Cleanup, DetachChild, CancelCollect, CancelChild,
           CancelSignals, CancelCompletes
  <2>2. At(t, "OnStart") => at = "OnStart"
    BY <1>1 DEF At, Top
  <2> QED
    BY <1>1, <1>2, <2>1, <2>2 DEF NativeInv, NativeTypes
<1> QED
  BY <1>1, <1>2, <1>9, <1>10

\* An operation inside is not cancelled by itself.
LEMMA ProceedQuiet ==
    ASSUME OpInv, ContextInv, NativeInv, NEW t \in Thread, Proceed(t), ~Overrides(t), UNCHANGED com,
           comAsyncOperationSPtr_' = comAsyncOperationSPtr_
    PROVE  QuietInv'
<1> USE DEF NativeInv
<1>1. PICK at \in OwnPlaces, op \in Op, d \in Nat, f \in Frames, g \in Frames : Seen(t, at, op, d, f, g)
  BY ProceedSeen DEF SeenStep
<1>2. /\ Moves(t, d, f, g) /\ F(t, d + 1) = NoFrame /\ F(t, d).at = at /\ F(t, d).op = op /\ One(at, op)
      /\ op = Native => at \notin {"OnStart", "CancelChildren"}
  <2>1. op = Native => at \notin {"OnStart", "CancelChildren"}
    BY <1>1, ProceedOutside
  <2> QED
    BY <1>1, <2>1 DEF Seen, AtTop
<1>3. UNCHANGED <<state_, result_>>
  BY DEF com
<1>4. ASSUME NEW o \in Op \ {Native}, Quiet(o), \A q \in Op \ {Native} : Quiet(q) PROVE Quiet(o)'
  <2>1. ~cancelRequested'[o]
    BY <1>4, ProceedEffects DEF Quiet
  <2>2. ~One("Cancel", o)'
    <3>1. SUFFICES ASSUME One("Cancel", o)' PROVE FALSE
      OBVIOUS
    <3>2. g.at = "Cancel" \/ f.at = "Cancel"
      BY <1>2, <1>4, <3>1, OneMoves DEF Quiet
    <3>3. at = "CancelChildren" /\ op # Native
      BY <1>1, <1>2, <3>2 DEF Seen
    <3>4. cancelRequested[op]
      BY <1>2, <3>3 DEF OpInv, CancelInv
    <3> QED
      BY <1>4, <3>3, <3>4 DEF Quiet
  <2>3. error_'[o] # "OperationCanceled"
    <3>1. error_'[o] # error_[o] => Claimed("FinishComplete", o, error_'[o])
      BY ProceedReports
    <3> QED
      BY <1>4, <3>1 DEF Quiet, Claims
  <2>4. ~Claims(o, "OperationCanceled")'
    <3>1. SUFFICES ASSUME Claims(o, "OperationCanceled")' PROVE FALSE
      OBVIOUS
    <3>2. \/ f.at \in Claiming /\ f.op = o /\ f.err = "OperationCanceled"
          \/ g.at \in Claiming /\ g.op = o /\ g.err = "OperationCanceled"
      BY <1>2, <1>4, <3>1, ClaimedMoves DEF Quiet, Claims, Claiming
    <3>3. f.at \in Claiming /\ f.op = o /\ f.err = "OperationCanceled"
      BY <1>1, <3>2 DEF Seen, Claiming
    <3>4. CASE f.at = "FinishComplete"
      <4>1. at = "TryComplete" /\ op = o /\ F(t, d).err = "OperationCanceled"
        BY <1>1, <3>3, <3>4 DEF Seen
      <4>2. Claims(o, "OperationCanceled")
        BY <1>2, <4>1 DEF Claims, Claimed, On
      <4> QED
        BY <1>4, <4>2 DEF Quiet
    <3>5. CASE f.at = "TryComplete"
      <4>1. CASE at = "CancelChildren" /\ f.op = op
        BY <1>2, <1>4, <3>3, <4>1 DEF OpInv, CancelInv, Quiet
      <4>2. CASE at = "Finish" /\ IsChild(op, f.op) /\ f.err = error_[op]
        <5>1. op # Native
          BY <3>3, <4>2, NativeFacts
        <5> QED
          BY <1>4, <3>3, <4>2, <5>1 DEF Quiet
      <4> QED
        BY <1>1, <3>5, <4>1, <4>2 DEF Seen
    <3> QED
      BY <3>3, <3>4, <3>5 DEF Claiming
  <2> QED
    BY <2>1, <2>2, <2>3, <2>4 DEF Quiet
<1>5. ~ComClaims("OperationCanceled") => ~ComClaims("OperationCanceled")'
  <2>1. f.at \notin ComPlaces /\ g.at \notin ComPlaces
    BY <1>1, ProxyPlaceFacts DEF Seen
  <2> QED
    BY <1>2, <2>1, ComClaimsMove DEF ComPlaces
<1>6. lifecycle[Inner] = "Ended" => lifecycle'[Inner] = "Ended"
  BY ProceedEffects, InnerFacts
<1>7. Context("ComTryComplete")' => Context("ComTryComplete")
  <2>1. f.at # "ComTryComplete" /\ g.at # "ComTryComplete"
    BY <1>1, ProxyPlaceFacts DEF Seen, ComPlaces
  <2> QED
    BY <1>2, <2>1, OneMoves DEF Context
<1>8. ComCompletingOrCompleted' <=> ComCompletingOrCompleted
  BY <1>3 DEF ComCompletingOrCompleted
<1>9. (\A q \in Op \ {Native} : Quiet(q)) => (\A q \in Op \ {Native} : Quiet(q)')
  BY <1>4
<1> QED
  BY <1>3, <1>5, <1>6, <1>7, <1>8, <1>9 DEF QuietInv

LEMMA ProceedNative ==
    ASSUME OpInv, ContextInv, NativeInv, NEW t \in Thread, Proceed(t), ~Overrides(t), UNCHANGED com,
           comAsyncOperationSPtr_' = comAsyncOperationSPtr_
    PROVE  NativeInv'
<1> USE DEF NativeInv
<1>1. PICK at \in OwnPlaces, op \in Op, d \in Nat, f \in Frames, g \in Frames : Seen(t, at, op, d, f, g)
  BY ProceedSeen DEF SeenStep
<1>2. /\ Outside(t, d, f, g) /\ F(t, d).at = at /\ F(t, d).op = op
      /\ op = Native => at \notin {"OnStart", "CancelChildren"}
      /\ Native \notin handedOver'
  BY <1>1, ProceedOutside
<1>3. /\ lifecycle'[Native] = "Started" =>
            \/ One("Start", Native)
            \/ lifecycle[Native] = "Started" /\ ~(At(t, "TryComplete") /\ Top(t).op = Native)
      /\ lifecycle'[Native] \in Over =>
            \/ lifecycle[Native] \in Over /\ error_'[Native] = error_[Native]
            \/ error_'[Native] \in Error /\ Claimed("FinishComplete", Native, error_'[Native])
      /\ CompletingOrCompleted(Native) => CompletingOrCompleted(Native)'
  BY ProceedReports, ProceedEffects, NativeFacts
<1>4. On(t, d, "TryComplete", Native) => At(t, "TryComplete") /\ Top(t).op = Native
  BY <1>1, <1>2 DEF Seen, AtTop, At, Top, On
<1>5. ~(g.op = Native /\ g.at \in Claiming)
  BY <1>1, <1>2 DEF Seen, Claiming
<1>6. f.op = Native /\ f.at \in Claiming =>
         /\ f.at = "FinishComplete" /\ On(t, d, "TryComplete", Native) /\ f.err = F(t, d).err
         /\ lifecycle[Native] = "Started"
  <2>1. SUFFICES ASSUME f.op = Native, f.at \in Claiming
                 PROVE  /\ f.at = "FinishComplete" /\ On(t, d, "TryComplete", Native)
                        /\ f.err = F(t, d).err /\ lifecycle[Native] = "Started"
    OBVIOUS
  <2>2. f.at # "TryComplete"
    BY <1>1, <1>2, <2>1, NativeFacts DEF Seen
  <2> QED
    BY <1>1, <1>2, <2>1, <2>2 DEF Seen, Claiming, On
<1>7. \A err : Claims(Native, err)' => Claims(Native, err)
  <2>1. SUFFICES ASSUME NEW err, Claims(Native, err)' PROVE Claims(Native, err)
    OBVIOUS
  <2>2. \/ Claims(Native, err)
        \/ f.at \in Claiming /\ f.op = Native /\ f.err = err
        \/ g.at \in Claiming /\ g.op = Native /\ g.err = err
    BY <1>2, <2>1, ClaimedMoves DEF Claims, Claiming, Outside
  <2>3. On(t, d, "TryComplete", Native) => Claims(Native, F(t, d).err)
    BY DEF Claims, Claimed
  <2> QED
    BY <1>5, <1>6, <2>2, <2>3
<1>8. /\ Context("ComInvoke")' <=> Context("ComInvoke")
      /\ UNCHANGED <<state_, answer>>
  <2>1. "ComInvoke" # "none" /\ "ComInvoke" # f.at /\ "ComInvoke" # g.at /\ ~On(t, d, "ComInvoke", Proxy)
    BY <1>1, <1>2, ProxyPlaceFacts DEF Seen, ComPlaces, On
  <2> QED
    BY <1>2, <2>1, OneMoves DEF Outside, Context, com
<1>9. NativeTypes'
  BY <1>2, OutsideTypes
<1>10. EnterInv'
  BY <1>2, OutsideEnter
<1>11. EndsInv'
  BY <1>2, <1>8, OutsideEnds
<1>12. ReportInv'
  BY <1>2, <1>3, <1>7, OutsideReport
<1>13. QuietInv'
  BY ProceedQuiet
<1>14. SignalInv'
  BY <1>2, OutsideSignal
<1>15. StoreInv'
  BY <1>2, <1>3, <1>4, <1>5, <1>6, OutsideStore DEF ContextInv
<1> QED
  BY <1>9, <1>10, <1>11, <1>12, <1>13, <1>14, <1>15

\* A thread that was idle completes another operation, or cancels this one.
LEMMA NativeCalls ==
    ASSUME OpInv, ContextInv, NativeInv, NEW t \in Thread, NEW f, Moves(t, 1, f, NoFrame),
           F(t, 1) = NoFrame, F(t, 1 + 1) = NoFrame,
           \/ f.at = "TryComplete" /\ f.op # Native /\ f.err # "OperationCanceled"
           \/ f.at = "Cancel" /\ f.op = Native,
           handedOver' \subseteq handedOver, UNCHANGED <<lifecycle, cancelRequested, error_>>,
           UNCHANGED com, comAsyncOperationSPtr_' = comAsyncOperationSPtr_
    PROVE  NativeInv'
<1> USE DEF NativeInv
<1>1. UNCHANGED <<state_, answer, result_>> /\ 1 \in Nat
  BY DEF com
<1>2. NoFrame.at = "none" /\ F(t, 1).at = "none"
  BY NoFrameFacts
<1>3. Outside(t, 1, f, NoFrame)
  BY <1>1, <1>2 DEF Outside, ProxyPlaces, Unbegun, Starting
<1>4. \A o, err : Claims(o, err)' => Claims(o, err) \/ (o # Native /\ err # "OperationCanceled")
  <2>1. NoFrame.at \notin Claiming /\ (f.at \in Claiming => f.op # Native /\ f.err # "OperationCanceled")
    BY <1>2 DEF Claiming
  <2> QED
    BY <1>1, <2>1, ClaimsMove
<1>5. \A x \in ComPlaces \cup {"Cancel"} : \A o : o # Native => (One(x, o)' <=> One(x, o))
  <2>1. \A x \in ComPlaces \cup {"Cancel"} : x # "none" /\ x # "TryComplete"
    BY DEF ComPlaces
  <2>2. \A x \in ComPlaces : x # "Cancel"
    BY DEF ComPlaces
  <2>3. ASSUME NEW x \in ComPlaces \cup {"Cancel"}, NEW o, o # Native PROVE One(x, o)' <=> One(x, o)
    <3>1. x # "none" /\ ~(x = f.at /\ o = f.op) /\ x # NoFrame.at /\ ~On(t, 1, x, o)
      BY <1>2, <2>1, <2>2, <2>3 DEF On
    <3> QED
      BY <1>1, <3>1, OneMoves
  <2> QED
    BY <2>3
<1>6. /\ Context("ComTryComplete")' <=> Context("ComTryComplete")
      /\ Context("ComInvoke")' <=> Context("ComInvoke")
  BY <1>5, NativeFacts DEF Context, ComPlaces
<1>7. NativeTypes'
  <2>1. Native \notin handedOver'
    BY DEF NativeTypes
  <2> QED
    BY <1>1, <1>3, <2>1, OutsideTypes
<1>8. EnterInv'
  BY <1>1, <1>3, OutsideEnter
<1>9. EndsInv'
  BY <1>1, <1>3, <1>6, OutsideEnds
<1>10. ReportInv'
  BY <1>1, <1>3, <1>4, OutsideReport
<1>11. QuietInv'
  <2>1. \A o \in Op \ {Native} : Quiet(o) => Quiet(o)'
    BY <1>4, <1>5 DEF Quiet
  <2>2. ComCompletingOrCompleted' <=> ComCompletingOrCompleted
    BY <1>1 DEF ComCompletingOrCompleted
  <2>3. \A err : ComClaims(err)' => ComClaims(err)
    BY <1>1, <1>2, ComClaimsMove
  <2> QED
    BY <1>1, <1>6, <2>1, <2>2, <2>3 DEF QuietInv
<1>12. SignalInv'
  BY <1>1, <1>3, OutsideSignal
<1>13. StoreInv'
  <2>1. ~On(t, 1, "TryComplete", Native) /\ ~(NoFrame.op = Native /\ NoFrame.at \in Claiming)
        /\ ~(f.op = Native /\ f.at \in Claiming)
    BY <1>2 DEF On, Claiming
  <2>2. CompletingOrCompleted(Native) => CompletingOrCompleted(Native)'
    BY DEF CompletingOrCompleted
  <2> QED
    BY <1>1, <1>3, <2>1, <2>2, OutsideStore DEF ContextInv
<1> QED
  BY <1>7, <1>8, <1>9, <1>10, <1>11, <1>12, <1>13

LEMMA WorkDoneNative ==
    ASSUME OpInv, ContextInv, NativeInv, NEW t \in Thread, WorkDone(t), UNCHANGED com,
           comAsyncOperationSPtr_' = comAsyncOperationSPtr_
    PROVE  NativeInv'
<1>1. PICK op \in handedOver, e \in {"Success", "Failure"} :
        /\ stack' = [stack EXCEPT ![t] = <<[Frame("TryComplete", op) EXCEPT !.err = e]>>]
        /\ handedOver' = handedOver \ {op}
  BY DEF WorkDone
<1>2. op \in Op /\ op # Native /\ e \in Error /\ e # "OperationCanceled"
  BY <1>1 DEF OpInv, TypeInv, Error, NativeInv, NativeTypes
<1>3. PICK f \in Frames : /\ f = [Frame("TryComplete", op) EXCEPT !.err = e]
                          /\ f.at = "TryComplete" /\ f.op = op /\ f.err = e
  <2>1. "TryComplete" \in OwnPlaces
    BY DEF OwnPlaces
  <2> QED
    BY <1>2, <2>1, ErrorFrame
<1>4. stack[t] = <<>> /\ UNCHANGED <<lifecycle, cancelRequested, error_>>
  BY DEF WorkDone, word
<1>5. F(t, 1) = NoFrame /\ F(t, 1 + 1) = NoFrame /\ Moves(t, 1, f, NoFrame)
  <2>1. stack' = [stack EXCEPT ![t] = <<f>>]
    BY <1>1, <1>3
  <2>2. F(t, 1) = NoFrame /\ F(t, 2) = NoFrame /\ Moves(t, 1, f, NoFrame)
    BY <1>4, <2>1, BeginMoves DEF OpInv
  <2>3. 1 + 1 = 2
    OBVIOUS
  <2> QED
    BY <2>2, <2>3
<1>6. handedOver' \subseteq handedOver
  BY <1>1
<1> QED
  BY <1>2, <1>3, <1>4, <1>5, <1>6, NativeCalls

\* Only the native operation is known to those who cancel.
LEMMA CallCancelNative ==
    ASSUME OpInv, ContextInv, NativeInv, NEW t \in Thread, CallCancel(t), UNCHANGED com,
           comAsyncOperationSPtr_' = comAsyncOperationSPtr_
    PROVE  ContextInv' /\ NativeInv'
<1>1. PICK op \in Targets \cap (onStarted \cup Host), force \in BOOLEAN :
         stack' = [stack EXCEPT ![t] = <<[Frame("Cancel", op) EXCEPT !.force = force]>>]
  BY DEF CallCancel
<1>2. op = Native
  BY NativeFacts
<1>3. PICK f \in Frames : /\ f = [Frame("Cancel", op) EXCEPT !.force = force]
                          /\ f.at = "Cancel" /\ f.op = op
  <2> DEFINE f == [Frame("Cancel", op) EXCEPT !.force = force]
  <2>1. f \in Frames /\ f.at = "Cancel" /\ f.op = op
    BY <1>2, NativeFacts DEF Frame, Frames, Error, Places
  <2> HIDE DEF f
  <2>2. f = [Frame("Cancel", op) EXCEPT !.force = force]
    BY DEF f
  <2> QED
    BY <2>1, <2>2
<1>4. /\ stack[t] = <<>> /\ handedOver' \subseteq handedOver
      /\ UNCHANGED <<lifecycle, cancelRequested, error_, refused, asserts>>
  BY DEF CallCancel, OpInv, TypeInv, word, history
<1>5. F(t, 1) = NoFrame /\ F(t, 1 + 1) = NoFrame /\ Moves(t, 1, f, NoFrame)
  <2>1. stack' = [stack EXCEPT ![t] = <<f>>]
    BY <1>1, <1>3
  <2>2. F(t, 1) = NoFrame /\ F(t, 2) = NoFrame /\ Moves(t, 1, f, NoFrame)
    BY <1>4, <2>1, BeginMoves DEF OpInv
  <2>3. 1 + 1 = 2
    OBVIOUS
  <2> QED
    BY <2>2, <2>3
<1>6. f.at = "Cancel" /\ f.op = Native /\ f.op # Proxy
  BY <1>2, <1>3, NativeFacts
<1>7. ContextInv'
  BY <1>4, <1>5, <1>6, ComCallKeeps
<1>8. NativeInv'
  BY <1>4, <1>5, <1>6, NativeCalls
<1> QED
  BY <1>7, <1>8

-----------------------------------------------------------------------------
(***************************************************************************)
(* Steps of the context.                                                   *)
(***************************************************************************)
\* How such a step looks to the native operation.
ComSeen(t, at, d, f, g) ==
    /\ Moves(t, d, f, g) /\ F(t, d + 1) = NoFrame /\ F(t, d).at = at
    /\ \/ at = "Finish" /\ F(t, d).op = Inner /\ lifecycle[Inner] = "Completed"
       \/ at \in ComPlaces /\ at # "ComInvoke" /\ Context(at) /\ F(t, d).op = Proxy
    /\ f.at \in {"none", "Cancel", "ComAttach", "ComTryComplete", "ComFinishComplete", "ComCleanup",
                 "ComCleanupChild", "ComCancelChild", "ComCancelSelf"}
    /\ g.at \in {"none", "Cancel", "Begin", "ComInvoke"}
    /\ f.at # "none" => f.op = Proxy
    /\ g.at # "none" => g.op \in {Proxy, Inner}
    /\ g.at = "ComInvoke" => at = "ComFinishComplete" /\ g.op = Proxy
    /\ f.at = "Cancel" \/ g.at = "Cancel" => ComCompletingOrCompleted \/ state_.cancelRequested
    /\ f.at = "ComTryComplete" =>
          \/ at = "Finish" /\ f.err = error_[Inner] /\ lifecycle'[Inner] = "Ended"
          \/ state_.cancelRequested
    /\ f.at = "ComFinishComplete" => at = "ComTryComplete" /\ f.err = F(t, d).err

ComChanges(at, d, t) ==
    /\ UNCHANGED <<error_, cancelRequested, handedOver, answer>>
    /\ \A o \in Op : lifecycle'[o] = lifecycle[o] \/ (o = Inner /\ lifecycle'[o] = "Ended")
    /\ state_'.observed = state_.observed
    /\ state_'.cancelRequested <=> state_.cancelRequested \/ at = "ComCancel"
    /\ \/ at \notin {"ComStart", "ComFinishComplete"} /\ state_'.lifecycle = state_.lifecycle
       \/ at = "ComStart" /\ state_.lifecycle = "Created" /\ state_'.lifecycle = "Started"
       \/ at = "ComTryComplete" /\ state_.lifecycle = "Started" /\ state_'.lifecycle = "Completing"
       \/ /\ at = "ComFinishComplete" /\ Context("ComInvoke")'
          /\ state_.lifecycle = "Completing" /\ state_'.lifecycle = "Completed"
    /\ result_' = result_ \/ (at = "ComFinishComplete" /\ result_' = F(t, d).err)

ComSeenStep(t) ==
    \E at \in Places, d \in Nat, f \in Frames, g \in Frames :
        ComSeen(t, at, d, f, g) /\ ComChanges(at, d, t)

\* The steps that leave the life of the context alone.
LEMMA ComPlainSeen ==
    ASSUME OpInv, ContextInv, NEW t \in Thread,
           ComAttach(t) \/ ComCleanup(t) \/ ComCleanupChild(t) \/ ComCancel(t) \/ ComCancelChild(t)
           \/ ComCancelSelf(t)
    PROVE  ComSeenStep(t)
<1> USE DEF ContextInv
<1>1. PICK at \in {"ComAttach", "ComCleanup", "ComCleanupChild", "ComCancel", "ComCancelChild",
                   "ComCancelSelf"} : At(t, at)
  BY DEF ComAttach, ComCleanup, ComCleanupChild, ComCancel, ComCancelChild, ComCancelSelf
<1>2. at \in ComPlaces /\ at \in Places
  BY DEF ComPlaces, Places
<1>3. PICK d \in Nat : AtTop(t, d, at, Proxy) /\ Context(at)
  BY <1>1, <1>2, ComTop DEF OpInv
<1>4. /\ F(t, d + 1) = NoFrame /\ F(t, d).at = at /\ F(t, d).op = Proxy /\ NoFrame.at = "none"
      /\ NoFrame \in Frames
  BY <1>3, NoFrameFacts DEF AtTop
<1>5. PICK f \in Frames, g \in Frames :
        /\ Moves(t, d, f, g)
        /\ f.at \in {"none", "Cancel", "ComTryComplete", "ComCleanupChild", "ComCancelChild",
                     "ComCancelSelf"}
        /\ g.at \in {"none", "Cancel"} /\ (f.at # "none" => f.op = Proxy) /\ (g.at # "none" => g.op = Proxy)
        /\ f.at = "Cancel" \/ g.at = "Cancel" => ComCompletingOrCompleted \/ state_.cancelRequested
        /\ f.at = "ComTryComplete" => state_.cancelRequested
  <2>1. /\ \A x \in {"Cancel", "ComCleanupChild", "ComCancelChild", "ComCancelSelf"} :
              /\ Frame(x, Proxy) \in Frames /\ Frame(x, Proxy).at = x /\ Frame(x, Proxy).op = Proxy
        /\ Proxy \in Op
    <3>1. Proxy \in Op /\ {"Cancel", "ComCleanupChild", "ComCancelChild", "ComCancelSelf"} \subseteq Places
      BY InnerFacts DEF Places
    <3> QED
      BY <3>1, FrameFacts
  <2>2. CASE Return(t)
    <3>1. Moves(t, d, NoFrame, NoFrame)
      BY <1>3, <2>2, ReturnMoves DEF OpInv
    <3> QED
      BY <1>4, <3>1
  <2>3. CASE ComAttach(t) /\ ~Return(t)
    <3> DEFINE f == [Frame("Cancel", Proxy) EXCEPT !.force = TRUE]
    <3>1. f \in Frames /\ f.at = "Cancel" /\ f.op = Proxy
      BY <2>1 DEF Frame, Frames, Error, Places
    <3> HIDE DEF f
    <3>2. Goto(t, f) /\ (ComCompletingOrCompleted \/ state_.cancelRequested)
      BY <2>3 DEF ComAttach, f
    <3>3. Moves(t, d, f, NoFrame)
      BY <1>3, <3>1, <3>2, GotoMoves DEF OpInv
    <3> QED
      BY <1>4, <3>1, <3>2, <3>3
  <2>4. CASE /\ ComCleanup(t) \/ ComCancel(t) \/ (ComCancelChild(t) /\ ~child_)
             /\ ~Return(t)
    <3>1. PICK x \in {"ComCleanupChild", "ComCancelChild", "ComCancelSelf"} : Goto(t, Frame(x, Proxy))
      BY <2>4 DEF ComCleanup, ComCancel, ComCancelChild
    <3>2. Moves(t, d, Frame(x, Proxy), NoFrame)
      BY <1>3, <2>1, <3>1, GotoMoves DEF OpInv
    <3> QED
      BY <1>4, <2>1, <3>2
  <2>5. CASE ComCancelChild(t) /\ child_
    <3>1. Call(t, Frame("ComCancelSelf", Proxy), Frame("Cancel", Proxy))
      BY <2>5 DEF ComCancelChild
    <3>2. Moves(t, d, Frame("ComCancelSelf", Proxy), Frame("Cancel", Proxy))
      BY <1>3, <2>1, <3>1, CallMoves DEF OpInv
    <3>3. state_.cancelRequested
      <4>1. At(t, "ComCancelChild")
        BY <2>5 DEF ComCancelChild
      <4>2. at = "ComCancelChild"
        BY <1>1, <4>1 DEF At
      <4> QED
        BY <1>3, <4>2 DEF ReachInv
    <3> QED
      BY <2>1, <3>2, <3>3
  <2>6. CASE ComCancelSelf(t) /\ ~Return(t)
    <3> DEFINE f == [Frame("ComTryComplete", Proxy) EXCEPT !.err = "OperationCanceled"]
    <3>1. f \in Frames /\ f.at = "ComTryComplete" /\ f.op = Proxy
      BY <2>1 DEF Frame, Frames, Error, Places
    <3> HIDE DEF f
    <3>2. Goto(t, f)
      BY <2>6 DEF ComCancelSelf, f
    <3>3. Moves(t, d, f, NoFrame)
      BY <1>3, <3>1, <3>2, GotoMoves DEF OpInv
    <3>4. state_.cancelRequested
      <4>1. At(t, "ComCancelSelf")
        BY <2>6 DEF ComCancelSelf
      <4>2. at = "ComCancelSelf"
        BY <1>1, <4>1 DEF At
      <4> QED
        BY <1>3, <4>2 DEF ReachInv
    <3> QED
      BY <1>4, <3>1, <3>3, <3>4
  <2>7. ComCleanupChild(t) => Return(t)
    BY DEF ComCleanupChild
  <2> QED
    BY <2>2, <2>3, <2>4, <2>5, <2>6, <2>7
<1>6. ComChanges(at, d, t)
  <2>1. /\ UNCHANGED <<lifecycle, error_, cancelRequested, handedOver, answer, result_>>
    BY DEF ComAttach, ComCleanup, ComCleanupChild, ComCancel, ComCancelChild, ComCancelSelf, others,
           com, word
  <2>2. \/ state_' = state_ /\ (at = "ComCancel" => state_.cancelRequested)
        \/ at = "ComCancel" /\ state_' = [state_ EXCEPT !.cancelRequested = TRUE]
    BY <1>1 DEF ComAttach, ComCleanup, ComCleanupChild, ComCancel, ComCancelChild, ComCancelSelf, com, At
  <2> QED
    BY <2>1, <2>2 DEF ComChanges, ComTypeInv
<1>7. ComSeen(t, at, d, f, g)
  BY <1>1, <1>2, <1>3, <1>4, <1>5 DEF ComSeen
<1> QED
  BY <1>2, <1>6, <1>7 DEF ComSeenStep

LEMMA ComStartSeen ==
    ASSUME OpInv, ContextInv, NEW t \in Thread, ComStart(t)
    PROVE  ComSeenStep(t)
<1> USE DEF ContextInv
<1>1. /\ "ComStart" \in ComPlaces /\ "ComStart" \in Places /\ "ComAttach" \in ComPlaces
      /\ "Begin" \in OwnPlaces /\ At(t, "ComStart")
  BY DEF ComPlaces, Places, OwnPlaces, ComStart
<1>2. PICK d \in Nat : AtTop(t, d, "ComStart", Proxy) /\ Context("ComStart")
  BY <1>1, ComTop DEF OpInv
<1>3. F(t, d + 1) = NoFrame /\ F(t, d).at = "ComStart" /\ F(t, d).op = Proxy
  BY <1>2 DEF AtTop
<1>4. state_.lifecycle = "Created"
  BY <1>2 DEF AttachInv, Unbegun
<1>5. PICK f \in Frames : f = Frame("ComAttach", Proxy) /\ f.at = "ComAttach" /\ f.op = Proxy
  BY <1>1, ComFrame
<1>6. PICK g \in Frames : g = Frame("Begin", Inner) /\ g.at = "Begin" /\ g.op = Inner
  BY <1>1, InnerFacts, PlainFrame
<1>7. Moves(t, d, f, g)
  <2>1. Call(t, f, g)
    BY <1>5, <1>6 DEF ComStart, Inner
  <2> QED
    BY <1>2, <2>1, CallMoves DEF OpInv
<1>8. ComChanges("ComStart", d, t)
  <2>1. /\ UNCHANGED <<lifecycle, error_, cancelRequested, handedOver, answer, result_>>
        /\ state_' = [state_ EXCEPT !.lifecycle = "Started"]
    BY <1>4 DEF ComStart, ComTransition, others, word
  <2> QED
    BY <1>4, <2>1 DEF ComChanges, ComTypeInv
<1>9. ComSeen(t, "ComStart", d, f, g)
  BY <1>1, <1>2, <1>3, <1>5, <1>6, <1>7 DEF ComSeen
<1> QED
  BY <1>1, <1>8, <1>9 DEF ComSeenStep

LEMMA OnFinishSeen ==
    ASSUME OpInv, ContextInv, NEW t \in Thread, OnFinish(t)
    PROVE  ComSeenStep(t)
<1> USE DEF ContextInv
<1>1. PICK d \in Nat, op \in Op : AtTop(t, d, "Finish", op) /\ One("Finish", op)
  BY TopFacts DEF OnFinish, OpInv
<1>2. op = Inner /\ lifecycle[Inner] = "Completed" /\ error_[Inner] \in Error
  BY <1>1, InnerFacts DEF OnFinish, AtTop, OpInv, EndInv, TypeInv
<1>3. /\ lifecycle' = [lifecycle EXCEPT ![Inner] = "Ended"]
      /\ UNCHANGED <<cancelRequested, error_, handedOver>> /\ UNCHANGED <<state_, result_, answer>>
  BY <1>1, <1>2 DEF OnFinish, AtTop, Transition, com
<1>4. /\ lifecycle'[Inner] = "Ended"
      /\ \A o \in Op : o # Inner => lifecycle'[o] = lifecycle[o]
  BY <1>3, InnerFacts DEF OpInv, TypeInv
<1>5. "ComTryComplete" \in ComPlaces /\ "Finish" \in Places
  BY DEF ComPlaces, Places
<1>6. PICK f \in Frames : /\ f = [Frame("ComTryComplete", Proxy) EXCEPT !.err = error_[Inner]]
                          /\ f.at = "ComTryComplete" /\ f.op = Proxy /\ f.err = error_[Inner] /\ Foreign(f)
  BY <1>2, <1>5, ComErrorFrame
<1>7. Moves(t, d, f, NoFrame)
  <2>1. Goto(t, f)
    BY <1>1, <1>2, <1>6 DEF OnFinish, AtTop
  <2> QED
    BY <1>1, <2>1, GotoMoves DEF OpInv
<1>8. NoFrame \in Frames /\ NoFrame.at = "none" /\ F(t, d + 1) = NoFrame
      /\ F(t, d).at = "Finish" /\ F(t, d).op = Inner
  BY <1>1, <1>2, NoFrameFacts DEF AtTop
<1>9. ComChanges("Finish", d, t)
  BY <1>3, <1>4 DEF ComChanges
<1>10. ComSeen(t, "Finish", d, f, NoFrame)
  BY <1>2, <1>4, <1>6, <1>7, <1>8 DEF ComSeen
<1> QED
  BY <1>5, <1>8, <1>9, <1>10 DEF ComSeenStep

LEMMA ComTryCompleteSeen ==
    ASSUME OpInv, ContextInv, NEW t \in Thread, ComTryComplete(t)
    PROVE  ComSeenStep(t)
<1> USE DEF ContextInv
<1>1. "ComTryComplete" \in ComPlaces /\ "ComTryComplete" \in Places /\ At(t, "ComTryComplete")
  BY DEF ComPlaces, Places, ComTryComplete
<1>2. PICK d \in Nat : AtTop(t, d, "ComTryComplete", Proxy) /\ Context("ComTryComplete")
  BY <1>1, ComTop DEF OpInv
<1>3. /\ F(t, d + 1) = NoFrame /\ F(t, d).at = "ComTryComplete" /\ F(t, d).op = Proxy
      /\ F(t, d) = Top(t) /\ Top(t) \in Frames /\ NoFrame.at = "none" /\ NoFrame \in Frames
  BY <1>2, NoFrameFacts DEF AtTop
<1>4. UNCHANGED <<lifecycle, error_, cancelRequested, handedOver, answer, result_>>
  BY DEF ComTryComplete, others, word
<1>5. CASE state_.lifecycle = "Started"
  <2> DEFINE f == [Top(t) EXCEPT !.at = "ComFinishComplete"]
  <2>1. f \in Frames /\ f.at = "ComFinishComplete" /\ f.op = Proxy /\ f.err = F(t, d).err
    BY <1>3 DEF Frames, Places
  <2> HIDE DEF f
  <2>2. Goto(t, f) /\ state_' = [state_ EXCEPT !.lifecycle = "Completing"]
    BY <1>5 DEF ComTryComplete, f
  <2>3. Moves(t, d, f, NoFrame)
    BY <1>2, <2>1, <2>2, GotoMoves DEF OpInv
  <2>4. ComChanges("ComTryComplete", d, t)
    BY <1>4, <1>5, <2>2 DEF ComChanges, ComTypeInv
  <2>5. ComSeen(t, "ComTryComplete", d, f, NoFrame)
    BY <1>1, <1>2, <1>3, <2>1, <2>3 DEF ComSeen
  <2> QED
    BY <1>1, <1>3, <2>1, <2>4, <2>5 DEF ComSeenStep
<1>6. CASE state_.lifecycle # "Started"
  <2>1. Return(t) /\ state_' = state_
    BY <1>6 DEF ComTryComplete
  <2>2. Moves(t, d, NoFrame, NoFrame)
    BY <1>2, <2>1, ReturnMoves DEF OpInv
  <2>3. ComChanges("ComTryComplete", d, t)
    BY <1>4, <2>1 DEF ComChanges
  <2>4. ComSeen(t, "ComTryComplete", d, NoFrame, NoFrame)
    BY <1>1, <1>2, <1>3, <2>2 DEF ComSeen
  <2> QED
    BY <1>1, <1>3, <2>3, <2>4 DEF ComSeenStep
<1> QED
  BY <1>5, <1>6

LEMMA ComFinishCompleteSeen ==
    ASSUME OpInv, ContextInv, NEW t \in Thread, ComFinishComplete(t)
    PROVE  ComSeenStep(t)
<1> USE DEF ContextInv
<1>1. /\ "ComFinishComplete" \in ComPlaces /\ "ComCleanup" \in ComPlaces /\ "ComInvoke" \in ComPlaces
      /\ "ComFinishComplete" \in Places /\ At(t, "ComFinishComplete")
  BY DEF ComPlaces, Places, ComFinishComplete
<1>2. PICK d \in Nat : AtTop(t, d, "ComFinishComplete", Proxy) /\ Context("ComFinishComplete")
  BY <1>1, ComTop DEF OpInv
<1>3. /\ F(t, d + 1) = NoFrame /\ F(t, d).at = "ComFinishComplete" /\ F(t, d).op = Proxy
      /\ F(t, d) = Top(t)
  BY <1>2 DEF AtTop
<1>4. state_.lifecycle = "Completing"
  BY <1>2 DEF InvokeInv
<1>5. PICK f \in Frames : f = Frame("ComCleanup", Proxy) /\ f.at = "ComCleanup" /\ f.op = Proxy
  BY <1>1, ComFrame
<1>6. PICK g \in Frames : g = Frame("ComInvoke", Proxy) /\ g.at = "ComInvoke" /\ g.op = Proxy
  BY <1>1, ComFrame
<1>7. Moves(t, d, f, g)
  <2>1. Call(t, f, g)
    BY <1>5, <1>6 DEF ComFinishComplete
  <2> QED
    BY <1>2, <2>1, CallMoves DEF OpInv
<1>8. Context("ComInvoke")'
  BY <1>1, <1>3, <1>6, <1>7, ContextMoves
<1>9. ComChanges("ComFinishComplete", d, t)
  <2>1. /\ UNCHANGED <<lifecycle, error_, cancelRequested, handedOver, answer>>
        /\ state_' = [state_ EXCEPT !.lifecycle = "Completed"] /\ result_' = F(t, d).err
    BY <1>3, <1>4 DEF ComFinishComplete, ComTransition, others, word
  <2> QED
    BY <1>4, <1>8, <2>1 DEF ComChanges, ComTypeInv
<1>10. ComSeen(t, "ComFinishComplete", d, f, g)
  BY <1>1, <1>2, <1>3, <1>5, <1>6, <1>7 DEF ComSeen
<1> QED
  BY <1>1, <1>9, <1>10 DEF ComSeenStep

LEMMA ComSeenNative ==
    ASSUME OpInv, ContextInv, NativeInv, NEW t \in Thread, ComSeenStep(t),
           comAsyncOperationSPtr_' = comAsyncOperationSPtr_
    PROVE  NativeInv'
<1> USE DEF NativeInv
<1>1. PICK at \in Places, d \in Nat, f \in Frames, g \in Frames :
        ComSeen(t, at, d, f, g) /\ ComChanges(at, d, t)
  BY DEF ComSeenStep
<1>2. /\ Moves(t, d, f, g) /\ F(t, d + 1) = NoFrame /\ F(t, d).at = at
      /\ UNCHANGED <<error_, cancelRequested, handedOver, answer>>
      /\ lifecycle'[Native] = lifecycle[Native]
      /\ lifecycle[Inner] = "Ended" => lifecycle'[Inner] = "Ended"
  BY <1>1, NativeFacts, InnerFacts DEF ComSeen, ComChanges
<1>3. at \notin ProxyPlaces /\ f.at \notin ProxyPlaces /\ g.at \notin ProxyPlaces
      /\ f.at \notin Claiming /\ g.at \notin Claiming /\ at \notin Claiming
      /\ at \notin {"Cancel", "ComInvoke"} /\ f.at # "ComInvoke"
  BY <1>1 DEF ComSeen, ProxyPlaces, Claiming, ComPlaces
<1>4. f.op # Native \/ f.at = "none"
  BY <1>1, NativeFacts DEF ComSeen
<1>5. g.op # Native \/ g.at = "none"
  BY <1>1, NativeFacts DEF ComSeen
<1>6. \/ at # "ComStart" /\ (Unbegun' <=> Unbegun)
      \/ /\ On(t, d, "ComStart", Proxy) /\ ~Unbegun' /\ \A x \in {"ComStart"} : ~One(x, Proxy)'
         /\ state_'.lifecycle = "Started"
  <2>1. CASE at = "ComStart"
    <3>1. On(t, d, "ComStart", Proxy) /\ state_'.lifecycle = "Started"
      BY <1>1, <1>2, <2>1 DEF ComSeen, ComChanges, On
    <3>2. Unique({"ComStart"})
      BY UniquePart DEF ContextInv, AttachInv
    <3>3. f.at # "ComStart" /\ g.at # "ComStart"
      BY <1>1 DEF ComSeen
    <3>4. \A x \in {"ComStart"} : ~One(x, Proxy)'
      BY <1>2, <2>1, <3>1, <3>2, <3>3, UniqueGone DEF On
    <3> QED
      BY <3>1, <3>4 DEF Unbegun
  <2>2. CASE at # "ComStart"
    BY <1>1, <2>2 DEF ComChanges, Unbegun
  <2> QED
    BY <2>1, <2>2
<1>7. Outside(t, d, f, g)
  <2>1. "none" \notin Starting
    BY DEF Starting
  <2>2. f.at \notin {"ComStart", "ComCancel"} /\ g.at \notin {"ComStart", "ComCancel"}
    BY <1>1 DEF ComSeen
  <2>3. /\ state_'.observed = state_.observed
        /\ state_'.cancelRequested => state_.cancelRequested \/ Context("ComCancel")
    BY <1>1 DEF ComSeen, ComChanges
  <2>4. ~(f.at \in Starting /\ f.op = Native) /\ ~(g.at \in Starting /\ g.op = Native)
    BY <1>4, <1>5, <2>1
  <2> QED
    BY <1>2, <1>3, <1>6, <2>2, <2>3, <2>4 DEF Outside
<1>8. \A o, err : Claims(o, err)' => Claims(o, err)
  BY <1>2, <1>3, ClaimsMove
<1>9. NativeTypes'
  BY <1>2, <1>7, OutsideTypes DEF NativeTypes
<1>10. EnterInv'
  BY <1>7, OutsideEnter
<1>11. EndsInv'
  <2>1. /\ Context("ComInvoke") => Context("ComInvoke")'
        /\ Context("ComInvoke")' => Context("ComInvoke") \/ g.at = "ComInvoke"
    <3>1. "ComInvoke" # "none" /\ "ComInvoke" # f.at /\ ~On(t, d, "ComInvoke", Proxy)
      BY <1>2, <1>3 DEF On
    <3> QED
      BY <1>2, <3>1, OneMoves DEF Context
  <2>2. /\ state_'.lifecycle = "Ended" <=> state_.lifecycle = "Ended"
        /\ state_.lifecycle = "Completed" => state_'.lifecycle = "Completed"
        /\ state_'.lifecycle = "Completed" => state_.lifecycle = "Completed" \/ Context("ComInvoke")'
        /\ at = "ComFinishComplete" => state_.lifecycle \notin Over /\ state_'.lifecycle = "Completed"
    BY <1>1 DEF ComChanges, Over
  <2>3. g.at = "ComInvoke" => at = "ComFinishComplete"
    BY <1>1 DEF ComSeen
  <2> QED
    BY <1>7, <2>1, <2>2, <2>3, OutsideEnds
<1>12. ReportInv'
  BY <1>2, <1>7, <1>8, OutsideReport
<1>13. SignalInv'
  BY <1>7, OutsideSignal
<1>14. StoreInv'
  BY <1>2, <1>3, <1>7, OutsideStore DEF ContextInv, CompletingOrCompleted, Claiming, On
<1>15. QuietInv'
  <2>1. SUFFICES ASSUME ~state_'.cancelRequested PROVE QuietInv'
    BY DEF QuietInv
  <2>2. ~state_.cancelRequested
    BY <1>1, <2>1 DEF ComChanges
  <2>3. ASSUME NEW o \in Op, Quiet(o), ~ComCompletingOrCompleted PROVE Quiet(o)'
    <3>1. f.at # "Cancel" /\ g.at # "Cancel"
      BY <1>1, <2>2, <2>3 DEF ComSeen
    <3>2. ~One("Cancel", o)'
      BY <1>2, <2>3, <3>1, OneMoves DEF Quiet
    <3> QED
      BY <1>2, <1>8, <2>3, <3>2 DEF Quiet
  <2>4. ComCompletingOrCompleted => ComCompletingOrCompleted'
    BY <1>1 DEF ComChanges, ComCompletingOrCompleted
  <2>5. ~ComClaims("OperationCanceled")'
    <3>1. SUFFICES ASSUME ComClaims("OperationCanceled")' PROVE FALSE
      OBVIOUS
    <3>2. ~ComClaims("OperationCanceled") /\ g.at \notin {"ComTryComplete", "ComFinishComplete"}
      BY <1>1, <2>2 DEF QuietInv, ComSeen
    <3>3. f.at \in {"ComTryComplete", "ComFinishComplete"} /\ f.err = "OperationCanceled"
      BY <1>2, <3>1, <3>2, ComClaimsMove
    <3>4. CASE f.at = "ComTryComplete"
      <4>1. at = "Finish" /\ error_[Inner] = "OperationCanceled" /\ lifecycle[Inner] = "Completed"
        BY <1>1, <2>2, <3>3, <3>4 DEF ComSeen, ComPlaces
      <4>2. ~ComCompletingOrCompleted
        BY <2>2, <4>1 DEF QuietInv
      <4> QED
        BY <2>2, <4>1, <4>2, NativeFacts, InnerFacts DEF QuietInv, Quiet
    <3>5. CASE f.at = "ComFinishComplete"
      <4>1. at = "ComTryComplete" /\ F(t, d).err = "OperationCanceled" /\ F(t, d).op = Proxy
        BY <1>1, <3>3, <3>5 DEF ComSeen, ComPlaces
      <4>2. ComClaims("OperationCanceled")
        BY <1>2, <4>1 DEF ComClaims, Claimed, On
      <4> QED
        BY <3>2, <4>2
    <3> QED
      BY <3>3, <3>4, <3>5
  <2>6. result_' # "OperationCanceled"
    <3>1. CASE at = "ComFinishComplete" /\ result_' = F(t, d).err
      <4>1. On(t, d, "ComFinishComplete", Proxy)
        BY <1>1, <1>2, <3>1 DEF ComSeen, On
      <4>2. ComClaims(F(t, d).err)
        BY <4>1 DEF ComClaims, Claimed
      <4> QED
        BY <2>2, <3>1, <4>2 DEF QuietInv
    <3> QED
      BY <1>1, <2>2, <3>1 DEF ComChanges, QuietInv
  <2>7. ComCompletingOrCompleted' \/ Context("ComTryComplete")' => lifecycle'[Inner] = "Ended"
    <3>1. Context("ComTryComplete")' => Context("ComTryComplete") \/ f.at = "ComTryComplete"
      BY <1>1, <1>2, OneMoves DEF Context, ComSeen
    <3>2. f.at = "ComTryComplete" => lifecycle'[Inner] = "Ended"
      BY <1>1, <2>2 DEF ComSeen
    <3>3. ComCompletingOrCompleted' => ComCompletingOrCompleted \/ Context("ComTryComplete")
      BY <1>1 DEF ComChanges, ComSeen, ComCompletingOrCompleted
    <3> QED
      BY <1>2, <2>2, <3>1, <3>2, <3>3 DEF QuietInv
  <2> QED
    BY <2>2, <2>3, <2>4, <2>5, <2>6, <2>7 DEF QuietInv
<1> QED
  BY <1>9, <1>10, <1>11, <1>12, <1>13, <1>14, <1>15

-----------------------------------------------------------------------------
(***************************************************************************)
(* Steps of the native operation.                                          *)
(***************************************************************************)
\* What they put on a stack.
NativeFrame(f) ==
    /\ f.kids = {}
    /\ \/ f.at \notin OwnPlaces
       \/ f.op = Native /\ f.at \in {"StartReturns", "Cancel"}
       \/ f.op = Native /\ f.at \in Claiming /\ Justified(Native, f.err)

NativeStep(t, d, f, g) ==
    /\ Moves(t, d, f, g) /\ F(t, d + 1) = NoFrame /\ stack[t] # <<>> /\ fresh' = fresh
    /\ \/ F(t, d).at \notin OwnPlaces
       \/ F(t, d).op = Native /\ F(t, d).at \in {"OnStart", "CancelChildren"}
    /\ NativeFrame(f) /\ NativeFrame(g) /\ g.at # "FinishComplete"
    /\ lifecycle[Native] # "Created"
    /\ \/ lifecycle' = lifecycle /\ f.at # "FinishComplete"
       \/ lifecycle[Native] = "Started" /\ lifecycle' = [lifecycle EXCEPT ![Native] = "Completing"]
    /\ UNCHANGED <<observed, cancelRequested, error_, children_, childLock_, handedOver, refused>>
    /\ onStarted' \subseteq onStarted \cup {Native}
    /\ asserts' \cap {"TransitionStarted", "TransitionCompleted", "TransitionEnded"} = {}

LEMMA NativeKeeps ==
    ASSUME OpInv, ResultInv, NEW t \in Thread, NEW d \in Nat, NEW f, NEW g, NativeStep(t, d, f, g)
    PROVE  /\ OpInv' /\ ResultInv'
           /\ \A o \in Op : (Fresh(o)' <=> Fresh(o)) /\ (Young(o)' <=> Young(o))
           /\ One("Cancel", Proxy)' <=> One("Cancel", Proxy)
<1> USE DEF OpInv
<1>1. /\ UNCHANGED <<observed, cancelRequested, error_, children_, childLock_, handedOver, refused>>
      /\ Moves(t, d, f, g) /\ F(t, d + 1) = NoFrame
      /\ onStarted' \subseteq onStarted \cup {Native} /\ fresh' = fresh /\ stack[t] # <<>>
  BY DEF NativeStep
<1>2. /\ \A x \in OwnPlaces : \A o : On(t, d, x, o) => o = Native /\ x \in {"OnStart", "CancelChildren"}
      /\ f.at \in OwnPlaces => f.op = Native /\ f.at \in {"StartReturns", "Cancel"} \cup Claiming
      /\ g.at \in OwnPlaces => g.op = Native /\ g.at \in {"StartReturns", "Cancel", "TryComplete"}
      /\ f.kids = {} /\ g.kids = {}
  BY DEF NativeStep, NativeFrame, On, Claiming
<1>3. /\ lifecycle' \in [Op -> Phase] /\ \A o \in Op : o # Native => lifecycle'[o] = lifecycle[o]
      /\ lifecycle[Native] # "Created" /\ lifecycle'[Native] # "Created"
      /\ \/ lifecycle'[Native] = lifecycle[Native] /\ f.at # "FinishComplete"
         \/ lifecycle[Native] = "Started" /\ lifecycle'[Native] = "Completing"
  BY NativeFacts DEF NativeStep, TypeInv, Phase
<1>4. ASSUME NEW x \in OwnPlaces, NEW o
      PROVE  /\ One(x, o)' => One(x, o) \/ (o = Native /\ x \in {"StartReturns", "Cancel"} \cup Claiming)
             /\ One(x, o) => One(x, o)' \/ (o = Native /\ x \in {"OnStart", "CancelChildren"})
             /\ x = "FinishComplete" /\ One(x, o)' /\ ~One(x, o) => o = Native /\ f.at = "FinishComplete"
  <2>1. x # "none"
    BY DEF OwnPlaces
  <2>2. /\ One(x, o)' => One(x, o) \/ (x = f.at /\ o = f.op) \/ (x = g.at /\ o = g.op)
        /\ One(x, o) => One(x, o)' \/ On(t, d, x, o)
    BY <1>1, <2>1, OneMoves
  <2>3. /\ x = f.at => f.op = Native /\ x \in {"StartReturns", "Cancel"} \cup Claiming
        /\ x = g.at => g.op = Native /\ x \in {"StartReturns", "Cancel", "TryComplete"}
        /\ On(t, d, x, o) => o = Native /\ x \in {"OnStart", "CancelChildren"}
    BY <1>2
  <2> QED
    BY <2>2, <2>3 DEF Claiming
<1>5. /\ \A o : /\ One("Begin", o)' <=> One("Begin", o)
                /\ One("Start", o)' <=> One("Start", o)
                /\ One("Attach", o)' <=> One("Attach", o)
                /\ One("AttachPush", o)' <=> One("AttachPush", o)
                /\ One("Begun", o)' <=> One("Begun", o)
                /\ One("Callback", o)' <=> One("Callback", o)
                /\ One("Finish", o)' <=> One("Finish", o)
                /\ One("Cleanup", o)' <=> One("Cleanup", o)
                /\ One("Detach", o)' <=> One("Detach", o)
                /\ One("CancelCollect", o)' <=> One("CancelCollect", o)
  BY <1>4 DEF OwnPlaces, Claiming
<1>6. /\ \A o : /\ One("OnStart", o)' => One("OnStart", o)
                /\ One("CancelChildren", o)' => One("CancelChildren", o)
                /\ One("FinishComplete", o)' => One("FinishComplete", o) \/ (o = Native /\ f.at = "FinishComplete")
      /\ \A o : o # Native =>
                /\ One("CancelChildren", o)' <=> One("CancelChildren", o)
                /\ One("OnStart", o)' <=> One("OnStart", o)
                /\ One("TryComplete", o)' <=> One("TryComplete", o)
                /\ One("Cancel", o)' <=> One("Cancel", o)
  BY <1>4 DEF OwnPlaces, Claiming
<1>7. Unique(Starting)' /\ Unique({"Begun"})' /\ Unique({"Callback"})'
      /\ Unique({"Finish"})' /\ Unique({"CancelCollect", "CancelChildren"})'
  <2>1. /\ f.at \notin Starting \cup {"Begun", "Callback", "Finish", "CancelCollect", "CancelChildren"}
        /\ g.at \notin Starting \cup {"Begun", "Callback", "Finish", "CancelCollect", "CancelChildren"}
    BY <1>2 DEF OwnPlaces, Starting, Claiming
  <2>2. "none" \notin Starting
    BY DEF Starting
  <2>3. Unique(Starting)'
    BY <1>1, <2>1, <2>2, UniqueMoves DEF StartInv
  <2>4. Unique({"Begun"})' /\ Unique({"Callback"})' /\ Unique({"Finish"})'
    BY <1>1, <2>1, UniqueMoves DEF EndInv
  <2>5. Unique({"CancelCollect", "CancelChildren"})'
    BY <1>1, <2>1, UniqueMoves DEF CancelInv
  <2> QED
    BY <2>3, <2>4, <2>5
<1>8. Unique({"FinishComplete"})'
  <2>1. f.at = "FinishComplete" => f.op = Native /\ ~One("FinishComplete", Native)
    BY <1>2, <1>3, NativeFacts DEF EndInv, OwnPlaces
  <2>2. g.at # "FinishComplete"
    BY DEF NativeStep
  <2> QED
    BY <1>1, <2>1, <2>2, UniqueMoves DEF EndInv
<1>9. \A o \in Op : (Fresh(o)' <=> Fresh(o)) /\ (Young(o)' <=> Young(o)) /\ (Attaching(o)' <=> Attaching(o))
  BY <1>3, <1>5 DEF Fresh, Young, Attaching
<1>10. ~Young(Native)
  BY <1>3, NativeFacts DEF Young, StartInv
<1>11. TypeInv'
  <2>1. onStarted' \subseteq Op
    BY <1>1, NativeFacts DEF TypeInv
  <2> QED
    BY <1>1, <1>3, <2>1, TypesMove DEF TypeInv
<1>12. StartInv'
  <2>1. asserts' \cap {"TransitionStarted", "TransitionCompleted", "TransitionEnded"} = {}
    BY DEF NativeStep
  <2>2. \A o \in Host : o \in Op /\ o # Native
    BY NativeFacts, TreeFacts
  <2>3. \A o \in Op : lifecycle'[o] = "Created" <=> lifecycle[o] = "Created"
    BY <1>3
  <2>4. ASSUME NEW o \in Op, Attaching(o)' PROVE lifecycle'[o] = "Started" /\ HasParent(o)
    <3>1. lifecycle[o] = "Started" /\ HasParent(o)
      BY <1>9, <2>4 DEF StartInv
    <3> QED
      BY <1>3, <3>1, NativeFacts
  <2>5. \A o \in Host : lifecycle'[o] = "Created"
    BY <2>2, <2>3 DEF StartInv
  <2>6. \A o \in Op : /\ One("Begin", o)' \/ One("Start", o)' => lifecycle'[o] = "Created" /\ o \notin Host
                      /\ One("OnStart", o)' => lifecycle'[o] # "Created"
    BY <1>5, <1>6, <2>3 DEF StartInv
  <2> QED
    BY <1>7, <2>1, <2>4, <2>5, <2>6 DEF StartInv
<1>13. BegunInv'
  <2>1. f.at # "Begun" /\ g.at # "Begun"
    BY <1>2 DEF OwnPlaces, Claiming
  <2>2. \A o \in Op \ (Op \ {Native}) : lifecycle'[o] # "Created"
    BY <1>3
  <2>3. \A o \in (Op \ {Native}) \cap Op : lifecycle'[o] = lifecycle[o] /\ ~On(t, d, "Start", o)
    BY <1>2, <1>3 DEF OwnPlaces
  <2> QED
    BY <1>1, <2>1, <2>2, <2>3, BegunMoves
<1>14. EndInv'
  <2>1. ASSUME NEW o \in Op
        PROVE  /\ One("FinishComplete", o)' => lifecycle'[o] = "Completing"
               /\ One("Callback", o)' =>
                     lifecycle'[o] = "Completed" \/ (lifecycle'[o] = "Ended" /\ ~observed'[o])
               /\ One("Begun", o)' /\ ~observed'[o] => lifecycle'[o] # "Ended"
               /\ One("Finish", o)' =>
                     /\ lifecycle'[o] = "Completed"
                     /\ observed'[o] => ~One("Callback", o)'
                     /\ ~observed'[o] => ~One("Begun", o)'
    <3>1. CASE lifecycle'[o] = lifecycle[o] /\ ~(o = Native /\ f.at = "FinishComplete")
      BY <1>1, <1>5, <1>6, <3>1 DEF EndInv
    <3>2. CASE o = Native /\ lifecycle[o] = "Started" /\ lifecycle'[o] = "Completing"
      BY <1>1, <1>5, <1>6, <3>2 DEF EndInv
    <3> QED
      BY <1>3, <3>1, <3>2
  <2> QED
    BY <1>7, <1>8, <2>1 DEF EndInv
<1>15. OrderInv'
  <2>1. \A p \in Op \ Host, c \in Op : IsChild(c, p) => p # Native /\ c # Native
    BY NativeFacts
  <2>2. \A p \in Op \ Host, c \in Op : IsChild(c, p) /\ (Young(p)' \/ One("OnStart", p)') => Fresh(c)'
    BY <1>6, <1>9 DEF OrderInv
  <2>3. ASSUME NEW p \in Op, NEW i \in DOMAIN Steps[p], NEW j \in DOMAIN Steps[p],
               i < j, ~Fresh(Steps[p][j])'
        PROVE  \/ lifecycle'[Steps[p][i]] = "Ended" /\ error_'[Steps[p][i]] = "Success"
               \/ p \in Host /\ Fresh(Steps[p][i])'
    <3>1. /\ Steps[p][i] \in Op /\ Steps[p][j] \in Op
          /\ IsChild(Steps[p][i], p) /\ IsChild(Steps[p][j], p)
      BY TreeFacts DEF IsChild
    <3>2. Steps[p][i] # Native
      BY <3>1, NativeFacts
    <3> QED
      BY <1>1, <1>3, <1>9, <2>3, <3>1, <3>2 DEF OrderInv
  <2> QED
    BY <2>2, <2>3 DEF OrderInv
<1>16. YoungInv'
  <2>1. \A o : Held(o)' => Held(o)
    BY <1>1, <1>2, HeldMoves
  <2>2. ASSUME NEW o \in Op \ Host, Young(o)'
        PROVE  /\ o \notin onStarted' /\ o \notin handedOver' /\ ~cancelRequested'[o]
               /\ ~One("Cancel", o)' /\ ~One("CancelCollect", o)' /\ ~One("CancelChildren", o)'
               /\ ~One("TryComplete", o)' /\ ~Held(o)'
               /\ \A p \in Op : o \notin children_'[p]
    <3>1. Young(o) /\ o # Native
      BY <1>9, <1>10, <2>2
    <3> QED
      BY <1>1, <1>5, <1>6, <2>1, <3>1 DEF YoungInv
  <2> QED
    BY <1>1, <2>1, <2>2 DEF YoungInv
<1>17. LockInv'
  BY <1>1, <1>5 DEF LockInv, Free
<1>18. \A p \in Op : Adding(p)' <=> Adding(p)
  BY <1>1, <1>5 DEF Adding
<1>19. CancelInv'
  <2>1. ASSUME NEW p \in Op, NEW c \in Op, IsChild(c, p), Attached(c)', ~cancelRequested'[c]
        PROVE  c \in children_'[p] \/ Pursued(p, c)'
    <3>1. c # Native /\ p # Native
      BY <2>1, NativeFacts
    <3>2. Attached(c) /\ ~cancelRequested[c]
      BY <1>1, <1>3, <1>9, <2>1, <3>1 DEF Attached
    <3>3. ~On(t, d, "CancelChildren", p) /\ ~On(t, d, "Cancel", c)
      BY <1>2, <3>1 DEF OwnPlaces
    <3>4. Pursued(p, c) => Pursued(p, c)'
      BY <1>1, <3>3, PursuedMoves
    <3> QED
      BY <1>1, <2>1, <3>2, <3>4 DEF CancelInv
  <2>2. \A p \in Op :
          /\ One("CancelCollect", p)' \/ One("CancelChildren", p)' => cancelRequested'[p]
          /\ cancelRequested'[p] /\ Adding(p)' => One("CancelCollect", p)'
    BY <1>1, <1>5, <1>6, <1>18 DEF CancelInv
  <2> QED
    BY <1>7, <2>1, <2>2 DEF CancelInv
<1>20. CompleteInv'
  <2>1. ASSUME NEW p \in Op \ Host, One("TryComplete", p)' \/ CompletingOrCompleted(p)'
        PROVE  MayComplete(p)'
    <3>1. CASE p = Native
      BY <3>1, NativeFacts DEF MayComplete
    <3>2. CASE p # Native
      <4>1. One("TryComplete", p) \/ CompletingOrCompleted(p)
        BY <1>3, <1>6, <2>1, <3>2 DEF CompletingOrCompleted
      <4>2. MayComplete(p)
        BY <4>1 DEF CompleteInv
      <4>3. \A c \in Op : IsChild(c, p) => c # Native
        BY NativeFacts
      <4> QED
        BY <1>1, <1>3, <1>5, <1>6, <1>9, <3>2, <4>2, <4>3 DEF MayComplete
    <3> QED
      BY <3>1, <3>2
  <2> QED
    BY <2>1 DEF CompleteInv
<1>21. ListInv'
  <2>1. \A o \in Op : lifecycle'[o] \in Over => lifecycle[o] \in Over
    BY <1>3 DEF Over
  <2>2. ASSUME NEW p \in Op, One("Cleanup", p)' \/ One("Detach", p)' PROVE lifecycle'[p] \in Over
    <3>1. lifecycle[p] \in Over
      BY <1>5, <2>2 DEF ListInv
    <3> QED
      BY <1>3, <3>1 DEF Over
  <2> QED
    BY <1>1, <1>5, <1>18, <2>1, <2>2 DEF ListInv
<1>22. ResultInv'
  <2>1. ASSUME NEW o \in Op \ Host, NEW e \in Error, Claims(o, e)' PROVE Claims(o, e) \/ Justified(o, e)'
    <3>1. \/ Claims(o, e)
          \/ f.at \in Claiming /\ o = f.op /\ e = f.err
          \/ g.at \in Claiming /\ o = g.op /\ e = g.err
      BY <1>1, <2>1, ClaimsMove
    <3>2. "TryComplete" \in OwnPlaces /\ "FinishComplete" \in OwnPlaces
      BY DEF OwnPlaces
    <3>3. CASE f.at \in Claiming /\ o = f.op /\ e = f.err
      <4>1. o = Native /\ Justified(Native, e)
        BY <3>2, <3>3 DEF NativeStep, NativeFrame, Claiming
      <4> QED
        BY <1>1, <4>1, NativeFacts DEF Justified
    <3>4. CASE g.at \in Claiming /\ o = g.op /\ e = g.err
      <4>1. o = Native /\ Justified(Native, e)
        BY <3>2, <3>4 DEF NativeStep, NativeFrame, Claiming
      <4> QED
        BY <1>1, <4>1, NativeFacts DEF Justified
    <3> QED
      BY <3>1, <3>3, <3>4
  <2>2. \A o \in Op : lifecycle'[o] \in Over => lifecycle[o] \in Over
    BY <1>3 DEF Over
  <2>3. \A o \in Op : lifecycle[o] = "Ended" => lifecycle'[o] = "Ended"
    BY <1>3
  <2> QED
    BY <1>1, <2>1, <2>2, <2>3, ResultMoves
<1>23. One("Cancel", Proxy)' <=> One("Cancel", Proxy)
  BY <1>6, NativeFacts
<1> QED
  BY <1>9, <1>11, <1>12, <1>13, <1>14, <1>15, <1>16, <1>17, <1>19, <1>20, <1>21, <1>22, <1>23

\* A step from one of the places of the native operation, or of the callback it gives.
NativeSeen(t, at, d, f, g) ==
    /\ NativeStep(t, d, f, g) /\ F(t, d).at = at /\ d = Len(stack[t])
    /\ at \in ProxyPlaces \cup {"OnStart", "CancelChildren", "ComInvoke"}
    /\ F(t, d).op = IF at = "ComInvoke" THEN Proxy ELSE Native
    /\ f.at \in ProxyPlaces => f.op = Native
    /\ g.at \in ProxyPlaces => g.op = Native
    /\ f.at \in ComPlaces => f.at = "ComCancel" /\ f.op = Proxy
    /\ g.at \in ComPlaces => g.at = "ComStart" /\ g.op = Proxy

LEMMA ProxyFrame ==
    ASSUME NEW at \in ProxyPlaces \cup {"StartReturns", "Cancel"}
    PROVE  \E f \in Frames : f = Frame(at, Native) /\ f.at = at /\ f.op = Native /\ NativeFrame(f)
<1>1. at \in Places /\ Native \in Op /\ (at \in OwnPlaces => at \in {"StartReturns", "Cancel"})
  BY NativeFacts, ProxyPlaceFacts DEF Places, OwnPlaces, ProxyPlaces
<1> DEFINE f == Frame(at, Native)
<1>2. f \in Frames /\ f.at = at /\ f.op = Native /\ f.kids = {}
  BY <1>1, FrameFacts
<1> HIDE DEF f
<1>3. f = Frame(at, Native)
  BY DEF f
<1> QED
  BY <1>1, <1>2, <1>3 DEF NativeFrame

LEMMA ProxyErrorFrame ==
    ASSUME NEW at \in Claiming, NEW e \in Error, Justified(Native, e)
    PROVE  \E f \in Frames : /\ f = [Frame(at, Native) EXCEPT !.err = e] /\ f.at = at /\ f.op = Native
                             /\ f.err = e /\ NativeFrame(f)
<1>1. at \in Places /\ Native \in Op
  BY NativeFacts DEF Places, Claiming
<1> DEFINE f == [Frame(at, Native) EXCEPT !.err = e]
<1>2. f \in Frames /\ f.at = at /\ f.op = Native /\ f.err = e /\ f.kids = {}
  BY <1>1 DEF Frame, Frames
<1> HIDE DEF f
<1>3. f = [Frame(at, Native) EXCEPT !.err = e]
  BY DEF f
<1> QED
  BY <1>2, <1>3 DEF NativeFrame

LEMMA NoNativeFrame == NativeFrame(NoFrame) /\ NoFrame.at = "none" /\ "none" \notin ProxyPlaces \cup ComPlaces
BY NoFrameFacts, ProxyPlaceFacts DEF NativeFrame

LEMMA NativeTop ==
    ASSUME OpInv, NativeTypes, NEW t \in Thread,
           NEW at \in ProxyPlaces \cup {"OnStart", "CancelChildren"}, At(t, at),
           at \in {"OnStart", "CancelChildren"} => Top(t).op = Native
    PROVE  \E d \in Nat : AtTop(t, d, at, Native) /\ One(at, Native) /\ lifecycle[Native] # "Created"
<1> USE DEF OpInv
<1>1. PICK d \in Nat, op \in Op : AtTop(t, d, at, op) /\ One(at, op)
  BY TopFacts
<1>2. F(t, d) = Top(t) /\ Top(t).at = at /\ Top(t).op = op
  BY <1>1 DEF AtTop
<1>3. CASE at \in ProxyPlaces
  <2>1. op = Native /\ lifecycle[Native] # "Created"
    BY <1>2, <1>3 DEF NativeTypes
  <2> QED
    BY <1>1, <2>1
<1>4. CASE at \in {"OnStart", "CancelChildren"}
  <2>1. op = Native
    BY <1>2, <1>4
  <2>2. ~Young(Native) \/ at = "OnStart"
    BY <1>1, <1>4, <2>1, NativeFacts DEF YoungInv
  <2>3. at = "OnStart" => lifecycle[Native] # "Created"
    BY <1>1, <2>1, NativeFacts DEF StartInv
  <2> QED
    BY <1>1, <2>1, <2>2, <2>3 DEF Young
<1> QED
  BY <1>3, <1>4

\* A step that leaves the context alone.
LEMMA NativeContext ==
    ASSUME OpInv, ResultInv, ContextInv, NEW t \in Thread, NEW at, NEW d \in Nat, NEW f, NEW g,
           NativeSeen(t, at, d, f, g), at # "ComInvoke", g.at \notin ComPlaces,
           f.at = "ComCancel" => ~Unbegun, UNCHANGED com, asserts' = asserts
    PROVE  ContextInv'
<1>1. /\ Moves(t, d, f, g) /\ F(t, d + 1) = NoFrame /\ F(t, d).at = at /\ d = Len(stack[t])
      /\ UNCHANGED <<error_, cancelRequested, refused>> /\ NativeStep(t, d, f, g)
      /\ f.kids = {}
      /\ \A o \in Op : o # Native => lifecycle'[o] = lifecycle[o]
  BY DEF NativeSeen, NativeStep, NativeFrame, OpInv, TypeInv
<1>2. at \notin ComPlaces /\ at \notin {"Begin", "Start", "Attach", "AttachPush"}
      /\ (f.at \in ComPlaces => f.at = "ComCancel" /\ f.op = Proxy)
  BY ProxyPlaceFacts DEF NativeSeen, ComPlaces, ProxyPlaces
<1>3. /\ Fresh(Inner)' <=> Fresh(Inner)
      /\ Young(Inner)' <=> Young(Inner)
      /\ One("Cancel", Proxy)' <=> One("Cancel", Proxy)
  BY <1>1, NativeKeeps, InnerFacts
<1>4. lifecycle'[Inner] = lifecycle[Inner]
  BY <1>1, InnerFacts, NativeFacts
<1>5. /\ Unbegun => Fresh(Inner)'
      /\ Inner \notin refused' /\ asserts' \subseteq asserts \cup {"attach"}
  BY <1>1, <1>3 DEF ContextInv, AttachInv
<1>6. Young(Inner)' =>
         \/ Unbegun
         \/ \E u \in Thread, k \in Nat : On(u, k, "ComAttach", Proxy)' /\ Beginning(u, k + 1)'
  <2>1. F(t, d).at # "ComAttach" /\ F(t, d).at \notin {"Begin", "Start", "Attach", "AttachPush"}
    BY <1>1, <1>2 DEF ComPlaces
  <2>2. SUFFICES ASSUME Young(Inner), ~Unbegun
                 PROVE  \E u \in Thread, k \in Nat : On(u, k, "ComAttach", Proxy)' /\ Beginning(u, k + 1)'
    BY <1>3
  <2>3. PICK u \in Thread, k \in Nat : On(u, k, "ComAttach", Proxy) /\ Beginning(u, k + 1)
    BY <2>2 DEF ContextInv, AttachInv
  <2> QED
    BY <1>1, <2>1, <2>3, BeginningMoves
<1>7. /\ CompletingOrCompleted(Inner) => CompletingOrCompleted(Inner)'
      /\ F(t, Len(stack[t])).at # "ComInvoke"
  BY <1>1, <1>2, <1>4 DEF CompletingOrCompleted, ComPlaces
<1> QED
  BY <1>1, <1>2, <1>3, <1>4, <1>5, <1>6, <1>7, OperationsKeep

-----------------------------------------------------------------------------
(***************************************************************************)
(* What such a step has to do to keep the parts of the invariant.          *)
(***************************************************************************)
LEMMA NativeSeenPlaces ==
    ASSUME NEW t \in Thread, NEW at, NEW d \in Nat, NEW f, NEW g, NativeSeen(t, at, d, f, g)
    PROVE  /\ \A x \in ProxyPlaces :
                 /\ One(x, Native)' => One(x, Native) \/ x = f.at \/ x = g.at
                 /\ x = f.at \/ x = g.at => One(x, Native)'
                 /\ One(x, Native) => One(x, Native)' \/ x = at
           /\ \A x \in ComPlaces :
                 /\ Context(x)' => Context(x) \/ x = f.at \/ x = g.at
                 /\ x = f.at \/ x = g.at => Context(x)'
                 /\ Context(x) => Context(x)' \/ x = at
           /\ NativeStarting' => NativeStarting
           /\ Failed /\ (Unbegun => Unbegun') /\ g.at # "ComStart" => Failed'
<1>1. /\ Moves(t, d, f, g) /\ F(t, d + 1) = NoFrame /\ F(t, d).at = at
      /\ NativeFrame(f) /\ NativeFrame(g)
  BY DEF NativeSeen, NativeStep
<1>2. \A x \in ProxyPlaces \cup ComPlaces \cup Starting : x # "none"
  BY ProxyPlaceFacts DEF Starting
<1>3. ASSUME NEW x \in ProxyPlaces
      PROVE  /\ One(x, Native)' => One(x, Native) \/ x = f.at \/ x = g.at
             /\ x = f.at \/ x = g.at => One(x, Native)'
             /\ One(x, Native) => One(x, Native)' \/ x = at
  <2>1. /\ One(x, Native)' => One(x, Native) \/ (x = f.at /\ Native = f.op) \/ (x = g.at /\ Native = g.op)
        /\ x = f.at /\ Native = f.op => One(x, Native)'
        /\ x = g.at /\ Native = g.op => One(x, Native)'
        /\ One(x, Native) => One(x, Native)' \/ On(t, d, x, Native)
    BY <1>1, <1>2, OneMoves
  <2> QED
    BY <1>1, <2>1 DEF NativeSeen, On
<1>4. ASSUME NEW x \in ComPlaces
      PROVE  /\ Context(x)' => Context(x) \/ x = f.at \/ x = g.at
             /\ x = f.at \/ x = g.at => Context(x)'
             /\ Context(x) => Context(x)' \/ x = at
  <2>1. /\ Context(x)' => Context(x) \/ (x = f.at /\ Proxy = f.op) \/ (x = g.at /\ Proxy = g.op)
        /\ x = f.at /\ Proxy = f.op => Context(x)'
        /\ x = g.at /\ Proxy = g.op => Context(x)'
        /\ Context(x) => Context(x)' \/ On(t, d, x, Proxy)
    BY <1>1, ContextMoves
  <2> QED
    BY <1>1, <2>1 DEF NativeSeen, On
<1>5. NativeStarting' => NativeStarting
  <2>1. ASSUME NEW x \in Starting, One(x, Native)' PROVE One(x, Native)
    <3>1. x # f.at /\ x # g.at
      BY <1>1 DEF NativeFrame, Starting, OwnPlaces, Claiming
    <3>2. x # "none"
      BY <1>2
    <3> QED
      BY <1>1, <2>1, <3>1, <3>2, OneMoves
  <2> QED
    BY <2>1 DEF NativeStarting
<1>6. Failed /\ (Unbegun => Unbegun') /\ g.at # "ComStart" => Failed'
  <2>1. "ComStart" \in ComPlaces /\ f.at # "ComStart"
    BY DEF ComPlaces, NativeSeen
  <2> QED
    BY <1>4, <1>5, <2>1 DEF Failed
<1> QED
  BY <1>3, <1>4, <1>5, <1>6

LEMMA NativeTypesKeep ==
    ASSUME OpInv, NativeTypes, NEW t \in Thread, NEW at, NEW d \in Nat, NEW f, NEW g,
           NativeSeen(t, at, d, f, g), comAsyncOperationSPtr_' \in BOOLEAN
    PROVE  NativeTypes'
<1>1. /\ Moves(t, d, f, g) /\ f.kids = {} /\ g.kids = {} /\ handedOver' = handedOver
      /\ lifecycle[Native] # "Created"
      /\ f.at \in ProxyPlaces => f.op = Native
      /\ g.at \in ProxyPlaces => g.op = Native
  BY DEF NativeSeen, NativeStep, NativeFrame
<1>2. lifecycle'[Native] # "Created"
  BY <1>1, NativeFacts DEF NativeSeen, NativeStep, OpInv, TypeInv
<1>3. ASSUME NEW u \in Thread, NEW k \in Nat, F(u, k)'.at \in ProxyPlaces
      PROVE  F(u, k)'.op = Native /\ F(u, k)'.kids = {}
  BY <1>1, <1>3 DEF Moves, NativeTypes
<1> QED
  BY <1>1, <1>2, <1>3 DEF NativeTypes

LEMMA NativeSignal ==
    ASSUME SignalInv, NEW t \in Thread, NEW at, NEW d \in Nat, NEW f, NEW g,
           NativeSeen(t, at, d, f, g), state_'.cancelRequested => state_.cancelRequested,
           f.at \in {"ProxyOnCancel", "ComCancel"} => cancelRequested[Native],
           g.at \in {"ProxyOnCancel", "ComCancel"} => cancelRequested[Native]
    PROVE  SignalInv'
<1>1. cancelRequested' = cancelRequested
  BY DEF NativeSeen, NativeStep
<1>2. /\ One("ProxyOnCancel", Native)' =>
            One("ProxyOnCancel", Native) \/ f.at = "ProxyOnCancel" \/ g.at = "ProxyOnCancel"
      /\ Context("ComCancel")' => Context("ComCancel") \/ f.at = "ComCancel" \/ g.at = "ComCancel"
  BY NativeSeenPlaces DEF ProxyPlaces, ComPlaces
<1> QED
  BY <1>1, <1>2 DEF SignalInv

LEMMA NativeQuiet ==
    ASSUME OpInv, QuietInv, NEW t \in Thread, NEW at, NEW d \in Nat, NEW f, NEW g,
           NativeSeen(t, at, d, f, g), state_'.cancelRequested = state_.cancelRequested,
           ComCompletingOrCompleted' <=> ComCompletingOrCompleted, result_' = result_
    PROVE  QuietInv'
<1>1. /\ Moves(t, d, f, g) /\ F(t, d + 1) = NoFrame /\ UNCHANGED <<cancelRequested, error_>>
      /\ \A o \in Op : o # Native => lifecycle'[o] = lifecycle[o]
      /\ f.at \in Claiming \cup {"Cancel"} => f.op = Native
      /\ g.at \in Claiming \cup {"Cancel"} => g.op = Native
  BY DEF NativeSeen, NativeStep, NativeFrame, OpInv, TypeInv, OwnPlaces, Claiming
<1>2. ASSUME NEW o \in Op \ {Native}, Quiet(o) PROVE Quiet(o)'
  <2>1. ~One("Cancel", o)'
    <3>1. "Cancel" # "none" /\ ~("Cancel" = f.at /\ o = f.op) /\ ~("Cancel" = g.at /\ o = g.op)
      BY <1>1
    <3> QED
      BY <1>1, <1>2, <3>1, OneMoves DEF Quiet
  <2>2. ~Claims(o, "OperationCanceled")'
    BY <1>1, <1>2, ClaimsMove DEF Quiet
  <2> QED
    BY <1>1, <1>2, <2>1, <2>2 DEF Quiet
<1>3. ~ComClaims("OperationCanceled") => ~ComClaims("OperationCanceled")'
  <2>1. f.at \notin {"ComTryComplete", "ComFinishComplete"}
        /\ g.at \notin {"ComTryComplete", "ComFinishComplete"}
    BY DEF NativeSeen, ComPlaces
  <2> QED
    BY <1>1, <2>1, ComClaimsMove
<1>4. Context("ComTryComplete")' => Context("ComTryComplete")
  <2>1. "ComTryComplete" \in ComPlaces /\ f.at # "ComTryComplete" /\ g.at # "ComTryComplete"
    BY DEF NativeSeen, ComPlaces
  <2> QED
    BY <2>1, NativeSeenPlaces
<1>5. lifecycle'[Inner] = lifecycle[Inner]
  BY <1>1, InnerFacts, NativeFacts
<1> QED
  BY <1>2, <1>3, <1>4, <1>5 DEF QuietInv

LEMMA NativeReport ==
    ASSUME OpInv, ReportInv, NEW t \in Thread, NEW at, NEW d \in Nat, NEW f, NEW g,
           NativeSeen(t, at, d, f, g), Failed => Failed', answer' = answer \/ answer = "none",
           f.at \in Claiming => NativeJustified(f.err)',
           g.at \in Claiming => NativeJustified(g.err)'
    PROVE  ReportInv'
<1>1. /\ Moves(t, d, f, g) /\ UNCHANGED <<cancelRequested, error_>>
      /\ lifecycle'[Native] \in Over => lifecycle[Native] \in Over
      /\ error_[Native] \in Error
  BY NativeFacts DEF NativeSeen, NativeStep, OpInv, TypeInv, Over
<1>2. \A err \in Error : NativeJustified(err) => NativeJustified(err)'
  <2>1. "none" \notin Error
    BY DEF Error
  <2> QED
    BY <1>1, <2>1 DEF NativeJustified
<1>3. ASSUME NEW err \in Error, Claims(Native, err)' PROVE NativeJustified(err)'
  <2>1. \/ Claims(Native, err)
        \/ f.at \in Claiming /\ err = f.err
        \/ g.at \in Claiming /\ err = g.err
    BY <1>1, <1>3, ClaimsMove
  <2>2. Claims(Native, err) => NativeJustified(err)
    BY DEF ReportInv
  <2> QED
    BY <1>2, <2>1, <2>2
<1> QED
  BY <1>1, <1>2, <1>3 DEF ReportInv

LEMMA NativeEnter ==
    ASSUME OpInv, EnterInv, NEW t \in Thread, NEW at, NEW d \in Nat, NEW f, NEW g,
           NativeSeen(t, at, d, f, g),
           f.at \notin {"ProxyBegun", "ProxyStore"}, g.at \notin {"ProxyBegun", "ProxyStore", "ComStart"},
           at # "ProxyBegun", comAsyncOperationSPtr_' => comAsyncOperationSPtr_,
           f.at = "ComCancel" => ~Entering,
           state_'.cancelRequested = state_.cancelRequested, Unbegun' <=> Unbegun
    PROVE  EnterInv'
<1>1. /\ Moves(t, d, f, g) /\ F(t, d + 1) = NoFrame /\ F(t, d).at = at
      /\ f.at \in ComPlaces => f.at = "ComCancel"
  BY DEF NativeSeen, NativeStep
<1>2. /\ One("ProxyBegun", Native)' <=> One("ProxyBegun", Native)
      /\ One("ProxyStore", Native)' => One("ProxyStore", Native)
      /\ NativeStarting' => NativeStarting
      /\ Context("ComStart")' => Context("ComStart")
      /\ Context("ComCancel")' => Context("ComCancel") \/ f.at = "ComCancel" \/ g.at = "ComCancel"
  <2>1. {"ProxyBegun", "ProxyStore"} \subseteq ProxyPlaces /\ {"ComStart", "ComCancel"} \subseteq ComPlaces
    BY DEF ProxyPlaces, ComPlaces
  <2>2. f.at # "ComStart"
    BY <1>1, <2>1
  <2> QED
    BY <2>1, <2>2, NativeSeenPlaces
<1>3. Unique({"ProxyBegun", "ProxyStore"})'
  BY <1>1, UniqueMoves DEF EnterInv
<1>4. Entering' => Entering
  BY <1>2 DEF Entering
<1>5. ASSUME NEW u \in Thread, NEW k \in Nat, On(u, k, "ProxyBegun", Native)', Unbegun'
      PROVE  On(u, k + 1, "ComStart", Proxy)'
  <2>1. d + 1 \in Nat /\ k + 1 \in Nat
    OBVIOUS
  <2>2. ~(u = t /\ (k = d \/ k = d + 1))
    BY <1>1, <1>5, <2>1 DEF Moves, On
  <2>3. On(u, k, "ProxyBegun", Native)
    BY <1>1, <1>5, <2>2 DEF Moves, On
  <2>4. On(u, k + 1, "ComStart", Proxy)
    BY <1>5, <2>3 DEF EnterInv
  <2>5. at # "ComStart" /\ NoFrame.at # "ComStart"
    BY ProxyPlaceFacts, NoFrameFacts DEF NativeSeen, ComPlaces, ProxyPlaces
  <2>6. ~(u = t /\ (k + 1 = d \/ k + 1 = d + 1))
    BY <1>1, <2>4, <2>5 DEF On
  <2>7. F(u, k + 1)' = F(u, k + 1)
    BY <1>1, <2>1, <2>6 DEF Moves
  <2> QED
    BY <2>4, <2>7 DEF On
<1>6. g.at # "ComCancel"
  BY DEF NativeSeen, ComPlaces
<1>7. NativeStarting' => Unbegun' /\ ~Context("ComStart")'
  BY <1>2 DEF EnterInv
<1>8. One("ProxyBegun", Native)' \/ One("ProxyStore", Native)' => ~NativeStarting'
  BY <1>2 DEF EnterInv
<1>9. Context("ComStart")' => One("ProxyBegun", Native)'
  BY <1>2 DEF EnterInv
<1>10. comAsyncOperationSPtr_' \/ One("ProxyStore", Native)' => ~Unbegun'
  BY <1>2 DEF EnterInv
<1>11. Entering' => ~comAsyncOperationSPtr_' /\ ~state_'.cancelRequested /\ ~Context("ComCancel")'
  BY <1>2, <1>4, <1>6 DEF EnterInv
<1>12. lifecycle'[Native] # "Created"
  BY NativeFacts DEF NativeSeen, NativeStep, OpInv, TypeInv
<1> QED
  BY <1>3, <1>5, <1>7, <1>8, <1>9, <1>10, <1>11, <1>12 DEF EnterInv

LEMMA NativeEnds ==
    ASSUME EndsInv, NEW t \in Thread, NEW at, NEW d \in Nat, NEW f, NEW g,
           NativeSeen(t, at, d, f, g),
           at \notin {"ProxyBegun", "ProxyFinish", "ComInvoke"},
           f.at \notin {"ProxyBegun", "ProxyFinish"}, g.at \notin {"ProxyBegun", "ProxyFinish"},
           state_' = state_, answer' = answer
    PROVE  EndsInv'
<1>1. /\ One("ProxyBegun", Native)' <=> One("ProxyBegun", Native)
      /\ One("ProxyFinish", Native)' <=> One("ProxyFinish", Native)
      /\ Context("ComInvoke")' <=> Context("ComInvoke")
      /\ NativeStarting' => NativeStarting
  <2>1. {"ProxyBegun", "ProxyFinish"} \subseteq ProxyPlaces /\ "ComInvoke" \in ComPlaces
    BY DEF ProxyPlaces, ComPlaces
  <2>2. f.at # "ComInvoke" /\ g.at # "ComInvoke"
    BY <2>1 DEF NativeSeen
  <2> QED
    BY <2>1, <2>2, NativeSeenPlaces
<1>2. Unique({"ProxyFinish"})'
  BY UniqueMoves DEF EndsInv, NativeSeen, NativeStep
<1> QED
  BY <1>1, <1>2 DEF EndsInv, Unbegun

LEMMA NativeStore ==
    ASSUME OpInv, StoreInv, NEW t \in Thread, NEW at, NEW d \in Nat, NEW f, NEW g,
           NativeSeen(t, at, d, f, g),
           \/ answer' = answer
           \/ f.at = "ProxyCleanup" /\ f.op = Native /\ g.at = "TryComplete" /\ g.op = Native,
           answer' # "none" /\ comAsyncOperationSPtr_' => One("ProxyCleanup", Native)' \/ Overtaken',
           Failed => Failed',
           f.at \in Claiming => f.err = "OperationCanceled",
           g.at \in Claiming /\ g.err # "OperationCanceled" =>
              Failed' \/ (f.at = "ProxyCleanup" /\ f.op = Native)
    PROVE  StoreInv'
<1>1. /\ Moves(t, d, f, g) /\ F(t, d + 1) = NoFrame /\ F(t, d).at = at
      /\ lifecycle'[Native] = "Started" => lifecycle[Native] = "Started"
  BY NativeFacts DEF NativeSeen, NativeStep, OpInv, TypeInv
<1>2. at \notin Claiming /\ NoFrame.at = "none"
  BY NoFrameFacts DEF NativeSeen, ProxyPlaces, Claiming
<1>0. ASSUME f.at = "ProxyCleanup" /\ f.op = Native /\ g.at = "TryComplete" /\ g.op = Native
      PROVE  \E u \in Thread, k \in Nat :
                On(u, k, "ProxyCleanup", Native)' /\ On(u, k + 1, "TryComplete", Native)'
  <2>1. F(t, d)' = f /\ F(t, d + 1)' = g /\ d + 1 \in Nat
    BY <1>1 DEF Moves
  <2>2. On(t, d, "ProxyCleanup", Native)' /\ On(t, d + 1, "TryComplete", Native)'
    BY <1>0, <2>1 DEF On
  <2> QED
    BY <2>2
<1>3. ASSUME answer' # "none", lifecycle'[Native] = "Started",
             ~(f.at = "ProxyCleanup" /\ f.op = Native /\ g.at = "TryComplete" /\ g.op = Native)
      PROVE  \E u \in Thread, k \in Nat :
                On(u, k, "ProxyCleanup", Native)' /\ On(u, k + 1, "TryComplete", Native)'
  <2>1. PICK u \in Thread, k \in Nat : On(u, k, "ProxyCleanup", Native) /\ On(u, k + 1, "TryComplete", Native)
    BY <1>1, <1>3 DEF StoreInv
  <2>2. k + 1 \in Nat /\ d + 1 \in Nat
    OBVIOUS
  <2>3. ~(u = t /\ (k + 1 = d \/ k + 1 = d + 1))
    BY <1>1, <1>2, <2>1 DEF On, Claiming
  <2>4. ~(u = t /\ (k = d \/ k = d + 1))
    BY <1>1, <1>2, <2>1, <2>3 DEF On
  <2>5. F(u, k)' = F(u, k) /\ F(u, k + 1)' = F(u, k + 1)
    BY <1>1, <2>2, <2>3, <2>4 DEF Moves
  <2> QED
    BY <2>1, <2>5 DEF On
<1>4. ASSUME NEW u \in Thread, NEW k \in Nat, F(u, k + 1)'.op = Native, F(u, k + 1)'.at \in Claiming,
             F(u, k + 1)'.err # "OperationCanceled"
      PROVE  Failed' \/ On(u, k, "ProxyCleanup", Native)'
  <2>1. k + 1 \in Nat /\ d + 1 \in Nat /\ k # k + 1 /\ d # d + 1 /\ (k + 1 = d + 1 => k = d)
    OBVIOUS
  <2>2. CASE u = t /\ k + 1 = d
    <3>1. F(u, k + 1)' = f
      BY <1>1, <2>1, <2>2 DEF Moves
    <3> QED
      BY <1>4, <3>1
  <2>3. CASE u = t /\ k + 1 = d + 1
    <3>1. F(u, k + 1)' = g /\ F(u, k)' = f
      BY <1>1, <2>1, <2>3 DEF Moves
    <3> QED
      BY <1>4, <3>1 DEF On
  <2>4. CASE ~(u = t /\ (k + 1 = d \/ k + 1 = d + 1))
    <3>1. F(u, k + 1)' = F(u, k + 1)
      BY <1>1, <2>1, <2>4 DEF Moves
    <3>2. Failed \/ On(u, k, "ProxyCleanup", Native)
      BY <1>4, <3>1 DEF StoreInv, Claiming
    <3>3. On(u, k, "ProxyCleanup", Native) => ~(u = t /\ (k = d \/ k = d + 1))
      BY <1>1, <1>2, <2>4, <2>1 DEF On
    <3> QED
      BY <1>1, <3>2, <3>3 DEF Moves, On
  <2> QED
    BY <2>2, <2>3, <2>4
<1> QED
  BY <1>0, <1>3, <1>4 DEF StoreInv, Claiming

LEMMA NativeOvertaken ==
    ASSUME OpInv, NEW t \in Thread, NEW at, NEW d \in Nat, NEW f, NEW g,
           NativeSeen(t, at, d, f, g), answer' = answer, Overtaken
    PROVE  Overtaken'
<1>1. /\ Moves(t, d, f, g) /\ error_' = error_ /\ lifecycle[Native] # "Started"
      /\ f.at # "FinishComplete" /\ g.at # "FinishComplete" /\ lifecycle' = lifecycle
  BY DEF NativeSeen, NativeStep, Overtaken, CompletingOrCompleted
<1>2. ~Claimed("FinishComplete", Native, answer)'
  BY <1>1, ClaimedMoves DEF Overtaken
<1> QED
  BY <1>1, <1>2 DEF Overtaken, CompletingOrCompleted

-----------------------------------------------------------------------------
(***************************************************************************)
(* The steps of the native operation, one by one.                          *)
(***************************************************************************)
ProxyInv == OpInv /\ ResultInv /\ ContextInv /\ NativeInv

\* Those that leave the context alone, and do not put it in comAsyncOperationSPtr_.
LEMMA NativePlain ==
    ASSUME ProxyInv, NEW t \in Thread, NEW at, NEW d \in Nat, NEW f, NEW g,
           NativeSeen(t, at, d, f, g), UNCHANGED com, asserts' = asserts,
           at \notin {"ProxyBegun", "ProxyFinish", "ComInvoke"},
           f.at \notin {"ProxyBegun", "ProxyStore", "ProxyFinish", "TryComplete"},
           g.at \notin {"ProxyBegun", "ProxyStore", "ProxyFinish", "ComStart", "ComCancel"},
           comAsyncOperationSPtr_' \in {comAsyncOperationSPtr_, FALSE},
           at = "ProxyCleanup" => ~comAsyncOperationSPtr_',
           f.at \in {"ProxyOnCancel", "ComCancel"} => cancelRequested[Native],
           g.at = "ProxyOnCancel" => cancelRequested[Native],
           f.at = "ComCancel" => comAsyncOperationSPtr_,
           f.at = "FinishComplete" => f.err = "OperationCanceled" /\ cancelRequested[Native],
           g.at = "TryComplete" => g.err = "Failure" /\ Failed'
    PROVE  ProxyInv'
<1> USE DEF ProxyInv, NativeInv
<1>1. /\ state_' = state_ /\ answer' = answer /\ result_' = result_
      /\ (Unbegun' <=> Unbegun) /\ (ComCompletingOrCompleted' <=> ComCompletingOrCompleted)
      /\ cancelRequested' = cancelRequested
  BY DEF com, Unbegun, ComCompletingOrCompleted, NativeSeen, NativeStep
<1>2. NativeStep(t, d, f, g) /\ g.at # "FinishComplete"
  BY DEF NativeSeen, NativeStep
<1>3. g.at \notin ComPlaces
  BY DEF NativeSeen
<1>4. /\ f.at = "ComCancel" => ~Unbegun /\ ~Entering
      /\ comAsyncOperationSPtr_ \in BOOLEAN
  BY DEF EnterInv, NativeTypes
<1>5. OpInv' /\ ResultInv'
  BY <1>2, NativeKeeps
<1>6. ContextInv'
  BY <1>3, <1>4, NativeContext
<1>7. NativeTypes'
  BY <1>4, NativeTypesKeep
<1>8. EnterInv'
  <2>1. comAsyncOperationSPtr_' => comAsyncOperationSPtr_
    BY <1>4
  <2> QED
    BY <1>1, <1>4, <2>1, NativeEnter
<1>9. EndsInv'
  BY <1>1, NativeEnds
<1>10. Failed => Failed'
  BY <1>1, NativeSeenPlaces
<1>11. ReportInv'
  BY <1>1, <1>2, <1>10, NativeReport DEF NativeJustified, Claiming
<1>12. QuietInv'
  BY <1>1, NativeQuiet
<1>13. SignalInv'
  BY <1>1, NativeSignal
<1>14. StoreInv'
  <2>1. answer # "none" /\ comAsyncOperationSPtr_' => One("ProxyCleanup", Native)' \/ Overtaken'
    <3>1. SUFFICES ASSUME answer # "none", comAsyncOperationSPtr_' PROVE One("ProxyCleanup", Native)' \/ Overtaken'
      OBVIOUS
    <3>2. at # "ProxyCleanup" /\ (One("ProxyCleanup", Native) \/ Overtaken)
      BY <3>1 DEF StoreInv
    <3>3. Overtaken => Overtaken'
      BY <1>1, NativeOvertaken
    <3>4. "ProxyCleanup" \in ProxyPlaces
      BY DEF ProxyPlaces
    <3> QED
      BY <3>2, <3>3, <3>4, NativeSeenPlaces
  <2>2. /\ f.at \in Claiming => f.err = "OperationCanceled"
        /\ g.at \in Claiming /\ g.err # "OperationCanceled" => Failed'
    BY <1>2 DEF Claiming
  <2> QED
    BY <1>1, <1>10, <2>1, <2>2, NativeStore
<1> QED
  BY <1>5, <1>6, <1>7, <1>8, <1>9, <1>11, <1>12, <1>13, <1>14

LEMMA ProxyBeginFailsKeeps ==
    ASSUME ProxyInv, NEW t \in Thread, ProxyBeginFails(t)
    PROVE  ProxyInv'
<1> USE DEF ProxyInv, NativeInv
<1>1. PICK d \in Nat : AtTop(t, d, "OnStart", Native) /\ One("OnStart", Native) /\ lifecycle[Native] # "Created"
  BY NativeTop DEF ProxyBeginFails
<1>2. Justified(Native, "Failure") /\ "Failure" \in Error /\ "TryComplete" \in Claiming
  BY DEF Justified, Error, Claiming
<1>3. PICK f \in Frames : f = Frame("ProxyNeverInvoked", Native) /\ f.at = "ProxyNeverInvoked"
                          /\ f.op = Native /\ NativeFrame(f)
  BY ProxyFrame DEF ProxyPlaces
<1>4. PICK g \in Frames : /\ g = [Frame("TryComplete", Native) EXCEPT !.err = "Failure"]
                          /\ g.at = "TryComplete" /\ g.op = Native /\ g.err = "Failure" /\ NativeFrame(g)
  BY <1>2, ProxyErrorFrame
<1>5. Call(t, f, g) /\ onStarted' = onStarted \cup {Native}
      /\ UNCHANGED <<word, native, fresh, asserts, com, comAsyncOperationSPtr_>>
  BY <1>3, <1>4 DEF ProxyBeginFails
<1>6. Moves(t, d, f, g)
  BY <1>1, <1>5, CallMoves DEF OpInv
<1>7. F(t, d + 1) = NoFrame /\ F(t, d).at = "OnStart" /\ F(t, d).op = Native /\ d = Len(stack[t]) /\ stack[t] # <<>>
  BY <1>1 DEF AtTop
<1>8. asserts \cap {"TransitionStarted", "TransitionCompleted", "TransitionEnded"} = {}
  BY DEF OpInv, StartInv
<1>9. NativeSeen(t, "OnStart", d, f, g)
  BY <1>1, <1>3, <1>4, <1>5, <1>6, <1>7, <1>8 DEF NativeSeen, NativeStep, word, native, tree, ComPlaces, ProxyPlaces
\* Native was being started, so that the context has not been begun.
<1>10. Failed'
  <2>1. NativeStarting
    BY <1>1 DEF NativeStarting, Starting
  <2>2. ~NativeStarting'
    <3>1. Unique(Starting) /\ "none" \notin Starting /\ F(t, d).at \in Starting /\ f.at \notin Starting
          /\ g.at \notin Starting
      BY <1>3, <1>4, <1>7 DEF OpInv, StartInv, Starting
    <3>2. \A x \in Starting : ~One(x, Native)'
      BY <1>6, <1>7, <3>1, UniqueGone
    <3> QED
      BY <3>2 DEF NativeStarting
  <2>3. ~Context("ComStart")'
    <3>1. "ComStart" \in ComPlaces /\ f.at # "ComStart" /\ g.at # "ComStart"
      BY <1>3, <1>4 DEF ComPlaces
    <3> QED
      BY <1>9, <2>1, <3>1, NativeSeenPlaces DEF EnterInv
  <2>4. Unbegun'
    BY <1>5, <2>1 DEF EnterInv, com, Unbegun
  <2> QED
    BY <2>2, <2>3, <2>4 DEF Failed
<1>11. /\ UNCHANGED com /\ asserts' = asserts
       /\ comAsyncOperationSPtr_' \in {comAsyncOperationSPtr_, FALSE}
       /\ f.at = "ProxyNeverInvoked" /\ g.at = "TryComplete" /\ g.err = "Failure"
  BY <1>3, <1>4, <1>5
<1> QED
  BY <1>9, <1>10, <1>11, NativePlain

LEMMA ProxyNeverInvokedKeeps ==
    ASSUME ProxyInv, NEW t \in Thread, ProxyNeverInvoked(t)
    PROVE  ProxyInv'
<1> USE DEF ProxyInv, NativeInv
<1>1. PICK d \in Nat : AtTop(t, d, "ProxyNeverInvoked", Native) /\ lifecycle[Native] # "Created"
  BY NativeTop DEF ProxyNeverInvoked, ProxyPlaces
<1>2. PICK f \in Frames : f = Frame("StartReturns", Native) /\ f.at = "StartReturns"
                          /\ f.op = Native /\ NativeFrame(f)
  BY ProxyFrame
<1>3. PICK g \in Frames : g = Frame("Cancel", Native) /\ g.at = "Cancel"
                          /\ g.op = Native /\ NativeFrame(g)
  BY ProxyFrame
<1>4. Call(t, f, g) /\ UNCHANGED <<word, native, fresh, onStarted, asserts, com, comAsyncOperationSPtr_>>
  BY <1>2, <1>3 DEF ProxyNeverInvoked
<1>5. Moves(t, d, f, g)
  BY <1>1, <1>4, CallMoves DEF OpInv
<1>6. F(t, d + 1) = NoFrame /\ F(t, d).at = "ProxyNeverInvoked" /\ F(t, d).op = Native /\ d = Len(stack[t])
      /\ stack[t] # <<>>
  BY <1>1 DEF AtTop
<1>7. asserts \cap {"TransitionStarted", "TransitionCompleted", "TransitionEnded"} = {}
  BY DEF OpInv, StartInv
<1>8. NativeSeen(t, "ProxyNeverInvoked", d, f, g)
  BY <1>1, <1>2, <1>3, <1>4, <1>5, <1>6, <1>7
     DEF NativeSeen, NativeStep, word, native, tree, ComPlaces, ProxyPlaces, OwnPlaces
<1> QED
  BY <1>2, <1>3, <1>4, <1>8, NativePlain

LEMMA ProxyCleanupKeeps ==
    ASSUME ProxyInv, NEW t \in Thread, ProxyCleanup(t)
    PROVE  ProxyInv'
<1> USE DEF ProxyInv, NativeInv
<1>1. PICK d \in Nat : AtTop(t, d, "ProxyCleanup", Native) /\ lifecycle[Native] # "Created"
  BY NativeTop DEF ProxyCleanup, ProxyPlaces
<1>2. Return(t) /\ ~comAsyncOperationSPtr_' /\ comAsyncOperationSPtr_' = FALSE
      /\ UNCHANGED <<word, native, fresh, onStarted, asserts, com>>
  BY DEF ProxyCleanup
<1>3. Moves(t, d, NoFrame, NoFrame)
  BY <1>1, <1>2, ReturnMoves DEF OpInv
<1>4. F(t, d + 1) = NoFrame /\ F(t, d).at = "ProxyCleanup" /\ F(t, d).op = Native /\ d = Len(stack[t])
      /\ stack[t] # <<>>
  BY <1>1 DEF AtTop
<1>5. asserts \cap {"TransitionStarted", "TransitionCompleted", "TransitionEnded"} = {}
  BY DEF OpInv, StartInv
<1>6. NativeSeen(t, "ProxyCleanup", d, NoFrame, NoFrame)
  BY <1>1, <1>2, <1>3, <1>4, <1>5, NoNativeFrame
     DEF NativeSeen, NativeStep, word, native, tree, ProxyPlaces, OwnPlaces
<1> QED
  BY <1>2, <1>6, NoNativeFrame, NativePlain

LEMMA ProxyCancelSignalsKeeps ==
    ASSUME ProxyInv, NEW t \in Thread, ProxyCancelSignals(t)
    PROVE  ProxyInv'
<1> USE DEF ProxyInv, NativeInv
<1>1. PICK d \in Nat : /\ AtTop(t, d, "CancelChildren", Native) /\ One("CancelChildren", Native)
                       /\ lifecycle[Native] # "Created"
  BY NativeTop DEF ProxyCancelSignals
<1>2. PICK f \in Frames : f = Frame("ProxyOnCancel", Native) /\ f.at = "ProxyOnCancel"
                          /\ f.op = Native /\ NativeFrame(f)
  BY ProxyFrame DEF ProxyPlaces
<1>3. Goto(t, f) /\ UNCHANGED <<word, native, fresh, onStarted, asserts, com, comAsyncOperationSPtr_>>
  BY <1>2 DEF ProxyCancelSignals
<1>4. Moves(t, d, f, NoFrame)
  BY <1>1, <1>3, GotoMoves DEF OpInv
<1>5. F(t, d + 1) = NoFrame /\ F(t, d).at = "CancelChildren" /\ F(t, d).op = Native /\ d = Len(stack[t])
      /\ stack[t] # <<>>
  BY <1>1 DEF AtTop
<1>6. /\ asserts \cap {"TransitionStarted", "TransitionCompleted", "TransitionEnded"} = {}
      /\ cancelRequested[Native]
  BY <1>1, NativeFacts DEF OpInv, StartInv, CancelInv
<1>7. NativeSeen(t, "CancelChildren", d, f, NoFrame)
  BY <1>1, <1>2, <1>3, <1>4, <1>5, <1>6, NoNativeFrame
     DEF NativeSeen, NativeStep, word, native, tree, ComPlaces, ProxyPlaces
<1> QED
  BY <1>2, <1>3, <1>6, <1>7, NoNativeFrame, NativePlain

LEMMA ProxyCancelCompletesKeeps ==
    ASSUME ProxyInv, NEW t \in Thread, ProxyCancelCompletes(t)
    PROVE  ProxyInv'
<1> USE DEF ProxyInv, NativeInv
<1>1. PICK d \in Nat : /\ AtTop(t, d, "CancelChildren", Native) /\ One("CancelChildren", Native)
                       /\ lifecycle[Native] # "Created"
  BY NativeTop DEF ProxyCancelCompletes
<1>2. F(t, d + 1) = NoFrame /\ F(t, d).at = "CancelChildren" /\ F(t, d).op = Native /\ d = Len(stack[t])
      /\ stack[t] # <<>>
  BY <1>1 DEF AtTop
<1>3. /\ asserts \cap {"TransitionStarted", "TransitionCompleted", "TransitionEnded"} = {}
      /\ cancelRequested[Native]
  BY <1>1, NativeFacts DEF OpInv, StartInv, CancelInv
<1>4. Justified(Native, "OperationCanceled") /\ "OperationCanceled" \in Error /\ "FinishComplete" \in Claiming
  BY <1>3 DEF Justified, Error, Claiming
<1>5. UNCHANGED <<observed, cancelRequested, native, fresh, onStarted, asserts, com, comAsyncOperationSPtr_>>
  BY DEF ProxyCancelCompletes
<1>6. CASE lifecycle[Native] = "Started"
  <2>1. PICK f \in Frames : /\ f = [Frame("FinishComplete", Native) EXCEPT !.err = "OperationCanceled"]
                            /\ f.at = "FinishComplete" /\ f.op = Native /\ f.err = "OperationCanceled"
                            /\ NativeFrame(f)
    BY <1>4, ProxyErrorFrame
  <2>2. PICK g \in Frames : g = Frame("ProxyOnCancel", Native) /\ g.at = "ProxyOnCancel"
                            /\ g.op = Native /\ NativeFrame(g)
    BY ProxyFrame DEF ProxyPlaces
  <2>3. Call(t, f, g) /\ lifecycle' = [lifecycle EXCEPT ![Native] = "Completing"]
    BY <1>6, <2>1, <2>2 DEF ProxyCancelCompletes
  <2>4. Moves(t, d, f, g)
    BY <1>1, <2>3, CallMoves DEF OpInv
  <2>5. NativeSeen(t, "CancelChildren", d, f, g)
    BY <1>1, <1>2, <1>3, <1>5, <1>6, <2>1, <2>2, <2>3, <2>4
       DEF NativeSeen, NativeStep, native, tree, ComPlaces, ProxyPlaces
  <2>6. /\ UNCHANGED com /\ asserts' = asserts
        /\ comAsyncOperationSPtr_' \in {comAsyncOperationSPtr_, FALSE}
        /\ f.at = "FinishComplete" /\ f.err = "OperationCanceled" /\ g.at = "ProxyOnCancel"
    BY <1>5, <2>1, <2>2
  <2> QED
    BY <1>3, <2>5, <2>6, NativePlain
<1>7. CASE lifecycle[Native] # "Started"
  <2>1. Return(t) /\ lifecycle' = lifecycle
    BY <1>7 DEF ProxyCancelCompletes
  <2>2. Moves(t, d, NoFrame, NoFrame)
    BY <1>1, <2>1, ReturnMoves DEF OpInv
  <2>3. NativeSeen(t, "CancelChildren", d, NoFrame, NoFrame)
    BY <1>1, <1>2, <1>3, <1>5, <2>1, <2>2, NoNativeFrame DEF NativeSeen, NativeStep, native, tree
  <2> QED
    BY <1>5, <2>3, NoNativeFrame, NativePlain
<1> QED
  BY <1>6, <1>7

LEMMA ProxyOnCancelKeeps ==
    ASSUME ProxyInv, NEW t \in Thread, ProxyOnCancel(t)
    PROVE  ProxyInv'
<1> USE DEF ProxyInv, NativeInv
<1>1. PICK d \in Nat : /\ AtTop(t, d, "ProxyOnCancel", Native) /\ One("ProxyOnCancel", Native)
                       /\ lifecycle[Native] # "Created"
  BY NativeTop DEF ProxyOnCancel, ProxyPlaces
<1>2. F(t, d + 1) = NoFrame /\ F(t, d).at = "ProxyOnCancel" /\ F(t, d).op = Native /\ d = Len(stack[t])
      /\ stack[t] # <<>>
  BY <1>1 DEF AtTop
<1>3. /\ asserts \cap {"TransitionStarted", "TransitionCompleted", "TransitionEnded"} = {}
      /\ cancelRequested[Native]
  BY <1>1 DEF OpInv, StartInv, SignalInv
<1>4. UNCHANGED <<word, native, fresh, onStarted, asserts, com, comAsyncOperationSPtr_>>
  BY DEF ProxyOnCancel
<1>5. CASE comAsyncOperationSPtr_
  <2>1. PICK f \in Frames : f = Frame("ComCancel", Proxy) /\ f.at = "ComCancel" /\ f.op = Proxy /\ Foreign(f)
    BY ComFrame DEF ComPlaces
  <2>2. NativeFrame(f) /\ f.at \notin ProxyPlaces
    BY <2>1 DEF NativeFrame, Foreign, ProxyPlaces
  <2>3. Goto(t, f)
    BY <1>5, <2>1 DEF ProxyOnCancel
  <2>4. Moves(t, d, f, NoFrame)
    BY <1>1, <2>3, GotoMoves DEF OpInv
  <2>5. NativeSeen(t, "ProxyOnCancel", d, f, NoFrame)
    BY <1>1, <1>2, <1>3, <1>4, <2>1, <2>2, <2>4, NoNativeFrame
       DEF NativeSeen, NativeStep, word, native, tree, ProxyPlaces, OwnPlaces
  <2> QED
    BY <1>3, <1>4, <1>5, <2>1, <2>5, NoNativeFrame, NativePlain
<1>6. CASE ~comAsyncOperationSPtr_
  <2>1. Return(t)
    BY <1>6 DEF ProxyOnCancel
  <2>2. Moves(t, d, NoFrame, NoFrame)
    BY <1>1, <2>1, ReturnMoves DEF OpInv
  <2>3. NativeSeen(t, "ProxyOnCancel", d, NoFrame, NoFrame)
    BY <1>1, <1>2, <1>3, <1>4, <2>2, NoNativeFrame
       DEF NativeSeen, NativeStep, word, native, tree, ProxyPlaces, OwnPlaces
  <2> QED
    BY <1>4, <2>3, NoNativeFrame, NativePlain
<1> QED
  BY <1>5, <1>6

LEMMA ProxyStoreKeeps ==
    ASSUME ProxyInv, NEW t \in Thread, ProxyStore(t)
    PROVE  ProxyInv'
<1> USE DEF ProxyInv, NativeInv
<1>1. PICK d \in Nat : /\ AtTop(t, d, "ProxyStore", Native) /\ One("ProxyStore", Native)
                       /\ lifecycle[Native] # "Created"
  BY NativeTop DEF ProxyStore, ProxyPlaces
<1>2. Return(t) /\ comAsyncOperationSPtr_' = (lifecycle[Native] \notin {"Completed", "Ended"})
      /\ UNCHANGED <<word, native, fresh, onStarted, asserts, com>>
  BY DEF ProxyStore
<1>3. Moves(t, d, NoFrame, NoFrame)
  BY <1>1, <1>2, ReturnMoves DEF OpInv
<1>4. F(t, d + 1) = NoFrame /\ F(t, d).at = "ProxyStore" /\ F(t, d).op = Native /\ d = Len(stack[t])
      /\ stack[t] # <<>>
  BY <1>1 DEF AtTop
<1>5. asserts \cap {"TransitionStarted", "TransitionCompleted", "TransitionEnded"} = {}
  BY DEF OpInv, StartInv
<1>6. NativeSeen(t, "ProxyStore", d, NoFrame, NoFrame)
  BY <1>1, <1>2, <1>3, <1>4, <1>5, NoNativeFrame
     DEF NativeSeen, NativeStep, word, native, tree, ProxyPlaces, OwnPlaces
<1>7. /\ UNCHANGED <<state_, answer, result_, lifecycle, error_, cancelRequested>>
      /\ (Unbegun' <=> Unbegun) /\ (ComCompletingOrCompleted' <=> ComCompletingOrCompleted)
      /\ NoFrame.at = "none"
  BY <1>2, NoNativeFrame DEF com, Unbegun, ComCompletingOrCompleted, word, native
<1>8. NativeStep(t, d, NoFrame, NoFrame) /\ NoFrame.at \notin ComPlaces \cup ProxyPlaces
  BY <1>6, NoNativeFrame DEF NativeSeen
<1>9. OpInv' /\ ResultInv'
  BY <1>8, NativeKeeps
<1>10. ContextInv'
  BY <1>2, <1>6, <1>7, <1>8, NativeContext
<1>11. NativeTypes'
  BY <1>2, <1>6, NativeTypesKeep
<1>12. ~One("ProxyBegun", Native)' /\ ~One("ProxyStore", Native)'
  <2>1. /\ Unique({"ProxyBegun", "ProxyStore"}) /\ "none" \notin {"ProxyBegun", "ProxyStore"}
        /\ F(t, d).at \in {"ProxyBegun", "ProxyStore"} /\ F(t, d).op = Native
        /\ NoFrame.at \notin {"ProxyBegun", "ProxyStore"}
    BY <1>4, <1>7 DEF EnterInv
  <2>2. \A x \in {"ProxyBegun", "ProxyStore"} : ~One(x, Native)'
    BY <1>3, <2>1, UniqueGone
  <2> QED
    BY <2>2
<1>13. ~Unbegun /\ ~Context("ComStart") /\ ~NativeStarting /\ ~state_.cancelRequested
  <2>1. ~One("ProxyBegun", Native)
    BY <1>1, UniquePlace DEF EnterInv
  <2> QED
    BY <1>1, <2>1 DEF EnterInv, Entering
<1>14. ~NativeStarting' /\ ~Context("ComStart")'
  BY <1>6, <1>7, <1>13, NativeSeenPlaces DEF ComPlaces
<1>15. EnterInv'
  <2>1. Unique({"ProxyBegun", "ProxyStore"})'
    BY <1>3, <1>7, UniqueMoves DEF EnterInv
  <2>2. \A u \in Thread, k \in Nat : ~On(u, k, "ProxyBegun", Native)'
    BY <1>12 DEF One
  <2>3. ~Unbegun' /\ lifecycle'[Native] # "Created"
    BY <1>1, <1>7, <1>13
  <2> QED
    BY <1>12, <1>14, <2>1, <2>2, <2>3 DEF EnterInv, Entering
<1>16. EndsInv'
  BY <1>6, <1>7, NativeEnds
<1>17. ~Failed /\ (Failed => Failed')
  BY <1>13 DEF Failed
<1>18. ReportInv'
  BY <1>6, <1>7, <1>17, NativeReport DEF Claiming
<1>19. QuietInv'
  BY <1>6, <1>7, NativeQuiet
<1>20. SignalInv'
  BY <1>6, <1>7, NativeSignal
\* The context was ended while it was being begun: the native operation will report that.
<1>21. ASSUME answer # "none", comAsyncOperationSPtr_' PROVE One("ProxyCleanup", Native)' \/ Overtaken'
  <2>1. One("ProxyCleanup", Native) => One("ProxyCleanup", Native)'
    BY <1>6, NativeSeenPlaces DEF ProxyPlaces
  <2>2. lifecycle[Native] \in {"Started", "Completing"}
    BY <1>1, <1>2, <1>21, NativeFacts DEF OpInv, TypeInv, Phase
  <2>3. CASE lifecycle[Native] = "Started"
    BY <1>21, <2>1, <2>3 DEF StoreInv, One
  <2>4. CASE lifecycle[Native] = "Completing" /\ Claimed("FinishComplete", Native, answer)
    <3>1. answer # "OperationCanceled"
      BY <1>13, <1>21 DEF ContextInv, InvokeInv, QuietInv
    <3>2. PICK u \in Thread, k \in Nat : On(u, k, "FinishComplete", Native) /\ F(u, k).err = answer
      BY <2>4 DEF Claimed
    <3>3. k # 0
      BY <1>7, <3>2 DEF F, On
    <3>4. k - 1 \in Nat /\ (k - 1) + 1 = k
      BY <3>3
    <3>5. On(u, k - 1, "ProxyCleanup", Native)
      BY <1>17, <3>1, <3>2, <3>4 DEF StoreInv, On
    <3> QED
      BY <2>1, <3>4, <3>5 DEF One
  <2>5. CASE lifecycle[Native] = "Completing" /\ ~Claimed("FinishComplete", Native, answer)
    <3>1. Overtaken
      BY <2>5 DEF Overtaken, CompletingOrCompleted, Over
    <3> QED
      BY <1>6, <1>7, <3>1, NativeOvertaken
  <2> QED
    BY <2>2, <2>3, <2>4, <2>5
<1>22. StoreInv'
  BY <1>6, <1>7, <1>17, <1>21, NativeStore DEF Claiming
<1> QED
  BY <1>9, <1>10, <1>11, <1>15, <1>16, <1>18, <1>19, <1>20, <1>22

\* Those that observe or end the context.
LEMMA NativeObserves ==
    ASSUME OpInv, ResultInv, ContextInv, NEW t \in Thread, NEW at, NEW d \in Nat, NEW f, NEW g,
           NativeSeen(t, at, d, f, g), f.at \notin ComPlaces,
           state_' \in [lifecycle : Phase, observed : BOOLEAN, cancelRequested : BOOLEAN],
           state_'.cancelRequested = state_.cancelRequested,
           \/ state_'.lifecycle = state_.lifecycle
           \/ state_.lifecycle = "Completed" /\ state_'.lifecycle = "Ended",
           UNCHANGED <<callback_, result_, child_, skipCompleteOnCancel_>>, invoked' \in Nat,
           answer' \in Error \cup {"none", "NotComplete"}, asserts' \subseteq {"attach"}
    PROVE  /\ OpInv' /\ ResultInv' /\ ComTypeInv' /\ ReachInv' /\ AnswerInv'
           /\ g.at # "ComStart" => AttachInv'
           /\ Fresh(Inner)' <=> Fresh(Inner)
           /\ One("Cancel", Proxy)' <=> One("Cancel", Proxy)
<1> USE DEF ContextInv
<1>1. /\ Moves(t, d, f, g) /\ F(t, d + 1) = NoFrame /\ F(t, d).at = at /\ d = Len(stack[t])
      /\ UNCHANGED <<error_, cancelRequested, refused>> /\ NativeStep(t, d, f, g)
      /\ f.kids = {} /\ g.kids = {}
      /\ \A o \in Op : o # Native => lifecycle'[o] = lifecycle[o]
      /\ g.at \in ComPlaces => g.at = "ComStart" /\ g.op = Proxy
  BY DEF NativeSeen, NativeStep, NativeFrame, OpInv, TypeInv
<1>2. at \notin ComPlaces \ {"ComInvoke"} /\ at \notin {"Begin", "Start", "Attach", "AttachPush"}
  BY ProxyPlaceFacts DEF NativeSeen, ComPlaces, ProxyPlaces
<1>3. /\ OpInv' /\ ResultInv'
      /\ Fresh(Inner)' <=> Fresh(Inner)
      /\ Young(Inner)' <=> Young(Inner)
      /\ One("Cancel", Proxy)' <=> One("Cancel", Proxy)
  BY <1>1, NativeKeeps, InnerFacts
<1>4. lifecycle'[Inner] = lifecycle[Inner]
  BY <1>1, InnerFacts, NativeFacts
<1>5. /\ (Unbegun' <=> Unbegun) /\ (ComCompletingOrCompleted' <=> ComCompletingOrCompleted)
      /\ state_'.lifecycle \in Over => state_.lifecycle \in Over
  BY DEF Unbegun, ComCompletingOrCompleted, Over
<1>6. Young(Inner)' =>
         \/ Unbegun
         \/ \E u \in Thread, k \in Nat : On(u, k, "ComAttach", Proxy)' /\ Beginning(u, k + 1)'
  <2>1. F(t, d).at # "ComAttach" /\ F(t, d).at \notin {"Begin", "Start", "Attach", "AttachPush"}
    BY <1>1, <1>2 DEF ComPlaces
  <2>2. SUFFICES ASSUME Young(Inner), ~Unbegun
                 PROVE  \E u \in Thread, k \in Nat : On(u, k, "ComAttach", Proxy)' /\ Beginning(u, k + 1)'
    BY <1>3
  <2>3. PICK u \in Thread, k \in Nat : On(u, k, "ComAttach", Proxy) /\ Beginning(u, k + 1)
    BY <2>2 DEF AttachInv
  <2> QED
    BY <1>1, <2>1, <2>3, BeginningMoves
<1>7. (CompletingOrCompleted(Inner)' <=> CompletingOrCompleted(Inner)) /\ (Reached' <=> Reached)
  BY <1>1, <1>3, <1>4 DEF CompletingOrCompleted, Reached
<1>8. ASSUME NEW x \in ComPlaces \ {"ComStart", "ComInvoke"} PROVE Context(x)' <=> Context(x)
  <2>1. x # f.at /\ x # g.at /\ x # at
    BY <1>1, <1>2
  <2> QED
    BY <2>1, NativeSeenPlaces
<1>9. ComTypeInv'
  BY <1>1, ComTypesMove DEF ComTypeInv
<1>10. ReachInv'
  <2>1. /\ Context("ComAttach")' <=> Context("ComAttach")
        /\ Context("ComTryComplete")' <=> Context("ComTryComplete")
        /\ Context("ComCancelChild")' <=> Context("ComCancelChild")
        /\ Context("ComCancelSelf")' <=> Context("ComCancelSelf")
    BY <1>8 DEF ComPlaces
  <2>2. Unique({"ComCancelChild", "ComCancelSelf"})'
    <3>1. f.at \notin {"ComCancelChild", "ComCancelSelf"} /\ g.at \notin {"ComCancelChild", "ComCancelSelf"}
      BY <1>1 DEF ComPlaces
    <3> QED
      BY <1>1, <3>1, UniqueMoves DEF ReachInv
  <2>3. Passed' <=> Passed
    BY <2>1 DEF Passed
  <2>4. Context("ComCancelChild")' \/ Context("ComCancelSelf")' => state_'.cancelRequested
    BY <2>1 DEF ReachInv
  <2> QED
    BY <1>5, <1>7, <2>1, <2>2, <2>3, <2>4, ReachStays
<1>11. AnswerInv'
  <2>1. f.at \notin {"ComTryComplete", "ComFinishComplete"} /\ g.at \notin {"ComTryComplete", "ComFinishComplete"}
    BY <1>1 DEF ComPlaces
  <2>2. \A err : ComClaims(err)' => ComClaims(err)
    BY <1>1, <2>1, ComClaimsMove
  <2> QED
    BY <1>1, <1>4, <1>5, <2>2, AnswerStays
<1>12. ASSUME g.at # "ComStart" PROVE AttachInv'
  <2>1. /\ f.at \notin {"ComStart", "ComAttach"} /\ g.at \notin {"ComStart", "ComAttach"}
        /\ f.at # "ComCancel" /\ g.at # "ComCancel" /\ F(t, d).at \notin {"ComStart", "ComAttach"}
    BY <1>1, <1>2, <1>12 DEF ComPlaces
  <2>2. /\ Unbegun => Fresh(Inner)'
        /\ Inner \notin refused'
        /\ Unbegun \/ Context("ComAttach") =>
              ~child_' /\ ~cancelRequested'[Proxy] /\ ~One("Cancel", Proxy)'
    BY <1>1, <1>3 DEF AttachInv
  <2> QED
    BY <1>1, <1>5, <1>6, <2>1, <2>2, AttachStays
<1> QED
  BY <1>3, <1>9, <1>10, <1>11, <1>12

LEMMA ProxyOnStartKeeps ==
    ASSUME ProxyInv, NEW t \in Thread, ProxyOnStart(t)
    PROVE  ProxyInv'
<1> USE DEF ProxyInv, NativeInv
<1>1. PICK d \in Nat : AtTop(t, d, "OnStart", Native) /\ One("OnStart", Native) /\ lifecycle[Native] # "Created"
  BY NativeTop DEF ProxyOnStart
<1>2. PICK f \in Frames : f = Frame("ProxyBegun", Native) /\ f.at = "ProxyBegun" /\ f.op = Native /\ NativeFrame(f)
  BY ProxyFrame DEF ProxyPlaces
<1>3. PICK g \in Frames : g = Frame("ComStart", Proxy) /\ g.at = "ComStart" /\ g.op = Proxy /\ Foreign(g)
  BY ComFrame DEF ComPlaces
<1>4. NativeFrame(g)
  BY <1>3 DEF NativeFrame, Foreign
<1>5. Call(t, f, g) /\ onStarted' = onStarted \cup {Native}
      /\ UNCHANGED <<word, native, fresh, asserts, com, comAsyncOperationSPtr_>>
  BY <1>2, <1>3 DEF ProxyOnStart
<1>6. Moves(t, d, f, g)
  BY <1>1, <1>5, CallMoves DEF OpInv
<1>7. F(t, d + 1) = NoFrame /\ F(t, d).at = "OnStart" /\ F(t, d).op = Native /\ d = Len(stack[t]) /\ stack[t] # <<>>
  BY <1>1 DEF AtTop
<1>8. asserts \cap {"TransitionStarted", "TransitionCompleted", "TransitionEnded"} = {}
  BY DEF OpInv, StartInv
<1>9. NativeSeen(t, "OnStart", d, f, g)
  BY <1>1, <1>2, <1>3, <1>4, <1>5, <1>6, <1>7, <1>8
     DEF NativeSeen, NativeStep, word, native, tree, ComPlaces, ProxyPlaces
<1>10. /\ UNCHANGED <<state_, callback_, result_, child_, skipCompleteOnCancel_, invoked, answer>>
       /\ UNCHANGED <<asserts, comAsyncOperationSPtr_, refused, cancelRequested, lifecycle>>
       /\ (Unbegun' <=> Unbegun) /\ (ComCompletingOrCompleted' <=> ComCompletingOrCompleted)
  BY <1>5 DEF com, native, word, Unbegun, ComCompletingOrCompleted
\* The context has not been begun.
<1>11. NativeStarting
  BY <1>1 DEF NativeStarting, Starting
<1>12. /\ Unbegun /\ ~Context("ComStart") /\ ~Context("ComAttach") /\ ~Context("ComCancel")
       /\ ~One("ProxyBegun", Native) /\ ~One("ProxyStore", Native)
       /\ ~comAsyncOperationSPtr_ /\ ~state_.cancelRequested /\ ~state_.observed
  BY <1>11 DEF EnterInv, EndsInv, Entering, ContextInv, AttachInv
<1>13. answer = "none" /\ ~Failed
  BY <1>11, <1>12 DEF ContextInv, InvokeInv, Unbegun, Failed
<1>14. /\ state_' \in [lifecycle : Phase, observed : BOOLEAN, cancelRequested : BOOLEAN]
       /\ invoked' \in Nat /\ answer' \in Error \cup {"none", "NotComplete"} /\ asserts' \subseteq {"attach"}
       /\ f.at \notin ComPlaces
  BY <1>2, <1>10 DEF ContextInv, ComTypeInv, AttachInv, ComPlaces
<1>15. /\ OpInv' /\ ResultInv' /\ ComTypeInv' /\ ReachInv' /\ AnswerInv'
       /\ Fresh(Inner)' <=> Fresh(Inner)
       /\ One("Cancel", Proxy)' <=> One("Cancel", Proxy)
  BY <1>9, <1>10, <1>14, NativeObserves
<1>16. /\ Context("ComAttach")' => Context("ComAttach")
       /\ Context("ComCancel")' => Context("ComCancel")
       /\ One("ProxyStore", Native)' => One("ProxyStore", Native)
       /\ One("ProxyFinish", Native)' => One("ProxyFinish", Native)
       /\ One("ProxyBegun", Native)'
       /\ Context("ComInvoke")' <=> Context("ComInvoke")
  BY <1>2, <1>3, <1>9, NativeSeenPlaces DEF ComPlaces, ProxyPlaces
<1>17. AttachInv'
  <2>1. Unique({"ComStart", "ComAttach"})'
    BY <1>2, <1>3, <1>6, <1>7, <1>12, UniqueMoves DEF ContextInv, AttachInv, Context
  <2> QED
    BY <1>10, <1>12, <1>14, <1>15, <1>16, <2>1 DEF ContextInv, AttachInv
<1>18. InvokeInv'
  BY <1>2, <1>3, <1>6, <1>7, <1>10, InvokeStays DEF ContextInv
<1>19. NativeTypes'
  BY <1>9, <1>10, NativeTypesKeep DEF NativeTypes
<1>20. ~NativeStarting'
  <2>1. Unique(Starting) /\ "none" \notin Starting /\ F(t, d).at \in Starting /\ f.at \notin Starting
        /\ g.at \notin Starting
    BY <1>2, <1>3, <1>7 DEF OpInv, StartInv, Starting
  <2>2. \A x \in Starting : ~One(x, Native)'
    BY <1>6, <1>7, <2>1, UniqueGone
  <2> QED
    BY <2>2 DEF NativeStarting
<1>21. EnterInv'
  <2>1. Unique({"ProxyBegun", "ProxyStore"})'
    BY <1>2, <1>3, <1>6, <1>12, UniqueMoves DEF EnterInv
  <2>2. ASSUME NEW u \in Thread, NEW k \in Nat, On(u, k, "ProxyBegun", Native)' PROVE On(u, k + 1, "ComStart", Proxy)'
    <3>1. d + 1 \in Nat /\ k + 1 \in Nat
      OBVIOUS
    <3>2. ~On(u, k, "ProxyBegun", Native)
      BY <1>12 DEF One
    <3>3. u = t /\ (k = d \/ k = d + 1)
      BY <1>6, <2>2, <3>2 DEF Moves, On
    <3>4. k = d
      BY <1>3, <1>6, <2>2, <3>1, <3>3 DEF Moves, On
    <3>5. F(u, k + 1)' = g
      BY <1>6, <3>1, <3>3, <3>4 DEF Moves
    <3> QED
      BY <1>3, <3>5 DEF On
  <2> QED
    BY <1>1, <1>10, <1>12, <1>16, <1>20, <2>1, <2>2 DEF EnterInv, Entering
<1>22. EndsInv'
  <2>1. ~One("ProxyFinish", Native)'
    BY <1>12, <1>16 DEF EndsInv, Unbegun
  <2>2. Unique({"ProxyFinish"})'
    BY <1>2, <1>3, <1>6, UniqueMoves DEF EndsInv
  <2> QED
    BY <1>10, <1>12, <1>13, <2>1, <2>2 DEF EndsInv, Unbegun
<1>23. ReportInv'
  BY <1>2, <1>3, <1>9, <1>10, <1>13, NativeReport DEF Claiming
<1>24. QuietInv'
  BY <1>9, <1>10, NativeQuiet
<1>25. SignalInv'
  BY <1>2, <1>3, <1>9, <1>10, NativeSignal
<1>26. StoreInv'
  BY <1>2, <1>3, <1>9, <1>10, <1>13, NativeStore DEF Claiming
<1> QED
  BY <1>15, <1>17, <1>18, <1>19, <1>21, <1>22, <1>23, <1>24, <1>25, <1>26 DEF ContextInv

LEMMA ProxyBegunKeeps ==
    ASSUME ProxyInv, NEW t \in Thread, ProxyBegun(t)
    PROVE  ProxyInv'
<1> USE DEF ProxyInv, NativeInv
<1>1. PICK d \in Nat : /\ AtTop(t, d, "ProxyBegun", Native) /\ One("ProxyBegun", Native)
                       /\ lifecycle[Native] # "Created"
  BY NativeTop DEF ProxyBegun, ProxyPlaces
<1>2. F(t, d + 1) = NoFrame /\ F(t, d).at = "ProxyBegun" /\ F(t, d).op = Native /\ d = Len(stack[t])
      /\ stack[t] # <<>>
  BY <1>1 DEF AtTop
<1>3. PICK f \in Frames : f = Frame("StartReturns", Native) /\ f.at = "StartReturns"
                          /\ f.op = Native /\ NativeFrame(f)
  BY ProxyFrame
<1>4. PICK g \in Frames : /\ g = Frame(IF ComCompletedSynchronously THEN "ProxyFinish" ELSE "ProxyStore", Native)
                          /\ g.at = (IF ComCompletedSynchronously THEN "ProxyFinish" ELSE "ProxyStore")
                          /\ g.op = Native /\ NativeFrame(g)
  <2>1. (IF ComCompletedSynchronously THEN "ProxyFinish" ELSE "ProxyStore") \in ProxyPlaces
    BY DEF ProxyPlaces
  <2> QED
    BY <2>1, ProxyFrame
<1>5. Call(t, f, g) /\ ComObserve
      /\ UNCHANGED <<word, native, fresh, onStarted, asserts, callback_, result_,
                     child_, invoked, answer, skipCompleteOnCancel_, comAsyncOperationSPtr_>>
  BY <1>3, <1>4 DEF ProxyBegun
<1>6. Moves(t, d, f, g)
  BY <1>1, <1>5, CallMoves DEF OpInv
<1>7. asserts \cap {"TransitionStarted", "TransitionCompleted", "TransitionEnded"} = {}
  BY DEF OpInv, StartInv
<1>8. g.at \in {"ProxyFinish", "ProxyStore"}
  BY <1>4
<1>9. NativeSeen(t, "ProxyBegun", d, f, g)
  BY <1>1, <1>2, <1>3, <1>4, <1>5, <1>6, <1>7, <1>8
     DEF NativeSeen, NativeStep, word, native, tree, ComPlaces, ProxyPlaces, OwnPlaces
\* Start of the context has returned.
<1>10. state_.lifecycle \in {"Started", "Completing", "Completed"} /\ ~state_.observed
  <2>1. ~Unbegun
    <3>1. ~On(t, d + 1, "ComStart", Proxy)
      BY <1>2, NoNativeFrame DEF On
    <3>2. On(t, d, "ProxyBegun", Native)
      BY <1>2 DEF On
    <3> QED
      BY <3>1, <3>2 DEF EnterInv
  <2>2. ~state_.observed /\ state_.lifecycle # "Ended"
    BY <1>1 DEF EndsInv
  <2> QED
    BY <2>1, <2>2 DEF ContextInv, ComTypeInv, Phase, Unbegun
<1>11. g.at = (IF state_.lifecycle = "Completed" THEN "ProxyFinish" ELSE "ProxyStore")
  BY <1>4, <1>10 DEF ComCompletedSynchronously
<1>12. /\ state_' \in [lifecycle : Phase, observed : BOOLEAN, cancelRequested : BOOLEAN]
       /\ state_'.lifecycle = state_.lifecycle /\ state_'.cancelRequested = state_.cancelRequested
       /\ state_'.observed = (state_.lifecycle # "Completed")
  <2>1. state_' = [state_ EXCEPT !.observed = state_.observed \/ state_.lifecycle \in {"Started", "Completing"}]
    BY <1>5 DEF ComObserve
  <2>2. state_ \in [lifecycle : Phase, observed : BOOLEAN, cancelRequested : BOOLEAN]
    BY DEF ContextInv, ComTypeInv
  <2> QED
    BY <1>10, <2>1, <2>2
<1>13. /\ UNCHANGED <<callback_, result_, child_, skipCompleteOnCancel_, invoked, answer>>
       /\ UNCHANGED <<asserts, comAsyncOperationSPtr_, lifecycle>>
       /\ (Unbegun' <=> Unbegun) /\ (ComCompletingOrCompleted' <=> ComCompletingOrCompleted)
  BY <1>5, <1>12 DEF word, Unbegun, ComCompletingOrCompleted
<1>14. /\ invoked' \in Nat /\ answer' \in Error \cup {"none", "NotComplete"} /\ asserts' \subseteq {"attach"}
       /\ f.at \notin ComPlaces /\ g.at # "ComStart"
  BY <1>3, <1>8, <1>13 DEF ContextInv, ComTypeInv, AttachInv, ComPlaces
<1>15. OpInv' /\ ResultInv' /\ ComTypeInv' /\ ReachInv' /\ AnswerInv' /\ AttachInv'
  BY <1>9, <1>12, <1>13, <1>14, NativeObserves
<1>16. InvokeInv'
  BY <1>2, <1>3, <1>6, <1>8, <1>12, <1>13, InvokeStays DEF ContextInv
<1>17. NativeTypes'
  BY <1>9, <1>13, NativeTypesKeep DEF NativeTypes
<1>18. ~One("ProxyBegun", Native)'
  <2>1. /\ Unique({"ProxyBegun"}) /\ "none" \notin {"ProxyBegun"}
        /\ F(t, d).at \in {"ProxyBegun"} /\ F(t, d).op = Native
        /\ f.at \notin {"ProxyBegun"} /\ g.at \notin {"ProxyBegun"}
    BY <1>2, <1>3, <1>8, UniquePart DEF EnterInv
  <2>2. \A x \in {"ProxyBegun"} : ~One(x, Native)'
    BY <1>6, <2>1, UniqueGone
  <2> QED
    BY <2>2
<1>19. /\ ~Unbegun /\ ~Context("ComCancel") /\ ~NativeStarting
       /\ ~comAsyncOperationSPtr_ /\ ~state_.cancelRequested
  BY <1>1, <1>10 DEF EnterInv, Entering, Unbegun
<1>20. /\ Context("ComStart")' => Context("ComStart")
       /\ Context("ComCancel")' => Context("ComCancel")
       /\ One("ProxyFinish", Native)' <=> (One("ProxyFinish", Native) \/ g.at = "ProxyFinish")
       /\ Context("ComInvoke")' <=> Context("ComInvoke")
       /\ NativeStarting' => NativeStarting
  BY <1>3, <1>8, <1>9, NativeSeenPlaces DEF ComPlaces, ProxyPlaces
<1>21. ~Context("ComStart")
  BY <1>19 DEF ContextInv, AttachInv
<1>22. EnterInv'
  <2>1. Unique({"ProxyBegun", "ProxyStore"})'
    BY <1>2, <1>3, <1>4, <1>6, <1>8, UniqueMoves DEF EnterInv
  <2>2. \A u \in Thread, k \in Nat : ~On(u, k, "ProxyBegun", Native)'
    BY <1>18 DEF One
  <2> QED
    BY <1>1, <1>12, <1>13, <1>18, <1>19, <1>20, <1>21, <2>1, <2>2 DEF EnterInv, Entering
<1>23. ~One("ProxyFinish", Native)
  BY <1>1 DEF EndsInv
<1>24. EndsInv'
  <2>1. Unique({"ProxyFinish"})'
    BY <1>3, <1>4, <1>6, <1>23, UniqueMoves DEF EndsInv
  <2> QED
    BY <1>10, <1>11, <1>12, <1>13, <1>18, <1>19, <1>20, <1>23, <2>1 DEF EndsInv
<1>25. Failed => Failed'
  BY <1>19 DEF Failed
<1>26. ReportInv'
  BY <1>3, <1>8, <1>9, <1>13, <1>25, NativeReport DEF Claiming
<1>27. QuietInv'
  BY <1>9, <1>12, <1>13, NativeQuiet
<1>28. SignalInv'
  BY <1>3, <1>8, <1>9, <1>12, NativeSignal
<1>29. StoreInv'
  <2>1. ~comAsyncOperationSPtr_'
    BY <1>13, <1>19
  <2> QED
    BY <1>3, <1>8, <1>9, <1>13, <1>25, <2>1, NativeStore DEF Claiming
<1> QED
  BY <1>15, <1>16, <1>17, <1>22, <1>24, <1>26, <1>27, <1>28, <1>29 DEF ContextInv

LEMMA ProxyFinishKeeps ==
    ASSUME ProxyInv, NEW t \in Thread, ProxyFinish(t)
    PROVE  ProxyInv'
<1> USE DEF ProxyInv, NativeInv
<1>1. PICK d \in Nat : /\ AtTop(t, d, "ProxyFinish", Native) /\ One("ProxyFinish", Native)
                       /\ lifecycle[Native] # "Created"
  BY NativeTop DEF ProxyFinish, ProxyPlaces
<1>2. F(t, d + 1) = NoFrame /\ F(t, d).at = "ProxyFinish" /\ F(t, d).op = Native /\ d = Len(stack[t])
      /\ stack[t] # <<>>
  BY <1>1 DEF AtTop
<1>3. /\ state_.lifecycle = "Completed" /\ ~One("ProxyBegun", Native)
      /\ state_.observed => ~Context("ComInvoke")
  BY <1>1 DEF EndsInv
<1>4. /\ result_ \in Error /\ "none" \notin Error /\ "NotComplete" \notin Error /\ answer = "none"
      /\ state_ \in [lifecycle : Phase, observed : BOOLEAN, cancelRequested : BOOLEAN]
  BY <1>3 DEF ContextInv, ComTypeInv, InvokeInv, Error
<1>5. Justified(Native, result_)
  <2>1. result_ = "OperationCanceled" => cancelRequested[Native]
    BY DEF QuietInv, SignalInv
  <2> QED
    BY <2>1, NativeFacts DEF Justified
<1>6. PICK f \in Frames : f = Frame("ProxyCleanup", Native) /\ f.at = "ProxyCleanup"
                          /\ f.op = Native /\ NativeFrame(f)
  BY ProxyFrame DEF ProxyPlaces
<1>7. PICK g \in Frames : /\ g = [Frame("TryComplete", Native) EXCEPT !.err = result_]
                          /\ g.at = "TryComplete" /\ g.op = Native /\ g.err = result_ /\ NativeFrame(g)
  BY <1>4, <1>5, ProxyErrorFrame DEF Claiming
<1>8. /\ Call(t, f, g) /\ state_' = [state_ EXCEPT !.lifecycle = "Ended"] /\ answer' = result_
      /\ UNCHANGED <<word, native, fresh, onStarted, asserts, callback_, result_,
                     child_, invoked, skipCompleteOnCancel_, comAsyncOperationSPtr_>>
  BY <1>3, <1>4, <1>6, <1>7 DEF ProxyFinish, ComEnded
<1>9. Moves(t, d, f, g)
  BY <1>1, <1>8, CallMoves DEF OpInv
<1>10. asserts \cap {"TransitionStarted", "TransitionCompleted", "TransitionEnded"} = {}
  BY DEF OpInv, StartInv
<1>11. NativeSeen(t, "ProxyFinish", d, f, g)
  BY <1>1, <1>2, <1>6, <1>7, <1>8, <1>9, <1>10
     DEF NativeSeen, NativeStep, word, native, tree, ComPlaces, ProxyPlaces, OwnPlaces
<1>12. /\ state_' \in [lifecycle : Phase, observed : BOOLEAN, cancelRequested : BOOLEAN]
       /\ state_'.lifecycle = "Ended" /\ state_'.cancelRequested = state_.cancelRequested
       /\ state_'.observed = state_.observed
  BY <1>4, <1>8 DEF Phase
<1>13. /\ UNCHANGED <<callback_, result_, child_, skipCompleteOnCancel_, invoked>>
       /\ UNCHANGED <<asserts, comAsyncOperationSPtr_, lifecycle>>
       /\ ~Unbegun' /\ ~Unbegun /\ ComCompletingOrCompleted' /\ ComCompletingOrCompleted
  BY <1>3, <1>8, <1>12 DEF word, Unbegun, ComCompletingOrCompleted
<1>14. /\ invoked' \in Nat /\ answer' \in Error \cup {"none", "NotComplete"} /\ asserts' \subseteq {"attach"}
       /\ f.at \notin ComPlaces /\ g.at # "ComStart"
  BY <1>4, <1>6, <1>7, <1>8, <1>13 DEF ContextInv, ComTypeInv, AttachInv, ComPlaces
<1>15. OpInv' /\ ResultInv' /\ ComTypeInv' /\ ReachInv' /\ AnswerInv' /\ AttachInv'
  BY <1>3, <1>11, <1>12, <1>13, <1>14, NativeObserves
<1>16. /\ \A x \in {"ComFinishComplete", "ComInvoke", "ComCleanup", "ComCleanupChild"} :
              Context(x)' <=> Context(x)
       /\ One("ProxyBegun", Native)' => One("ProxyBegun", Native)
       /\ One("ProxyCleanup", Native)'
       /\ NativeStarting' => NativeStarting
  <2>1. /\ {"ComFinishComplete", "ComInvoke", "ComCleanup", "ComCleanupChild"} \subseteq ComPlaces
        /\ {"ProxyBegun", "ProxyCleanup", "ProxyFinish"} \subseteq ProxyPlaces
        /\ f.at \notin ComPlaces /\ g.at \notin ComPlaces /\ "ProxyFinish" \notin ComPlaces
    BY <1>6, <1>7 DEF ComPlaces, ProxyPlaces
  <2>2. ASSUME NEW x \in {"ComFinishComplete", "ComInvoke", "ComCleanup", "ComCleanupChild"}
        PROVE  Context(x)' <=> Context(x)
    BY <1>11, <2>1, NativeSeenPlaces
  <2>3. One("ProxyBegun", Native)' => One("ProxyBegun", Native)
    BY <1>6, <1>7, <1>11, <2>1, NativeSeenPlaces
  <2>4. One("ProxyCleanup", Native)'
    BY <1>6, <1>11, <2>1, NativeSeenPlaces
  <2>5. NativeStarting' => NativeStarting
    BY <1>11, NativeSeenPlaces
  <2> QED
    BY <2>2, <2>3, <2>4, <2>5
<1>17. InvokeInv'
  <2>1. Unique({"ComFinishComplete"})' /\ Unique({"ComInvoke"})' /\ Unique({"ComCleanup"})'
    BY <1>6, <1>7, <1>9, UniqueMoves DEF ContextInv, InvokeInv
  <2>2. F(t, Len(stack[t])).at # "ComInvoke" /\ f.at # "ComInvoke" /\ g.at # "ComInvoke"
    BY <1>2, <1>6, <1>7
  <2>3. \A u \in Thread, k \in Nat : On(u, k + 1, "ComInvoke", Proxy)' =>
           k + 1 = Len(stack'[u]) /\ On(u, k, "ComCleanup", Proxy)'
    BY <1>9, <2>2, InvokeFrames DEF ContextInv
  <2> QED
    BY <1>3, <1>4, <1>8, <1>12, <1>13, <1>16, <2>1, <2>3 DEF ContextInv, InvokeInv, Over
<1>18. NativeTypes'
  BY <1>11, <1>13, NativeTypesKeep DEF NativeTypes
<1>19. EnterInv'
  BY <1>6, <1>7, <1>11, <1>12, <1>13, NativeEnter
<1>20. ~One("ProxyFinish", Native)'
  <2>1. /\ Unique({"ProxyFinish"}) /\ "none" \notin {"ProxyFinish"}
        /\ F(t, d).at \in {"ProxyFinish"} /\ F(t, d).op = Native
        /\ f.at \notin {"ProxyFinish"} /\ g.at \notin {"ProxyFinish"}
    BY <1>2, <1>6, <1>7 DEF EndsInv
  <2>2. \A x \in {"ProxyFinish"} : ~One(x, Native)'
    BY <1>9, <2>1, UniqueGone
  <2> QED
    BY <2>2
<1>21. EndsInv'
  <2>1. Unique({"ProxyFinish"})'
    BY <1>6, <1>7, <1>9, UniqueMoves DEF EndsInv
  <2>2. ~NativeStarting' /\ ~One("ProxyBegun", Native)'
    BY <1>3, <1>13, <1>16 DEF EnterInv
  <2> QED
    BY <1>3, <1>4, <1>8, <1>12, <1>16, <1>20, <2>1, <2>2 DEF EndsInv
<1>22. Failed => Failed'
  BY <1>13 DEF Failed
<1>23. ReportInv'
  BY <1>4, <1>6, <1>7, <1>8, <1>11, <1>22, NativeReport DEF Claiming, NativeJustified
<1>24. QuietInv'
  BY <1>11, <1>12, <1>13, NativeQuiet
<1>25. SignalInv'
  BY <1>6, <1>7, <1>11, <1>12, NativeSignal
<1>26. StoreInv'
  BY <1>6, <1>7, <1>11, <1>16, <1>22, NativeStore DEF Claiming
<1> QED
  BY <1>15, <1>17, <1>18, <1>19, <1>21, <1>23, <1>24, <1>25, <1>26 DEF ContextInv

LEMMA ProxyInvokeKeeps ==
    ASSUME ProxyInv, NEW t \in Thread, ProxyInvoke(t)
    PROVE  ProxyInv'
<1> USE DEF ProxyInv, NativeInv
<1>1. PICK d \in Nat : AtTop(t, d, "ComInvoke", Proxy) /\ Context("ComInvoke")
  BY ComTop DEF ProxyInvoke, ComPlaces, OpInv, ContextInv
<1>2. F(t, d + 1) = NoFrame /\ F(t, d).at = "ComInvoke" /\ F(t, d).op = Proxy /\ d = Len(stack[t])
      /\ stack[t] # <<>> /\ NoFrame.at = "none"
  BY <1>1, NoNativeFrame DEF AtTop
<1>3. /\ state_.lifecycle \in Over /\ callback_ /\ invoked = 0 /\ ~Unbegun
      /\ state_.lifecycle = "Ended" => ~state_.observed
  BY <1>1 DEF ContextInv, InvokeInv, EndsInv, Over, Unbegun
<1>4. state_' = state_
  <2>1. state_' = [state_ EXCEPT !.observed = state_.observed \/ state_.lifecycle \in {"Started", "Completing"}]
    BY DEF ProxyInvoke, ComObserve
  <2>2. state_ \in [lifecycle : Phase, observed : BOOLEAN, cancelRequested : BOOLEAN]
    BY DEF ContextInv, ComTypeInv
  <2>3. (state_.observed \/ state_.lifecycle \in {"Started", "Completing"}) = state_.observed
    BY <1>3, <2>2 DEF Over
  <2> QED
    BY <2>1, <2>2, <2>3
<1>5. /\ UNCHANGED <<word, native, fresh, onStarted, callback_, result_, child_,
                     answer, skipCompleteOnCancel_, comAsyncOperationSPtr_>>
      /\ asserts' = asserts /\ invoked' = 1
  BY <1>3 DEF ProxyInvoke
<1>6. \E f \in Frames : /\ Moves(t, d, f, NoFrame) /\ NativeFrame(f) /\ f.at \in {"none", "ProxyFinish"}
                        /\ f.at = "ProxyFinish" => f.op = Native
                        /\ f.at = "ProxyFinish" <=> state_.observed
  <2>1. CASE ~state_.observed
    <3>1. Return(t)
      BY <1>3, <2>1 DEF ProxyInvoke, ComCompletedSynchronously, Over
    <3>2. Moves(t, d, NoFrame, NoFrame)
      BY <1>1, <3>1, ReturnMoves DEF OpInv
    <3> QED
      BY <1>2, <2>1, <3>2, NoFrameFacts, NoNativeFrame
  <2>2. CASE state_.observed
    <3>1. PICK f \in Frames : f = Frame("ProxyFinish", Native) /\ f.at = "ProxyFinish"
                              /\ f.op = Native /\ NativeFrame(f)
      BY ProxyFrame DEF ProxyPlaces
    <3>2. Goto(t, f)
      BY <2>2, <3>1 DEF ProxyInvoke, ComCompletedSynchronously
    <3>3. Moves(t, d, f, NoFrame)
      BY <1>1, <3>2, GotoMoves DEF OpInv
    <3> QED
      BY <2>2, <3>1, <3>3
  <2> QED
    BY <2>1, <2>2
<1>7. PICK f \in Frames : /\ Moves(t, d, f, NoFrame) /\ NativeFrame(f) /\ f.at \in {"none", "ProxyFinish"}
                          /\ f.at = "ProxyFinish" => f.op = Native
                          /\ f.at = "ProxyFinish" <=> state_.observed
  BY <1>6
<1>8. /\ asserts \cap {"TransitionStarted", "TransitionCompleted", "TransitionEnded"} = {}
      /\ lifecycle[Native] # "Created"
  BY <1>3 DEF OpInv, StartInv, EnterInv
<1>9. NativeSeen(t, "ComInvoke", d, f, NoFrame)
  BY <1>2, <1>5, <1>7, <1>8, NoNativeFrame
     DEF NativeSeen, NativeStep, word, native, tree, ComPlaces, ProxyPlaces, OwnPlaces
<1>10. /\ UNCHANGED <<state_, callback_, result_, child_, skipCompleteOnCancel_, answer>>
       /\ UNCHANGED <<asserts, comAsyncOperationSPtr_, lifecycle>>
       /\ (Unbegun' <=> Unbegun) /\ (ComCompletingOrCompleted' <=> ComCompletingOrCompleted)
  BY <1>4, <1>5 DEF word, Unbegun, ComCompletingOrCompleted
<1>11. /\ state_' \in [lifecycle : Phase, observed : BOOLEAN, cancelRequested : BOOLEAN]
       /\ invoked' \in Nat /\ answer' \in Error \cup {"none", "NotComplete"} /\ asserts' \subseteq {"attach"}
       /\ f.at \notin ComPlaces /\ NoFrame.at # "ComStart"
  BY <1>2, <1>5, <1>7, <1>10 DEF ContextInv, ComTypeInv, AttachInv, ComPlaces
<1>12. OpInv' /\ ResultInv' /\ ComTypeInv' /\ ReachInv' /\ AnswerInv' /\ AttachInv'
  BY <1>9, <1>10, <1>11, NativeObserves
<1>13. ~Context("ComInvoke")'
  <2>1. /\ Unique({"ComInvoke"}) /\ "none" \notin {"ComInvoke"} /\ F(t, d).at \in {"ComInvoke"}
        /\ f.at \notin {"ComInvoke"} /\ NoFrame.at \notin {"ComInvoke"}
    BY <1>2, <1>7 DEF ContextInv, InvokeInv
  <2>2. \A x \in {"ComInvoke"} : ~One(x, Proxy)'
    <3>1. Moves(t, d, f, NoFrame) /\ F(t, d).op = Proxy
      BY <1>2, <1>7
    <3> QED
      BY <2>1, <3>1, UniqueGone
  <2> QED
    BY <2>2 DEF Context
<1>14. /\ \A x \in {"ComFinishComplete", "ComCleanup", "ComCleanupChild"} : Context(x)' <=> Context(x)
       /\ One("ProxyBegun", Native)' <=> One("ProxyBegun", Native)
       /\ One("ProxyFinish", Native)' <=> (One("ProxyFinish", Native) \/ f.at = "ProxyFinish")
       /\ One("ProxyCleanup", Native)' <=> One("ProxyCleanup", Native)
       /\ NativeStarting' => NativeStarting
  <2>1. /\ {"ComFinishComplete", "ComCleanup", "ComCleanupChild"} \subseteq ComPlaces \ {"ComInvoke"}
        /\ {"ProxyBegun", "ProxyCleanup", "ProxyFinish"} \subseteq ProxyPlaces
        /\ NoFrame.at \notin ComPlaces \cup ProxyPlaces /\ "ComInvoke" \notin ProxyPlaces
    BY NoNativeFrame DEF ComPlaces, ProxyPlaces
  <2>2. ASSUME NEW x \in {"ComFinishComplete", "ComCleanup", "ComCleanupChild"}
        PROVE  Context(x)' <=> Context(x)
    BY <1>9, <1>11, <2>1, NativeSeenPlaces
  <2>3. /\ One("ProxyBegun", Native)' <=> One("ProxyBegun", Native)
        /\ One("ProxyFinish", Native)' <=> (One("ProxyFinish", Native) \/ f.at = "ProxyFinish")
        /\ One("ProxyCleanup", Native)' <=> One("ProxyCleanup", Native)
        /\ NativeStarting' => NativeStarting
    BY <1>7, <1>9, <2>1, NativeSeenPlaces
  <2> QED
    BY <2>2, <2>3
<1>15. InvokeInv'
  <2>1. Unique({"ComFinishComplete"})' /\ Unique({"ComInvoke"})' /\ Unique({"ComCleanup"})'
    BY <1>2, <1>7, UniqueMoves DEF ContextInv, InvokeInv
  <2>2. ASSUME NEW u \in Thread, NEW k \in Nat, On(u, k + 1, "ComInvoke", Proxy)' PROVE FALSE
    <3>1. k + 1 \in Nat
      OBVIOUS
    <3> QED
      BY <1>13, <2>2, <3>1 DEF Context, One
  <2> QED
    BY <1>3, <1>5, <1>10, <1>13, <1>14, <2>1, <2>2 DEF ContextInv, InvokeInv
<1>16. NativeTypes'
  BY <1>9, <1>10, NativeTypesKeep DEF NativeTypes
<1>17. EnterInv'
  BY <1>2, <1>7, <1>9, <1>10, NativeEnter
<1>18. EndsInv'
  <2>1. f.at = "ProxyFinish" =>
           state_.lifecycle = "Completed" /\ ~One("ProxyFinish", Native) /\ ~One("ProxyBegun", Native)
    BY <1>1, <1>3, <1>7 DEF EndsInv, Over
  <2>2. Unique({"ProxyFinish"})'
    BY <1>2, <1>7, <2>1, UniqueMoves DEF EndsInv
  <2> QED
    BY <1>3, <1>7, <1>10, <1>13, <1>14, <2>1, <2>2 DEF EndsInv
<1>19. Failed => Failed'
  BY <1>3 DEF Failed
<1>20. ReportInv'
  BY <1>2, <1>7, <1>9, <1>10, <1>19, NativeReport DEF Claiming
<1>21. QuietInv'
  BY <1>9, <1>10, NativeQuiet
<1>22. SignalInv'
  BY <1>2, <1>7, <1>9, <1>10, NativeSignal
<1>23. StoreInv'
  <2>1. answer' # "none" /\ comAsyncOperationSPtr_' => One("ProxyCleanup", Native)' \/ Overtaken'
    BY <1>9, <1>10, <1>14, NativeOvertaken DEF StoreInv
  <2> QED
    BY <1>2, <1>7, <1>9, <1>10, <1>19, <2>1, NativeStore DEF Claiming
<1> QED
  BY <1>12, <1>15, <1>16, <1>17, <1>18, <1>20, <1>21, <1>22, <1>23 DEF ContextInv

-----------------------------------------------------------------------------
(***************************************************************************)
(* The whole.                                                              *)
(***************************************************************************)
LEMMA ProxyStutters ==
    ASSUME ProxyInv, UNCHANGED proxyVars
    PROVE  ProxyInv'
<1> USE DEF ProxyInv, NativeInv
<1>1. UNCHANGED <<comVars, vars, skipCompleteOnCancel_, state_, callback_, result_, child_, invoked, answer,
                  comAsyncOperationSPtr_>>
  BY DEF proxyVars, comVars, com
<1>2. OpInv' /\ ResultInv' /\ ContextInv'
  BY <1>1, ContextNextKeeps
<1>3. UNCHANGED <<lifecycle, error_, cancelRequested, handedOver, stack>>
  BY <1>1 DEF vars, word
<1>4. \A t, k : F(t, k)' = F(t, k)
  BY <1>3 DEF F
<1>5. /\ \A x, o : One(x, o)' <=> One(x, o)
      /\ \A t, k, x, o : On(t, k, x, o)' <=> On(t, k, x, o)
      /\ \A x, o, e : Claimed(x, o, e)' <=> Claimed(x, o, e)
  BY <1>4 DEF One, On, Claimed
<1>6. \A p : Unique(p) => Unique(p)'
  BY <1>4 DEF Unique
<1>7. /\ \A x : Context(x)' <=> Context(x)
      /\ \A o, e : Claims(o, e)' <=> Claims(o, e)
      /\ \A e : ComClaims(e)' <=> ComClaims(e)
      /\ NativeStarting' <=> NativeStarting
      /\ Unbegun' <=> Unbegun
      /\ ComCompletingOrCompleted' <=> ComCompletingOrCompleted
  BY <1>1, <1>5 DEF Context, Claims, ComClaims, NativeStarting, Unbegun, ComCompletingOrCompleted
<1>8. (Entering' <=> Entering) /\ (Failed' <=> Failed)
  BY <1>5, <1>7 DEF Entering, Failed
<1>9. NativeTypes'
  BY <1>1, <1>3, <1>4 DEF NativeTypes
<1>10. EnterInv'
  <2>1. Unique({"ProxyBegun", "ProxyStore"})'
    BY <1>6 DEF EnterInv
  <2> QED
    BY <1>1, <1>3, <1>5, <1>7, <1>8, <2>1 DEF EnterInv
<1>11. EndsInv'
  <2>1. Unique({"ProxyFinish"})'
    BY <1>6 DEF EndsInv
  <2> QED
    BY <1>1, <1>5, <1>7, <2>1 DEF EndsInv
<1>12. ReportInv'
  BY <1>1, <1>3, <1>7, <1>8 DEF ReportInv, NativeJustified
<1>13. QuietInv'
  <2>1. \A o : Quiet(o)' <=> Quiet(o)
    BY <1>3, <1>5, <1>7 DEF Quiet
  <2> QED
    BY <1>1, <1>3, <1>7, <2>1 DEF QuietInv
<1>14. SignalInv'
  BY <1>1, <1>3, <1>5, <1>7 DEF SignalInv
<1>15. StoreInv'
  <2>1. Overtaken' <=> Overtaken
    BY <1>1, <1>3, <1>5 DEF Overtaken, CompletingOrCompleted
  <2> QED
    BY <1>1, <1>3, <1>4, <1>5, <1>8, <2>1 DEF StoreInv
<1> QED
  BY <1>2, <1>9, <1>10, <1>11, <1>12, <1>13, <1>14, <1>15

LEMMA ProxyNextKeeps ==
    ASSUME ProxyInv, [ProxyNext]_proxyVars
    PROVE  ProxyInv'
<1>1. ASSUME NEW t \in Thread, ComProceed(t), ~Overrides(t), UNCHANGED comAsyncOperationSPtr_
      PROVE  ProxyInv'
  <2> USE DEF ProxyInv
  <2>1. CASE Proceed(t) /\ ~(At(t, "Finish") /\ IsChild(Top(t).op, Proxy)) /\ UNCHANGED com
    BY <1>1, <2>1, ProceedKeeps, ProceedResults, ComProceedKeeps, ProceedNative
  <2>2. CASE ComStart(t) \/ ComAttach(t) \/ OnFinish(t) \/ ComTryComplete(t) \/ ComFinishComplete(t)
             \/ ComCleanup(t) \/ ComCleanupChild(t) \/ ComCancel(t) \/ ComCancelChild(t) \/ ComCancelSelf(t)
    <3>1. OpInv' /\ ResultInv' /\ ContextInv'
      BY <2>2, ComStartKeeps, ComAttachKeeps, OnFinishKeeps, ComTryCompleteKeeps,
         ComFinishCompleteKeeps, ComCleanupKeeps, ComCleanupChildKeeps, ComCancelKeeps,
         ComCancelChildKeeps, ComCancelSelfKeeps
    <3>2. ComSeenStep(t)
      BY <2>2, ComPlainSeen, ComStartSeen, OnFinishSeen, ComTryCompleteSeen, ComFinishCompleteSeen
    <3> QED
      BY <1>1, <3>1, <3>2, ComSeenNative
  <2> QED
    BY <1>1, <2>1, <2>2 DEF ComProceed
<1>2. ASSUME NEW t \in Thread, ProxyProceed(t) PROVE ProxyInv'
  BY <1>1, <1>2, ProxyOnStartKeeps, ProxyBeginFailsKeeps, ProxyNeverInvokedKeeps, ProxyBegunKeeps,
     ProxyStoreKeeps, ProxyInvokeKeeps, ProxyFinishKeeps, ProxyCleanupKeeps, ProxyCancelSignalsKeeps,
     ProxyCancelCompletesKeeps, ProxyOnCancelKeeps DEF ProxyProceed
<1>3. ASSUME NEW t \in Thread, WorkDone(t), UNCHANGED <<com, comAsyncOperationSPtr_>> PROVE ProxyInv'
  BY <1>3, WorkDoneKeeps, LeafResults, ComWorkDoneKeeps, WorkDoneNative DEF ProxyInv
<1>4. ASSUME NEW t \in Thread, CallCancel(t), UNCHANGED <<com, comAsyncOperationSPtr_>> PROVE ProxyInv'
  BY <1>4, CallCancelKeeps, CallCancelResults, CallCancelNative DEF ProxyInv
<1> QED
  BY <1>2, <1>3, <1>4, ProxyStutters DEF ProxyNext

LEMMA ProxyInitKeeps ==
    ASSUME ProxyInit
    PROVE  ProxyInv
<1>1. PICK f \in Frames : f = Frame("Begin", Native) /\ f.at = "Begin" /\ f.op = Native /\ f.kids = {}
  <2>1. "Begin" \in Places /\ Native \in Op
    BY NativeFacts DEF Places
  <2> QED
    BY <2>1, FrameFacts
<1>2. InitMembers /\ FirstCall(f) /\ ComInit /\ comAsyncOperationSPtr_ = FALSE
  BY <1>1 DEF ProxyInit
<1>3. OpInv /\ ResultInv
  BY <1>1, <1>2, NativeFacts, InitKeeps
<1>4. \A t \in Thread, k \in Nat : F(t, k) = IF t = User /\ k = 1 THEN f ELSE NoFrame
  <2>1. ASSUME NEW t \in Thread, NEW k \in Nat
        PROVE  F(t, k) = IF t = User /\ k = 1 THEN f ELSE NoFrame
    <3>1. CASE t = User
      <4>1. stack[t] = <<f>> /\ Len(stack[t]) = 1
        BY <1>2, <3>1 DEF FirstCall
      <4> QED
        BY <3>1, <4>1 DEF F
    <3>2. CASE t # User
      <4>1. stack[t] = <<>>
        BY <1>2, <3>2 DEF FirstCall
      <4> QED
        BY <3>2, <4>1 DEF F
    <3> QED
      BY <3>1, <3>2
  <2> QED
    BY <2>1
<1>5. NoFrame.at = "none" /\ User \in Thread /\ 1 \in Nat
  BY NoFrameFacts, TreeFacts
<1>6. /\ \A x, o : x # "none" => (One(x, o) <=> x = "Begin" /\ o = Native)
      /\ \A p : "none" \notin p => Unique(p)
      /\ \A x, o, e : x \notin {"none", "Begin"} => ~Claimed(x, o, e)
      /\ \A t \in Thread, k \in Nat : F(t, k).at \in {"none", "Begin"}
  BY <1>1, <1>4, <1>5 DEF One, On, Unique, Claimed
<1>7. /\ \A o \in Op : lifecycle[o] = "Created" /\ ~cancelRequested[o] /\ error_[o] = "Success"
      /\ refused = {} /\ asserts = {} /\ handedOver = {}
  BY <1>2 DEF InitMembers
<1>8. /\ skipCompleteOnCancel_ \in BOOLEAN /\ callback_ = TRUE /\ result_ = "Success"
      /\ child_ = FALSE /\ invoked = 0 /\ answer = "none"
      /\ state_ \in [lifecycle : Phase, observed : BOOLEAN, cancelRequested : BOOLEAN]
      /\ state_.lifecycle = "Created" /\ ~state_.cancelRequested /\ ~state_.observed
  BY <1>2 DEF ComInit, Phase
<1>9. Unbegun /\ NativeStarting /\ Entering
  BY <1>6, <1>8 DEF Unbegun, NativeStarting, Starting, Entering
<1>10. \A x \in ComPlaces : ~Context(x)
  BY <1>6 DEF Context, ComPlaces
<1>11. /\ \A x \in ProxyPlaces : ~One(x, Native)
       /\ \A o, e : ~Claims(o, e)
       /\ \A e : ~ComClaims(e)
  BY <1>6 DEF ProxyPlaces, Claims, ComClaims
<1>12. ComTypeInv
  BY <1>6, <1>8 DEF ComTypeInv, ComPlaces, Error
<1>13. AttachInv
  <2>1. Fresh(Inner) /\ ~cancelRequested[Proxy] /\ ~One("Cancel", Proxy)
    BY <1>6, <1>7, InnerFacts, NativeFacts DEF Fresh
  <2> QED
    BY <1>6, <1>7, <1>8, <1>9, <1>10, <2>1 DEF AttachInv, ComPlaces
<1>14. ReachInv
  BY <1>6, <1>8, <1>9, <1>10 DEF ReachInv, ComPlaces, Passed, ComCompletingOrCompleted
<1>15. InvokeInv
  <2>1. \A t \in Thread, k \in Nat : ~On(t, k + 1, "ComInvoke", Proxy)
    <3>1. \A k \in Nat : k + 1 \in Nat
      OBVIOUS
    <3> QED
      BY <1>6, <3>1 DEF On
  <2> QED
    BY <1>6, <1>8, <1>10, <2>1 DEF InvokeInv, ComPlaces, Over
<1>16. AnswerInv
  BY <1>8, <1>11 DEF AnswerInv, Over
<1>17. NativeTypes
  BY <1>2, <1>6, <1>7 DEF NativeTypes, ProxyPlaces
<1>18. EnterInv
  <2>1. \A t \in Thread, k \in Nat : ~On(t, k, "ProxyBegun", Native)
    BY <1>6 DEF On
  <2> QED
    BY <1>2, <1>6, <1>8, <1>9, <1>10, <1>11, <2>1 DEF EnterInv, ComPlaces, ProxyPlaces
<1>19. EndsInv
  BY <1>6, <1>8, <1>9, <1>10, <1>11 DEF EndsInv, ComPlaces, ProxyPlaces
<1>20. ReportInv
  BY <1>7, <1>11, NativeFacts DEF ReportInv, Over
<1>21. QuietInv
  <2>1. \A o \in Op : Quiet(o)
    BY <1>6, <1>7, <1>11 DEF Quiet
  <2> QED
    BY <1>8, <1>10, <1>11, <2>1 DEF QuietInv, ComCompletingOrCompleted, ComPlaces
<1>22. SignalInv
  BY <1>8, <1>10, <1>11 DEF SignalInv, ComPlaces, ProxyPlaces
<1>23. StoreInv
  <2>1. \A k \in Nat : k + 1 \in Nat
    OBVIOUS
  <2> QED
    BY <1>2, <1>6, <1>8, <2>1 DEF StoreInv
<1> QED
  BY <1>3, <1>12, <1>13, <1>14, <1>15, <1>16, <1>17, <1>18, <1>19, <1>20, <1>21, <1>22, <1>23
     DEF ProxyInv, ContextInv, NativeInv

(***************************************************************************)
(* Begin, callback, End and Cancel of a COM operation by the native one,   *)
(* and all that the layers inside do, keep the invariants of all three.    *)
(***************************************************************************)
THEOREM ProxyInvariant == ProxySpec => []ProxyInv
<1>1. ProxyInit => ProxyInv
  BY ProxyInitKeeps
<1>2. ProxyInv /\ [ProxyNext]_proxyVars => ProxyInv'
  BY ProxyNextKeeps
<1> QED
  BY <1>1, <1>2, PTL DEF ProxySpec

LEMMA ProxyImplies ==
    ASSUME ProxyInv
    PROVE  ComEndedOnce /\ ProxyResult /\ KeptOnlyAfterCancel
<1> USE DEF ProxyInv, NativeInv, ContextInv, OpInv
<1>1. ComEndedOnce
  <2>1. SUFFICES ASSUME state_.lifecycle = "Completed"
                 PROVE  Someone({"ComInvoke"}, Proxy) \/ Someone({"ProxyBegun", "ProxyFinish"}, Native)
    BY DEF ComEndedOnce, AttachInv, EndsInv
  <2>2. Context("ComInvoke") \/ One("ProxyBegun", Native) \/ One("ProxyFinish", Native)
    BY <2>1 DEF EndsInv, Unbegun
  <2>3. Context("ComInvoke") => Someone({"ComInvoke"}, Proxy)
    BY SomeoneIsOne DEF Context
  <2>4. One("ProxyBegun", Native) \/ One("ProxyFinish", Native) => Someone({"ProxyBegun", "ProxyFinish"}, Native)
    BY SomeoneIsOne
  <2> QED
    BY <2>2, <2>3, <2>4
<1>2. ProxyResult
  BY DEF ProxyResult, ReportInv, NativeJustified, Failed, Unbegun, Over
<1>3. KeptOnlyAfterCancel
  <2>1. SUFFICES ASSUME answer # "none", lifecycle[Native] \in Over,
                        ~Someone({"ProxyStore", "ProxyCleanup"}, Native), comAsyncOperationSPtr_
                 PROVE  /\ error_[Native] = "OperationCanceled" /\ cancelRequested[Native]
                        /\ answer # "OperationCanceled"
    BY DEF KeptOnlyAfterCancel, BothOver, Over
  <2>2. ~One("ProxyCleanup", Native)
    BY <2>1, SomeoneIsOne
  <2>3. error_[Native] # answer
    BY <2>1, <2>2 DEF StoreInv, Overtaken
  <2>4. ~Unbegun
    <3>1. answer # "none" => state_.lifecycle = "Ended"
      BY DEF InvokeInv
    <3> QED
      BY <2>1, <3>1 DEF Unbegun
  <2>5. error_[Native] = "OperationCanceled" /\ cancelRequested[Native]
    BY <2>1, <2>3, <2>4 DEF ReportInv, NativeJustified, Failed
  <2> QED
    BY <2>3, <2>5
<1> QED
  BY <1>1, <1>2, <1>3

(***************************************************************************)
(* A COM operation that was begun is ended, once, either by OnStart or by  *)
(* the callback, whoever of them finds it completed, and no assert fails   *)
(* but that of AttachChild, with any operations inside and any number of   *)
(* threads that cancel.                                                    *)
(***************************************************************************)
THEOREM ComIsEndedOnce == ProxySpec => []ComEndedOnce
<1>1. ProxyInv => ComEndedOnce
  BY ProxyImplies
<1> QED
  BY <1>1, ProxyInvariant, PTL

(***************************************************************************)
(* The native operation is completed with what End answered, with the      *)
(* failure to begin, or with its own cancellation.                         *)
(***************************************************************************)
THEOREM ProxyResultIsAnswer == ProxySpec => []ProxyResult
<1>1. ProxyInv => ProxyResult
  BY ProxyImplies
<1> QED
  BY <1>1, ProxyInvariant, PTL

(***************************************************************************)
(* Whatever is cancelled when: an operation that is over keeps the context *)
(* of a COM operation that was ended only if it was cancelled and reports  *)
(* that; whoever reports what End has answered has let go of it.           *)
(***************************************************************************)
THEOREM ContextIsKeptOnlyAfterCancel == ProxySpec => []KeptOnlyAfterCancel
<1>1. ProxyInv => KeptOnlyAfterCancel
  BY ProxyImplies
<1> QED
  BY <1>1, ProxyInvariant, PTL

-----------------------------------------------------------------------------
(***************************************************************************)
(* state_ of the context as AsyncOperationState promises it.               *)
(***************************************************************************)
ContextEndedBy ==
    IF state_.lifecycle # "Ended" THEN "nobody" ELSE IF state_.observed THEN "callback" ELSE "starter"

ContextLife == INSTANCE OperationLifecycle WITH
    lifecycle <- state_.lifecycle, observed <- state_.observed,
    cancelRequested <- state_.cancelRequested, endedBy <- ContextEndedBy

\* A transition that is made moves to the next phase.
LEMMA ComMoves ==
    ASSUME ComTypeInv, NEW from \in Phase, NEW to \in Phase, NEW name,
           ComTransition(from, to, name), name # "attach", asserts' \subseteq {"attach"}
    PROVE  ContextLife!Move(from, to)
<1>1. state_.lifecycle = from
  BY DEF ComTransition
<1>2. state_' = [state_ EXCEPT !.lifecycle = to]
  BY <1>1 DEF ComTransition
<1> QED
  BY <1>1, <1>2 DEF ContextLife!Move, ComTypeInv

LEMMA ComProceedLives ==
    ASSUME OpInv, ContextInv, ContextInv', NEW t \in Thread, ComProceed(t)
    PROVE  [ContextLife!Next]_(ContextLife!vars)
<1> USE DEF ContextInv
<1>1. asserts' \subseteq {"attach"}
  BY DEF AttachInv
<1>2. CASE ComStart(t)
  <2>1. ContextLife!Move("Created", "Started")
    BY <1>1, <1>2, ComMoves DEF ComStart, Phase
  <2> QED
    BY <2>1 DEF ContextLife!Next, ContextLife!Start, ContextLife!Move, ContextEndedBy
<1>3. CASE ComFinishComplete(t)
  <2>1. ContextLife!Move("Completing", "Completed")
    BY <1>1, <1>3, ComMoves DEF ComFinishComplete, Phase
  <2> QED
    BY <2>1 DEF ContextLife!Next, ContextLife!Complete, ContextLife!Move, ContextEndedBy
<1>4. CASE ComTryComplete(t)
  <2>1. CASE state_.lifecycle = "Started" /\ state_' = [state_ EXCEPT !.lifecycle = "Completing"]
    <3>1. ContextLife!Move("Started", "Completing")
      BY <2>1 DEF ContextLife!Move, ComTypeInv
    <3> QED
      BY <3>1 DEF ContextLife!Next, ContextLife!StartComplete, ContextLife!Move, ContextEndedBy
  <2>2. CASE UNCHANGED state_
    BY <2>2 DEF ContextLife!vars, ContextEndedBy
  <2> QED
    BY <1>4, <2>1, <2>2 DEF ComTryComplete
<1>5. CASE ComCancel(t)
  <2>1. Context("ComCancel")
    BY <1>5, ComAtTop DEF ComCancel, OpInv, ComPlaces, Context, One
  <2>2. state_.lifecycle # "Created"
    BY <2>1 DEF AttachInv, Unbegun
  <2>3. CASE ~state_.cancelRequested /\ state_' = [state_ EXCEPT !.cancelRequested = TRUE]
    <3>1. /\ state_'.cancelRequested = TRUE /\ state_'.lifecycle = state_.lifecycle
          /\ state_'.observed = state_.observed
      BY <2>3 DEF ComTypeInv
    <3> QED
      BY <2>2, <2>3, <3>1 DEF ContextLife!Next, ContextLife!RequestCancel, ContextEndedBy
  <2>4. CASE UNCHANGED state_
    BY <2>4 DEF ContextLife!vars, ContextEndedBy
  <2> QED
    BY <1>5, <2>3, <2>4 DEF ComCancel
<1>6. CASE UNCHANGED state_
  BY <1>6 DEF ContextLife!vars, ContextEndedBy
<1>7. \/ ComStart(t) \/ ComFinishComplete(t) \/ ComTryComplete(t) \/ ComCancel(t) \/ UNCHANGED state_
  BY DEF ComProceed, ComAttach, OnFinish, ComCleanup, ComCleanupChild, ComCancelChild, ComCancelSelf, com
<1> QED
  BY <1>2, <1>3, <1>4, <1>5, <1>6, <1>7

\* End, which is called of a completed context.
LEMMA ComEndLives ==
    ASSUME ComTypeInv, NEW result, ComEnded(result)
    PROVE  [ContextLife!Next]_(ContextLife!vars)
<1>1. CASE state_.lifecycle = "Completed"
  <2>1. /\ state_'.lifecycle = "Ended" /\ state_'.observed = state_.observed
        /\ state_'.cancelRequested = state_.cancelRequested
    BY <1>1 DEF ComEnded, ComTypeInv
  <2> QED
    BY <1>1, <2>1 DEF ContextLife!Next, ContextLife!End, ContextLife!Move, ContextLife!Designated,
                      ContextEndedBy
<1>2. CASE state_.lifecycle # "Completed"
  BY <1>2 DEF ComEnded, ContextLife!vars, ContextEndedBy
<1> QED
  BY <1>1, <1>2

\* CompletedSynchronously of the context, asked by OnStart and by the callback.
LEMMA ComObserveLives ==
    ASSUME ComTypeInv, ComObserve
    PROVE  [ContextLife!Next]_(ContextLife!vars)
<1>1. /\ state_'.observed = (state_.observed \/ state_.lifecycle \in {"Started", "Completing"})
      /\ state_'.lifecycle = state_.lifecycle /\ state_'.cancelRequested = state_.cancelRequested
  BY DEF ComObserve, ComTypeInv
<1>2. CASE state_.lifecycle \in {"Started", "Completing"}
  BY <1>1, <1>2 DEF ContextLife!Next, ContextLife!Observe, ContextEndedBy
<1>3. CASE state_.lifecycle \notin {"Started", "Completing"}
  <2>1. state_'.observed = state_.observed
    BY <1>1, <1>3 DEF ComTypeInv
  <2> QED
    BY <1>1, <2>1 DEF ContextLife!vars, ContextEndedBy
<1> QED
  BY <1>2, <1>3

\* The words of the operations inside, of which OnFinish ends one.
LEMMA OnFinishLives ==
    ASSUME OpInv, NEW op \in Op \ Host, NEW t \in Thread, OnFinish(t)
    PROVE  [Life(op)!Next]_(Life(op)!vars)
<1> USE DEF OpInv
<1>1. PICK d \in Nat, o \in Op : AtTop(t, d, "Finish", o) /\ One("Finish", o)
  BY TopFacts DEF OnFinish
<1>2. lifecycle[o] = "Completed" /\ lifecycle' = [lifecycle EXCEPT ![o] = "Ended"]
      /\ UNCHANGED <<observed, cancelRequested>>
  BY <1>1 DEF OnFinish, AtTop, Transition, EndInv
<1>3. CASE o = op
  <2>1. lifecycle'[op] = "Ended"
    BY <1>2, <1>3 DEF TypeInv
  <2>2. EndedBy(op)' = Life(op)!Designated
    BY <1>2, <2>1 DEF EndedBy, Life!Designated
  <2> QED
    BY <1>2, <1>3, <2>1, <2>2 DEF Life!Next, Life!End, Life!Move
<1>4. CASE o # op
  BY <1>2, <1>4, SameWord DEF TypeInv
<1> QED
  BY <1>3, <1>4

LEMMA ComProceedWords ==
    ASSUME OpInv, NEW op \in Op \ Host, NEW t \in Thread, ComProceed(t)
    PROVE  [Life(op)!Next]_(Life(op)!vars)
<1>1. CASE Proceed(t)
  BY <1>1, ProceedLives
<1>2. CASE OnFinish(t)
  BY <1>2, OnFinishLives
<1>3. CASE UNCHANGED word
  BY <1>3, SameWord DEF word
<1>4. Proceed(t) \/ OnFinish(t) \/ UNCHANGED word
  BY DEF ComProceed, ComStart, ComAttach, ComTryComplete, ComFinishComplete, ComCleanup,
         ComCleanupChild, ComCancel, ComCancelChild, ComCancelSelf, others
<1> QED
  BY <1>1, <1>2, <1>3, <1>4

LEMMA ProxyProceedWords ==
    ASSUME OpInv, NEW op \in Op \ Host, NEW t \in Thread, ProxyProceed(t)
    PROVE  [Life(op)!Next]_(Life(op)!vars)
<1>1. CASE ComProceed(t)
  BY <1>1, ComProceedWords
<1>2. CASE ProxyCancelCompletes(t)
  <2>1. CASE lifecycle[Native] = "Started" /\ lifecycle' = [lifecycle EXCEPT ![Native] = "Completing"]
             /\ op = Native
    <3>1. lifecycle'[op] = "Completing" /\ UNCHANGED <<observed, cancelRequested>>
      BY <1>2, <2>1 DEF ProxyCancelCompletes, OpInv, TypeInv
    <3> QED
      BY <2>1, <3>1 DEF Life!Next, Life!StartComplete, Life!Move, EndedBy
  <2>2. CASE lifecycle'[op] = lifecycle[op]
    BY <1>2, <2>2, SameWord DEF ProxyCancelCompletes
  <2>3. \/ lifecycle[Native] = "Started" /\ lifecycle' = [lifecycle EXCEPT ![Native] = "Completing"]
           /\ op = Native
        \/ lifecycle'[op] = lifecycle[op]
    BY <1>2 DEF ProxyCancelCompletes, OpInv, TypeInv
  <2> QED
    BY <2>1, <2>2, <2>3
<1>3. CASE UNCHANGED word
  BY <1>3, SameWord DEF word
<1>4. ComProceed(t) \/ ProxyCancelCompletes(t) \/ UNCHANGED word
  BY DEF ProxyProceed, ProxyOnStart, ProxyBeginFails, ProxyNeverInvoked, ProxyBegun, ProxyStore,
         ProxyInvoke, ProxyFinish, ProxyCleanup, ProxyCancelSignals, ProxyOnCancel
<1> QED
  BY <1>1, <1>2, <1>3, <1>4

LEMMA ProxyProceedLives ==
    ASSUME ProxyInv, ProxyInv', NEW t \in Thread, ProxyProceed(t)
    PROVE  [ContextLife!Next]_(ContextLife!vars)
<1>1. OpInv /\ ContextInv /\ ContextInv' /\ ComTypeInv
  BY DEF ProxyInv, ContextInv
<1>2. CASE ComProceed(t)
  BY <1>1, <1>2, ComProceedLives
<1>3. CASE ProxyBegun(t) \/ ProxyInvoke(t)
  BY <1>1, <1>3, ComObserveLives DEF ProxyBegun, ProxyInvoke
<1>4. CASE ProxyFinish(t)
  BY <1>1, <1>4, ComEndLives DEF ProxyFinish
<1>5. CASE UNCHANGED state_
  BY <1>5 DEF ContextLife!vars, ContextEndedBy
<1>6. ComProceed(t) \/ ProxyBegun(t) \/ ProxyInvoke(t) \/ ProxyFinish(t) \/ UNCHANGED state_
  BY DEF ProxyProceed, ProxyOnStart, ProxyBeginFails, ProxyNeverInvoked, ProxyStore, ProxyCleanup,
         ProxyCancelSignals, ProxyCancelCompletes, ProxyOnCancel, com
<1> QED
  BY <1>2, <1>3, <1>4, <1>5, <1>6
-----------------------------------------------------------------------------
(***************************************************************************)
(* Under a client that may cancel and that ends the context once it has    *)
(* been called back, state_ of the context lives as OperationLifecycle     *)
(* says: its Cancel comes after Start, and nothing is done twice.          *)
(***************************************************************************)
THEOREM ContextLives == ContextSpec => ContextLife!Spec
<1>1. ContextInit => ContextLife!Init
  BY DEF ContextInit, ComInit, ContextLife!Init, ContextEndedBy
<1>2. OpInv /\ ContextInv /\ ContextInv' /\ [ContextNext]_comVars
      => [ContextLife!Next]_(ContextLife!vars)
  <2>1. SUFFICES ASSUME OpInv, ContextInv, ContextInv', [ContextNext]_comVars
                 PROVE  [ContextLife!Next]_(ContextLife!vars)
    OBVIOUS
  <2>2. CASE ClientEnds
    BY <2>1, <2>2, ComEndLives DEF ClientEnds, ContextInv
  <2>3. CASE UNCHANGED state_
    BY <2>3 DEF ContextLife!vars, ContextEndedBy
  <2>4. ClientEnds \/ UNCHANGED state_ \/ \E t \in Thread : ComProceed(t)
    BY <2>1 DEF ContextNext, ComInvoke, ComCallCancel, comVars, com
  <2> QED
    BY <2>1, <2>2, <2>3, <2>4, ComProceedLives
<1> QED
  BY <1>1, <1>2, ContextInvariant, PTL DEF ContextSpec, ContextLife!Spec

(***************************************************************************)
(* The same with a native operation as the client, which asks for          *)
(* CompletedSynchronously in OnStart and in the callback, and with it the  *)
(* state word of every native operation, inside the context and outside.   *)
(***************************************************************************)
THEOREM ComOperationLives == ProxySpec => ContextLife!Spec
<1>1. ProxyInit => ContextLife!Init
  BY DEF ProxyInit, ComInit, ContextLife!Init, ContextEndedBy
<1>2. ProxyInv /\ ProxyInv' /\ [ProxyNext]_proxyVars => [ContextLife!Next]_(ContextLife!vars)
  <2>1. SUFFICES ASSUME ProxyInv, ProxyInv', [ProxyNext]_proxyVars
                 PROVE  [ContextLife!Next]_(ContextLife!vars)
    OBVIOUS
  <2>2. CASE UNCHANGED state_
    BY <2>2 DEF ContextLife!vars, ContextEndedBy
  <2>3. UNCHANGED state_ \/ \E t \in Thread : ProxyProceed(t)
    BY <2>1 DEF ProxyNext, proxyVars, comVars, com
  <2> QED
    BY <2>1, <2>2, <2>3, ProxyProceedLives
<1> QED
  BY <1>1, <1>2, ProxyInvariant, PTL DEF ProxySpec, ContextLife!Spec

(***************************************************************************)
(* The native operation and those inside the context live as               *)
(* OperationLifecycle says, although OnFinish of the context ends one of   *)
(* them, and Cancel of the native operation is one of its own.             *)
(***************************************************************************)
THEOREM NativeOperationsLive == ASSUME NEW op \in Op \ Host PROVE ProxySpec => Life(op)!Spec
<1>1. ProxyInit => Life(op)!Init
  BY DEF ProxyInit, InitMembers, Life!Init, EndedBy
<1>2. ProxyInv /\ [ProxyNext]_proxyVars => [Life(op)!Next]_(Life(op)!vars)
  <2>1. SUFFICES ASSUME ProxyInv, [ProxyNext]_proxyVars PROVE [Life(op)!Next]_(Life(op)!vars)
    OBVIOUS
  <2>2. CASE UNCHANGED word
    BY <2>2, SameWord DEF word
  <2>3. UNCHANGED word \/ \E t \in Thread : ProxyProceed(t)
    BY <2>1 DEF ProxyNext, WorkDone, CallCancel, proxyVars, comVars, vars
  <2>4. OpInv
    BY <2>1 DEF ProxyInv
  <2> QED
    BY <2>2, <2>3, <2>4, ProxyProceedWords
<1> QED
  BY <1>1, <1>2, ProxyInvariant, PTL DEF ProxySpec, Life!Spec

-----------------------------------------------------------------------------
(***************************************************************************)
(* What the context promises its client, in the terms of AsyncPromise.     *)
(***************************************************************************)
ComPromise == INSTANCE AsyncPromise WITH
    Answers <- Error,
    status <- StatusOf(state_.lifecycle),
    result <- IF state_.lifecycle \in Over THEN result_ ELSE "none",
    calls <- invoked,
    told <- answer

LEMMA SameComPromise ==
    ASSUME state_'.lifecycle = state_.lifecycle, UNCHANGED <<result_, invoked, answer>>
    PROVE  UNCHANGED ComPromise!vars
BY DEF ComPromise!vars

LEMMA ComProceedKeepsPromise ==
    ASSUME OpInv, ContextInv, ContextInv', NEW t \in Thread, ComProceed(t)
    PROVE  [ComPromise!Next]_(ComPromise!vars)
<1> USE DEF ContextInv
<1>1. asserts' \subseteq {"attach"}
  BY DEF AttachInv
<1>2. CASE ComStart(t)
  <2>1. ContextLife!Move("Created", "Started") /\ UNCHANGED <<result_, invoked, answer>>
    BY <1>1, <1>2, ComMoves DEF ComStart, Phase
  <2> QED
    BY <2>1 DEF ComPromise!Next, ComPromise!Begin, ContextLife!Move, StatusOf, Over
<1>3. CASE ComFinishComplete(t)
  <2>1. ContextLife!Move("Completing", "Completed") /\ UNCHANGED <<invoked, answer>>
    BY <1>1, <1>3, ComMoves DEF ComFinishComplete, Phase
  <2>2. result_' \in Error
    BY DEF ComTypeInv
  <2> QED
    BY <2>1, <2>2 DEF ComPromise!Next, ComPromise!Answer, ContextLife!Move, StatusOf, Over
<1>4. CASE ComTryComplete(t)
  <2>1. CASE state_.lifecycle = "Started" /\ state_' = [state_ EXCEPT !.lifecycle = "Completing"]
    <3>1. state_'.lifecycle = "Completing" /\ UNCHANGED <<result_, invoked, answer>>
      BY <1>4, <2>1 DEF ComTryComplete, ComTypeInv
    <3> QED
      BY <2>1, <3>1 DEF ComPromise!vars, StatusOf, Over
  <2>2. CASE UNCHANGED state_
    BY <1>4, <2>2, SameComPromise DEF ComTryComplete
  <2> QED
    BY <1>4, <2>1, <2>2 DEF ComTryComplete
<1>5. CASE state_'.lifecycle = state_.lifecycle /\ UNCHANGED <<result_, invoked, answer>>
  BY <1>5, SameComPromise
<1>6. CASE ComCancel(t)
  BY <1>5, <1>6 DEF ComCancel, ComTypeInv
<1>7. \/ ComStart(t) \/ ComFinishComplete(t) \/ ComTryComplete(t) \/ ComCancel(t)
      \/ UNCHANGED <<state_, result_, invoked, answer>>
  BY DEF ComProceed, ComAttach, OnFinish, ComCleanup, ComCleanupChild, ComCancelChild, ComCancelSelf, com
<1> QED
  BY <1>2, <1>3, <1>4, <1>5, <1>6, <1>7

\* The callback of the client, which may observe the context.
LEMMA InvokeKeepsPromise ==
    ASSUME OpInv, ContextInv, NEW t \in Thread, At(t, "ComInvoke"), invoked' = invoked + 1,
           state_'.lifecycle = state_.lifecycle, UNCHANGED <<result_, answer>>
    PROVE  ComPromise!Next
<1> USE DEF ContextInv
<1>1. Context("ComInvoke")
  BY ComAtTop DEF OpInv, ComPlaces, Context, One
<1>2. state_.lifecycle \in Over /\ invoked = 0
  BY <1>1 DEF InvokeInv
<1> QED
  BY <1>2 DEF ComPromise!Next, ComPromise!CallBack, StatusOf, Over

\* End of a context that is completed.
LEMMA EndKeepsPromise ==
    ASSUME ContextInv, state_.lifecycle = "Completed", NEW r, ComEnded(r), answer' = r,
           UNCHANGED <<result_, invoked>>
    PROVE  ComPromise!Next
<1> USE DEF ContextInv
<1>1. state_'.lifecycle = "Ended" /\ answer' = result_
  BY DEF ComEnded, ComTypeInv
<1>2. answer = "none"
  BY DEF InvokeInv
<1> QED
  BY <1>1, <1>2 DEF ComPromise!Next, ComPromise!End, ComPromise!Tell, StatusOf, Over

(***************************************************************************)
(* A context keeps the promise of an asynchronous operation to a COM       *)
(* client: one completion wins, the client is called back once, with the   *)
(* result there, and End answers that result, which never changes.         *)
(***************************************************************************)
THEOREM ContextKeepsPromise == ContextSpec => ComPromise!Spec
<1>1. ContextInit => ComPromise!Init
  BY DEF ContextInit, ComInit, ComPromise!Init, StatusOf, Over
<1>2. OpInv /\ ContextInv /\ ContextInv' /\ [ContextNext]_comVars => [ComPromise!Next]_(ComPromise!vars)
  <2>1. SUFFICES ASSUME OpInv, ContextInv, ContextInv', [ContextNext]_comVars
                 PROVE  [ComPromise!Next]_(ComPromise!vars)
    OBVIOUS
  <2>2. CASE ClientEnds
    <3>1. state_.lifecycle = "Completed"
      <4>1. state_.lifecycle \in Over /\ state_.lifecycle # "Ended"
        BY <2>1, <2>2 DEF ClientEnds, ContextInv, InvokeInv
      <4> QED
        BY <4>1 DEF Over
    <3> QED
      BY <2>1, <2>2, <3>1, EndKeepsPromise DEF ClientEnds
  <2>3. ASSUME NEW t \in Thread, ComInvoke(t)
        PROVE  ComPromise!Next
    <3>1. Context("ComInvoke")
      BY <2>1, <2>3, ComAtTop DEF ComInvoke, OpInv, ContextInv, ComPlaces, Context, One
    <3>2. callback_
      BY <2>1, <3>1 DEF ContextInv, InvokeInv
    <3> QED
      BY <2>1, <2>3, <3>2, InvokeKeepsPromise DEF ComInvoke
  <2>4. CASE UNCHANGED <<state_, result_, invoked, answer>>
    BY <2>4, SameComPromise
  <2>5. \/ ClientEnds \/ UNCHANGED <<state_, result_, invoked, answer>>
        \/ \E t \in Thread : ComProceed(t) \/ ComInvoke(t)
    BY <2>1 DEF ContextNext, ComCallCancel, comVars, com
  <2> QED
    BY <2>1, <2>2, <2>3, <2>4, <2>5, ComProceedKeepsPromise
<1> QED
  BY <1>1, <1>2, ContextInvariant, PTL DEF ContextSpec, ComPromise!Spec

(***************************************************************************)
(* It keeps that promise to a native operation too, which calls End from   *)
(* OnStart or from the callback, whoever finds the context completed.      *)
(***************************************************************************)
THEOREM ComOperationKeepsPromise == ProxySpec => ComPromise!Spec
<1>1. ProxyInit => ComPromise!Init
  BY DEF ProxyInit, ComInit, ComPromise!Init, StatusOf, Over
<1>2. ProxyInv /\ ProxyInv' /\ [ProxyNext]_proxyVars => [ComPromise!Next]_(ComPromise!vars)
  <2>1. SUFFICES ASSUME ProxyInv, ProxyInv', [ProxyNext]_proxyVars
                 PROVE  [ComPromise!Next]_(ComPromise!vars)
    OBVIOUS
  <2>2. OpInv /\ ContextInv /\ ContextInv' /\ ComTypeInv
    BY <2>1 DEF ProxyInv, ContextInv
  <2>3. ASSUME NEW t \in Thread, ProxyInvoke(t)
        PROVE  ComPromise!Next
    <3>1. state_'.lifecycle = state_.lifecycle
      BY <2>2, <2>3 DEF ProxyInvoke, ComObserve, ComTypeInv
    <3> QED
      BY <2>2, <2>3, <3>1, InvokeKeepsPromise DEF ProxyInvoke
  <2>4. ASSUME NEW t \in Thread, ProxyFinish(t)
        PROVE  ComPromise!Next
    <3>1. One("ProxyFinish", Native)
      <4>1. "ProxyFinish" \in ProxyPlaces
        BY DEF ProxyPlaces
      <4> QED
        BY <2>1, <2>2, <2>4, <4>1, NativeTop DEF ProxyFinish, ProxyInv, NativeInv
    <3>2. state_.lifecycle = "Completed"
      BY <2>1, <3>1 DEF ProxyInv, NativeInv, EndsInv
    <3> QED
      BY <2>2, <2>4, <3>2, EndKeepsPromise DEF ProxyFinish
  <2>5. ASSUME NEW t \in Thread, ProxyBegun(t)
        PROVE  UNCHANGED ComPromise!vars
    <3>1. state_'.lifecycle = state_.lifecycle
      BY <2>2, <2>5 DEF ProxyBegun, ComObserve, ComTypeInv
    <3> QED
      BY <2>5, <3>1, SameComPromise DEF ProxyBegun
  <2>6. CASE UNCHANGED <<state_, result_, invoked, answer>>
    BY <2>6, SameComPromise
  <2>7. \/ UNCHANGED <<state_, result_, invoked, answer>>
        \/ \E t \in Thread : ComProceed(t) \/ ProxyInvoke(t) \/ ProxyFinish(t) \/ ProxyBegun(t)
    BY <2>1 DEF ProxyNext, ProxyProceed, ProxyOnStart, ProxyBeginFails, ProxyNeverInvoked, ProxyStore,
                ProxyCleanup, ProxyCancelSignals, ProxyCancelCompletes, ProxyOnCancel, proxyVars, comVars, com
  <2> QED
    BY <2>2, <2>3, <2>4, <2>5, <2>6, <2>7, ComProceedKeepsPromise
<1> QED
  BY <1>1, <1>2, ProxyInvariant, PTL DEF ProxySpec, ComPromise!Spec

-----------------------------------------------------------------------------
(***************************************************************************)
(* The promises of the operations inside the context, and of the native    *)
(* operation.                                                              *)
(***************************************************************************)
LEMMA ComQuietCallbacks ==
    ASSUME OpInv, ContextInv, NEW t \in Thread, ComProceed(t), ~Proceed(t), NEW op
    PROVE  One("Callback", op)' <=> One("Callback", op)
<1>1. ComSeenStep(t)
  BY ComPlainSeen, ComStartSeen, OnFinishSeen, ComTryCompleteSeen, ComFinishCompleteSeen DEF ComProceed
<1>2. PICK at \in Places, d \in Nat, f \in Frames, g \in Frames : ComSeen(t, at, d, f, g)
  BY <1>1 DEF ComSeenStep
<1>3. /\ Moves(t, d, f, g) /\ F(t, d + 1) = NoFrame
      /\ F(t, d).at # "Callback" /\ f.at # "Callback" /\ g.at # "Callback"
  BY <1>2 DEF ComSeen, ComPlaces
<1> QED
  BY <1>3, OneMoves DEF On

LEMMA ComProceedKeepsPromises ==
    ASSUME OpInv, ContextInv, NEW op \in Op, NEW t \in Thread, ComProceed(t)
    PROVE  [Promise(op)!Next]_(Promise(op)!vars)
<1>1. SUFFICES ASSUME ~Proceed(t) PROVE [Promise(op)!Next]_(Promise(op)!vars)
  BY ProceedKeepsPromise
<1>2. One("Callback", op)' <=> One("Callback", op)
  BY <1>1, ComQuietCallbacks
<1>3. CASE OnFinish(t)
  <2>1. PICK d \in Nat, o \in Op : AtTop(t, d, "Finish", o) /\ One("Finish", o)
    BY <1>3, TopFacts DEF OnFinish, OpInv
  <2>2. /\ lifecycle[o] = "Completed" /\ lifecycle' = [lifecycle EXCEPT ![o] = "Ended"]
        /\ UNCHANGED error_
    BY <1>3, <2>1 DEF OnFinish, AtTop, Transition, OpInv, EndInv
  <2>3. CASE o = op
    <3>1. lifecycle'[op] = "Ended"
      BY <2>2, <2>3 DEF OpInv, TypeInv
    <3>2. CallsOf(op)' = CallsOf(op)
      BY <1>2, <2>2, <2>3, <3>1 DEF CallsOf, Over
    <3> QED
      BY <2>2, <2>3, <3>1, <3>2 DEF Promise!Next, Promise!End, Promise!Tell, StatusOf, Over
  <2>4. CASE o # op
    BY <1>2, <2>2, <2>4, SamePromise DEF OpInv, TypeInv
  <2> QED
    BY <2>3, <2>4
<1>4. CASE UNCHANGED <<lifecycle, error_>>
  BY <1>2, <1>4, SamePromise
<1>5. OnFinish(t) \/ UNCHANGED <<lifecycle, error_>>
  BY <1>1 DEF ComProceed, ComStart, ComAttach, ComTryComplete, ComFinishComplete, ComCleanup,
              ComCleanupChild, ComCancel, ComCancelChild, ComCancelSelf, others, word
<1> QED
  BY <1>3, <1>4, <1>5

(***************************************************************************)
(* Each operation inside the context keeps its promise, although the       *)
(* callback and End of the first one are those of the context.             *)
(***************************************************************************)
THEOREM InnerOperationsKeepPromise == ASSUME NEW op \in Op PROVE ContextSpec => Promise(op)!Spec
<1>1. ContextInit => Promise(op)!Init
  BY DEF ContextInit, InitMembers, Promise!Init, StatusOf, CallsOf, Over
<1>2. OpInv /\ ContextInv /\ [ContextNext]_comVars => [Promise(op)!Next]_(Promise(op)!vars)
  <2>1. SUFFICES ASSUME OpInv, ContextInv, [ContextNext]_comVars
                 PROVE  [Promise(op)!Next]_(Promise(op)!vars)
    OBVIOUS
  <2>2. ASSUME NEW t \in Thread, ComInvoke(t)
        PROVE  UNCHANGED Promise(op)!vars
    <3>1. UNCHANGED <<lifecycle, error_>> /\ At(t, "ComInvoke") /\ Return(t)
      BY <2>2 DEF ComInvoke, others, word
    <3>2. One("Callback", op)' <=> One("Callback", op)
      BY <2>1, <3>1, GotoCallback, NoFrameFacts DEF OpInv
    <3> QED
      BY <3>1, <3>2, SamePromise
  <2>3. ASSUME NEW t \in Thread, ComCallCancel(t)
        PROVE  UNCHANGED Promise(op)!vars
    <3>1. /\ UNCHANGED <<lifecycle, error_>> /\ stack[t] = <<>>
          /\ stack' = [stack EXCEPT ![t] = <<Frame("ComCancel", Proxy)>>]
      BY <2>1, <2>3 DEF ComCallCancel, others, word, OpInv, TypeInv
    <3>2. PICK f \in Frames : f = Frame("ComCancel", Proxy) /\ f.at = "ComCancel"
      <4>1. "ComCancel" \in Places /\ Proxy \in Op
        BY InnerFacts DEF Places
      <4> QED
        BY <4>1, FrameFacts
    <3>3. F(t, 1) = NoFrame /\ F(t, 2) = NoFrame /\ Moves(t, 1, f, NoFrame)
      BY <2>1, <3>1, <3>2, BeginMoves DEF OpInv
    <3>4. One("Callback", op)' <=> One("Callback", op)
      BY <3>2, <3>3, OneMoves, NoFrameFacts DEF On
    <3> QED
      BY <3>1, <3>4, SamePromise
  <2>4. CASE UNCHANGED vars
    <3>1. One("Callback", op)' <=> One("Callback", op)
      BY <2>4 DEF vars, One, On, F
    <3> QED
      BY <2>4, <3>1, SamePromise DEF vars, word
  <2>5. \/ UNCHANGED vars
        \/ \E t \in Thread : ComProceed(t) \/ ComInvoke(t) \/ ComCallCancel(t) \/ WorkDone(t)
    BY <2>1 DEF ContextNext, ClientEnds, comVars
  <2> QED
    BY <2>1, <2>2, <2>3, <2>4, <2>5, ComProceedKeepsPromises, EnterKeepsPromise
<1> QED
  BY <1>1, <1>2, ContextInvariant, PTL DEF ContextSpec, Promise!Spec

\* The frames that the steps of the native operation put on the stack.
LEMMA NativePuts ==
    ASSUME NEW at \in Places \ {"Callback"}, NEW o \in {Native, Proxy}
    PROVE  /\ Frame(at, o) \in Frames /\ Frame(at, o).at # "Callback"
           /\ \A e \in Error : /\ [Frame(at, o) EXCEPT !.err = e] \in Frames
                               /\ [Frame(at, o) EXCEPT !.err = e].at # "Callback"
<1>1. o \in Op
  BY NativeFacts, InnerFacts
<1> QED
  BY <1>1, FrameFacts, PutError

LEMMA NativeQuietCallbacks ==
    ASSUME OpInv, ContextInv, NEW t \in Thread, ProxyProceed(t), ~ComProceed(t), NEW op
    PROVE  One("Callback", op)' <=> One("Callback", op)
<1> DEFINE Placed == Places \ {"Callback"}
<1>1. /\ {"ProxyBegun", "ComStart", "ProxyNeverInvoked", "TryComplete", "StartReturns", "Cancel",
          "ProxyFinish", "ProxyStore", "ProxyCleanup", "ProxyOnCancel", "FinishComplete",
          "ComCancel"} \subseteq Placed
      /\ "Failure" \in Error /\ "OperationCanceled" \in Error /\ TypeInv
  BY DEF Places, Error, OpInv
<1> HIDE DEF Placed
<1>2. \A at \in Placed, o \in {Native, Proxy} :
         /\ Frame(at, o) \in Frames /\ Frame(at, o).at # "Callback"
         /\ \A e \in Error : /\ [Frame(at, o) EXCEPT !.err = e] \in Frames
                             /\ [Frame(at, o) EXCEPT !.err = e].at # "Callback"
  BY NativePuts DEF Placed
<1>3. CASE ProxyOnStart(t)
  <2>1. At(t, "OnStart") /\ Call(t, Frame("ProxyBegun", Native), Frame("ComStart", Proxy))
    BY <1>3 DEF ProxyOnStart
  <2> QED
    BY <1>1, <1>2, <2>1, CallCallback
<1>4. CASE ProxyBeginFails(t)
  <2>1. /\ At(t, "OnStart")
        /\ Call(t, Frame("ProxyNeverInvoked", Native), [Frame("TryComplete", Native) EXCEPT !.err = "Failure"])
    BY <1>4 DEF ProxyBeginFails
  <2> QED
    BY <1>1, <1>2, <2>1, CallCallback
<1>5. CASE ProxyNeverInvoked(t)
  <2>1. At(t, "ProxyNeverInvoked") /\ Call(t, Frame("StartReturns", Native), Frame("Cancel", Native))
    BY <1>5 DEF ProxyNeverInvoked
  <2> QED
    BY <1>1, <1>2, <2>1, CallCallback
<1>6. CASE ProxyBegun(t)
  <2>1. /\ At(t, "ProxyBegun")
        /\ \E x \in {"ProxyFinish", "ProxyStore"} : Call(t, Frame("StartReturns", Native), Frame(x, Native))
    BY <1>6 DEF ProxyBegun
  <2> QED
    BY <1>1, <1>2, <2>1, CallCallback
<1>7. CASE ProxyStore(t) \/ ProxyCleanup(t)
  <2>1. PICK at \in {"ProxyStore", "ProxyCleanup"} : At(t, at) /\ Return(t)
    BY <1>7 DEF ProxyStore, ProxyCleanup
  <2> QED
    BY <1>1, <2>1, GotoCallback, NoFrameFacts
<1>8. CASE ProxyInvoke(t)
  <2>1. At(t, "ComInvoke") /\ (Return(t) \/ Goto(t, Frame("ProxyFinish", Native)))
    BY <1>8 DEF ProxyInvoke
  <2> QED
    BY <1>1, <1>2, <2>1, GotoCallback
<1>9. CASE ProxyFinish(t)
  <2>1. PICK r \in Error \cup {"NotComplete"} :
           Call(t, Frame("ProxyCleanup", Native),
                [Frame("TryComplete", Native) EXCEPT !.err = IF r = "NotComplete" THEN "Failure" ELSE r])
    BY <1>9 DEF ProxyFinish
  <2>2. PICK e \in Error : e = IF r = "NotComplete" THEN "Failure" ELSE r
    BY <1>1
  <2>3. At(t, "ProxyFinish") /\ Call(t, Frame("ProxyCleanup", Native), [Frame("TryComplete", Native) EXCEPT !.err = e])
    BY <1>9, <2>1, <2>2 DEF ProxyFinish
  <2>4. PICK f \in Frames : f = Frame("ProxyCleanup", Native) /\ f.at # "Callback"
    BY <1>1, <1>2
  <2>5. PICK g \in Frames : g = [Frame("TryComplete", Native) EXCEPT !.err = e] /\ g.at # "Callback"
    BY <1>1, <1>2
  <2>6. TypeInv /\ At(t, "ProxyFinish") /\ Call(t, f, g)
    BY <1>1, <2>3, <2>4, <2>5
  <2> QED
    BY <2>4, <2>5, <2>6, CallCallback
<1>10. CASE ProxyCancelSignals(t)
  <2>1. At(t, "CancelChildren") /\ Goto(t, Frame("ProxyOnCancel", Native))
    BY <1>10 DEF ProxyCancelSignals
  <2> QED
    BY <1>1, <1>2, <2>1, GotoCallback
<1>11. CASE ProxyCancelCompletes(t)
  <2>1. At(t, "CancelChildren")
    BY <1>11 DEF ProxyCancelCompletes
  <2>2. CASE Return(t)
    BY <1>1, <2>1, <2>2, GotoCallback, NoFrameFacts
  <2>3. CASE Call(t, [Frame("FinishComplete", Native) EXCEPT !.err = "OperationCanceled"],
                  Frame("ProxyOnCancel", Native))
    <3> DEFINE f == [Frame("FinishComplete", Native) EXCEPT !.err = "OperationCanceled"]
    <3>1. f \in Frames /\ f.at # "Callback"
      BY <1>1, <1>2
    <3>2. Frame("ProxyOnCancel", Native) \in Frames /\ Frame("ProxyOnCancel", Native).at # "Callback"
      BY <1>1, <1>2
    <3>3. Call(t, f, Frame("ProxyOnCancel", Native))
      BY <2>3
    <3> HIDE DEF f
    <3> QED
      BY <1>1, <2>1, <3>1, <3>2, <3>3, CallCallback
  <2> QED
    BY <1>11, <2>2, <2>3 DEF ProxyCancelCompletes
<1>12. CASE ProxyOnCancel(t)
  <2>1. At(t, "ProxyOnCancel") /\ (Return(t) \/ Goto(t, Frame("ComCancel", Proxy)))
    BY <1>12 DEF ProxyOnCancel
  <2> QED
    BY <1>1, <1>2, <2>1, GotoCallback
<1> QED
  BY <1>3, <1>4, <1>5, <1>6, <1>7, <1>8, <1>9, <1>10, <1>11, <1>12 DEF ProxyProceed

(***************************************************************************)
(* The native operation keeps its promise around the COM operation, and so *)
(* do the operations inside: a callback in one layer is answered by End    *)
(* and by one completion in the next.                                      *)
(***************************************************************************)
THEOREM NativeOperationsKeepPromise == ASSUME NEW op \in Op PROVE ProxySpec => Promise(op)!Spec
<1>1. ProxyInit => Promise(op)!Init
  BY DEF ProxyInit, InitMembers, Promise!Init, StatusOf, CallsOf, Over
<1>2. ProxyInv /\ [ProxyNext]_proxyVars => [Promise(op)!Next]_(Promise(op)!vars)
  <2>1. SUFFICES ASSUME ProxyInv, [ProxyNext]_proxyVars PROVE [Promise(op)!Next]_(Promise(op)!vars)
    OBVIOUS
  <2>2. OpInv /\ ContextInv /\ TypeInv
    BY <2>1 DEF ProxyInv, OpInv
  <2>3. ASSUME NEW t \in Thread, ProxyProceed(t), ~ComProceed(t)
        PROVE  UNCHANGED Promise(op)!vars
    <3>1. One("Callback", op)' <=> One("Callback", op)
      BY <2>2, <2>3, NativeQuietCallbacks
    <3>2. error_' = error_
      BY <2>3 DEF ProxyProceed, ProxyOnStart, ProxyBeginFails, ProxyNeverInvoked, ProxyBegun, ProxyStore,
                  ProxyInvoke, ProxyFinish, ProxyCleanup, ProxyCancelSignals, ProxyCancelCompletes,
                  ProxyOnCancel, native
    <3>3. \/ lifecycle' = lifecycle
          \/ lifecycle[Native] = "Started" /\ lifecycle' = [lifecycle EXCEPT ![Native] = "Completing"]
      BY <2>3 DEF ProxyProceed, ProxyOnStart, ProxyBeginFails, ProxyNeverInvoked, ProxyBegun, ProxyStore,
                  ProxyInvoke, ProxyFinish, ProxyCleanup, ProxyCancelSignals, ProxyCancelCompletes,
                  ProxyOnCancel, word
    <3>4. CASE lifecycle'[op] = lifecycle[op]
      BY <3>1, <3>2, <3>4, SamePromise
    <3>5. CASE lifecycle[op] = "Started" /\ lifecycle'[op] = "Completing"
      <4>1. CallsOf(op)' = CallsOf(op)
        BY <3>5 DEF CallsOf, Over
      <4> QED
        BY <3>2, <3>5, <4>1 DEF Promise!vars, StatusOf, Over
    <3> QED
      BY <2>2, <3>3, <3>4, <3>5 DEF TypeInv
  <2>4. CASE UNCHANGED vars
    <3>1. One("Callback", op)' <=> One("Callback", op)
      BY <2>4 DEF vars, One, On, F
    <3> QED
      BY <2>4, <3>1, SamePromise DEF vars, word
  <2>5. \/ UNCHANGED vars
        \/ \E t \in Thread : ProxyProceed(t) \/ WorkDone(t) \/ CallCancel(t)
    BY <2>1 DEF ProxyNext, proxyVars, comVars
  <2> QED
    BY <2>2, <2>3, <2>4, <2>5, ComProceedKeepsPromises, EnterKeepsPromise
<1> QED
  BY <1>1, <1>2, ProxyInvariant, PTL DEF ProxySpec, Promise!Spec
=============================================================================
