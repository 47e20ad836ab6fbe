------------------------ MODULE AsyncOperationProofs ------------------------
(***************************************************************************)
(* Proofs about Common::AsyncOperation, for any tree of operations, any    *)
(* hosts and any number of threads that cancel.                            *)
(*                                                                         *)
(* Nothing here depends on who begins the first operation, and frames of   *)
(* other places may be on the stacks: the modules that extend              *)
(* AsyncOperation have the same invariant.                                 *)
(***************************************************************************)
EXTENDS AsyncOperation, TLAPS

Phase == {"Created", "Started", "Completing", "Completed", "Ended"}
Over == {"Completed", "Ended"}

\* The places of AsyncOperation, and those of the modules that extend it.
Places == {"none", "Begin", "Start", "Attach", "AttachPush", "OnStart", "StartReturns", "Begun",
           "Callback", "Finish", "TryComplete", "FinishComplete", "Cleanup", "Detach",
           "Cancel", "CancelCollect", "CancelChildren"}
          \cup {"ComStart", "ComAttach", "ComTryComplete", "ComFinishComplete", "ComInvoke",
                "ComCleanup", "ComCleanupChild", "ComCancel", "ComCancelChild", "ComCancelSelf"}
          \cup {"ProxyBegun", "ProxyStore", "ProxyFinish", "ProxyCleanup", "ProxyOnCancel",
                "ProxyNeverInvoked"}

OwnPlaces == {"Begin", "Start", "Attach", "AttachPush", "OnStart", "StartReturns", "Begun",
              "Callback", "Finish", "TryComplete", "FinishComplete", "Cleanup", "Detach",
              "Cancel", "CancelCollect", "CancelChildren"}

Frames == [at : Places, op : Op, err : Error, attached : BOOLEAN,
           force : BOOLEAN, kids : SUBSET Op]

\* The frame k of a thread counted from the bottom of its stack, where a frame
\* stays until it is the innermost.
NoFrame == Frame("none", Root)
F(t, k) == IF k \in 1..Len(stack[t]) THEN stack[t][Len(stack[t]) - k + 1] ELSE NoFrame

On(t, k, at, op) == F(t, k).at = at /\ F(t, k).op = op
One(at, op) == \E t \in Thread, k \in Nat : On(t, k, at, op)

\* At most one frame is at these places of an operation.
Unique(places) ==
    \A t, u \in Thread, k, j \in Nat :
        F(t, k).at \in places /\ F(u, j).at \in places /\ F(t, k).op = F(u, j).op
        => t = u /\ k = j

\* Nobody has begun op, or is about to.
Fresh(op) == lifecycle[op] = "Created" /\ ~One("Begin", op) /\ ~One("Start", op)

\* op is not known to anybody but the thread that starts it.
Attaching(op) == One("Attach", op) \/ One("AttachPush", op)
Young(op) == lifecycle[op] = "Created" \/ Attaching(op)

TypeInv ==
    /\ lifecycle \in [Op -> Phase]
    /\ observed \in [Op -> BOOLEAN] /\ cancelRequested \in [Op -> BOOLEAN]
    /\ error_ \in [Op -> Error]
    /\ children_ \in [Op -> SUBSET Op] /\ childLock_ \in [Op -> Thread \cup {NoThread}]
    /\ stack \in [Thread -> Seq(Frames)]
    /\ handedOver \subseteq Op /\ onStarted \subseteq Op /\ refused \subseteq Op
    /\ fresh \subseteq Cancellers /\ \A t \in fresh : stack[t] = <<>>

\* An operation is begun once, and a host never.
Starting == {"Begin", "Start", "Attach", "AttachPush", "OnStart"}
StartInv ==
    /\ asserts \cap {"TransitionStarted", "TransitionCompleted", "TransitionEnded"} = {}
    /\ \A op \in Host : lifecycle[op] = "Created"
    /\ \A op \in Op :
          /\ One("Begin", op) \/ One("Start", op) => lifecycle[op] = "Created" /\ op \notin Host
          /\ Attaching(op) => lifecycle[op] = "Started" /\ HasParent(op)
          /\ One("OnStart", op) => lifecycle[op] # "Created"
    /\ Unique(Starting)

\* Begin has not returned from Start before Start has begun.
BegunInv ==
    \A t \in Thread, k \in Nat, op \in Op :
        On(t, k, "Begun", op) /\ lifecycle[op] = "Created" => On(t, k + 1, "Start", op)

\* An operation is completed once and ended once.  Who ends it is settled when
\* it is Completed: Begin if nobody observed it before, else the callback.
EndInv ==
    /\ \A op \in Op :
          /\ One("FinishComplete", op) => lifecycle[op] = "Completing"
          /\ One("Callback", op) =>
                lifecycle[op] = "Completed" \/ (lifecycle[op] = "Ended" /\ ~observed[op])
          /\ One("Begun", op) /\ ~observed[op] => lifecycle[op] # "Ended"
          /\ One("Finish", op) =>
                /\ lifecycle[op] = "Completed"
                /\ observed[op] => ~One("Callback", op)
                /\ ~observed[op] => ~One("Begun", op)
    /\ Unique({"Begun"}) /\ Unique({"FinishComplete"})
    /\ Unique({"Callback"}) /\ Unique({"Finish"})

\* The children of an operation are begun one after the other, from OnStart on.
OrderInv ==
    /\ \A p \in Op \ Host, c \in Op :
          IsChild(c, p) /\ (Young(p) \/ One("OnStart", p)) => Fresh(c)
    /\ \A p \in Op : \A i, j \in DOMAIN Steps[p] : i < j /\ ~Fresh(Steps[p][j]) =>
          \/ lifecycle[Steps[p][i]] = "Ended" /\ error_[Steps[p][i]] = "Success"
          \/ p \in Host /\ Fresh(Steps[p][i])

\* Some Cancel is going to call Cancel of op.
Held(op) == \E t \in Thread, k \in Nat : op \in F(t, k).kids

YoungInv ==
    /\ \A op \in Op \ Host : Young(op) =>
          /\ op \notin onStarted /\ op \notin handedOver /\ ~cancelRequested[op]
          /\ ~One("Cancel", op) /\ ~One("CancelCollect", op) /\ ~One("CancelChildren", op)
          /\ ~One("TryComplete", op) /\ ~Held(op)
          /\ \A p \in Op : op \notin children_[p]
    /\ \A op \in handedOver : IsLeaf(op)
    /\ \A op \in Host : ~Held(op)

\* The lock of an operation, across the steps of AttachChild.
LockInv ==
    /\ \A op \in Op : One("AttachPush", op) => ~Free(Parent(op))
    /\ \A c, e \in Op :
          One("AttachPush", c) /\ One("AttachPush", e) /\ Parent(c) = Parent(e) => c = e

Attached(c) == lifecycle[c] = "Started" /\ c \notin refused /\ ~Attaching(c)
Adding(p) == children_[p] # {} \/ (\E c \in Op : One("AttachPush", c) /\ Parent(c) = p)

\* Cancel of p has taken c from the list, and c is not cancelled yet.
Pursued(p, c) ==
    \E t \in Thread, k \in Nat :
        On(t, k, "CancelChildren", p) /\ (c \in F(t, k).kids \/ On(t, k + 1, "Cancel", c))

\* Cancel of p goes on to an attached child of p, if nobody has cancelled it.
CancelInv ==
    /\ \A p \in Op :
          /\ One("CancelCollect", p) \/ One("CancelChildren", p) => cancelRequested[p]
          /\ cancelRequested[p] /\ Adding(p) => One("CancelCollect", p)
    /\ Unique({"CancelCollect", "CancelChildren"})
    /\ \A p, c \in Op : IsChild(c, p) /\ Attached(c) /\ ~cancelRequested[c] =>
          c \in children_[p] \/ Pursued(p, c)

\* Why an operation may be completed: no child is left, or they were cancelled.
MayComplete(p) ==
    \/ IsLeaf(p)
    \/ cancelRequested[p] /\ ~One("CancelCollect", p) /\ ~One("CancelChildren", p)
    \/ /\ ~Young(p) /\ ~One("OnStart", p)
       /\ \A c \in Op : IsChild(c, p) => Fresh(c) \/ lifecycle[c] = "Ended"
CompleteInv ==
    \A p \in Op \ Host :
        One("TryComplete", p) \/ CompletingOrCompleted(p) => MayComplete(p)

ListInv ==
    /\ \A p, c \in Op : c \in children_[p] =>
          /\ IsChild(c, p)
          /\ lifecycle[c] \in Over => One("Cleanup", c) \/ One("Detach", c)
    /\ \A p \in Op :
          /\ Adding(p) /\ lifecycle[p] \in Over => One("Cleanup", p)
          /\ One("Cleanup", p) \/ One("Detach", p) => lifecycle[p] \in Over
          /\ One("Detach", p) => HasParent(p)

OpInv ==
    /\ TypeInv /\ StartInv /\ BegunInv /\ EndInv /\ OrderInv /\ YoungInv /\ LockInv
    /\ CancelInv /\ CompleteInv /\ ListInv

\* The error that p is completed with, and how its children ended.
Justified(p, err) ==
    /\ err = "Success" => \A c \in Op : IsChild(c, p) =>
          lifecycle[c] = "Ended" /\ error_[c] = "Success"
    /\ err = "OperationCanceled" =>
          \/ cancelRequested[p]
          \/ \E c \in Op : IsChild(c, p) /\ lifecycle[c] = "Ended" /\ error_[c] = "OperationCanceled"

\* Somebody is going to complete op with this error.
Claimed(at, op, err) == \E t \in Thread, k \in Nat : On(t, k, at, op) /\ F(t, k).err = err
Claims(op, err) == Claimed("TryComplete", op, err) \/ Claimed("FinishComplete", op, err)

ResultInv ==
    \A p \in Op \ Host :
        /\ lifecycle[p] \in Over => Justified(p, error_[p])
        /\ \A err \in Error : Claims(p, err) => Justified(p, err)
-----------------------------------------------------------------------------
LEMMA TreeFacts ==
    /\ User \in Thread /\ Worker \in Thread /\ Cancellers \subseteq Thread
    /\ NoThread \notin Thread
    /\ Root \in Op /\ Root \notin Host /\ Host \subseteq Op
    /\ \A p \in Op : Steps[p] \in Seq(Op)
    /\ \A op \in Op : HasParent(op) =>
          Parent(op) \in Op /\ IsChild(op, Parent(op)) /\ op \notin Host
    /\ \A c, p \in Op : IsChild(c, p) => HasParent(c) /\ Parent(c) = p /\ ~IsLeaf(p)
<1>1. \A op \in Op : HasParent(op) => Parent(op) \in Op /\ IsChild(op, Parent(op)) /\ op \notin Host
  BY TreeAssumption DEF HasParent, Parent
<1>2. ASSUME NEW c \in Op, NEW p \in Op, IsChild(c, p)
      PROVE  HasParent(c) /\ Parent(c) = p /\ ~IsLeaf(p)
  <2>1. HasParent(c)
    BY <1>2 DEF HasParent
  <2>2. Parent(c) = p
    BY <1>1, <1>2, <2>1, TreeAssumption
  <2>3. PICK i \in DOMAIN Steps[p] : Steps[p][i] = c
    BY <1>2 DEF IsChild
  <2>4. ~IsLeaf(p)
    BY <2>3, TreeAssumption DEF IsLeaf
  <2> QED
    BY <2>1, <2>2, <2>4
<1> QED
  BY <1>1, <1>2, TreeAssumption, ThreadAssumption DEF Thread

LEMMA FrameFacts ==
    ASSUME NEW at \in Places, NEW op \in Op
    PROVE  /\ Frame(at, op) \in Frames /\ Frame(at, op).at = at /\ Frame(at, op).op = op
           /\ Frame(at, op).kids = {} /\ Frame(at, op).err = "Success"
BY DEF Frame, Frames, Error

LEMMA NoFrameFacts == NoFrame \in Frames /\ NoFrame.at = "none" /\ NoFrame.kids = {}
<1>1. "none" \in Places
  BY DEF Places
<1> QED
  BY <1>1, FrameFacts, TreeFacts DEF NoFrame
-----------------------------------------------------------------------------
(***************************************************************************)
(* A step of a thread puts f in the place d of its innermost frame and g   *)
(* on top of it.                                                           *)
(***************************************************************************)
Moves(t, d, f, g) ==
    /\ stack' \in [Thread -> Seq(Frames)]
    /\ \A u \in Thread \ {t} : stack'[u] = stack[u]
    /\ \A u \in Thread, k \in Nat :
          F(u, k)' = IF u = t /\ k = d THEN f ELSE IF u = t /\ k = d + 1 THEN g ELSE F(u, k)

\* The innermost frame is at this place of op.
AtTop(t, d, at, op) ==
    /\ stack[t] # <<>> /\ Top(t) \in Frames /\ F(t, d) = Top(t) /\ F(t, d + 1) = NoFrame
    /\ Top(t).at = at /\ Top(t).op = op /\ d = Len(stack[t])

LEMMA TopFacts ==
    ASSUME TypeInv, NEW t \in Thread, NEW at, At(t, at)
    PROVE  \E d \in Nat, op \in Op : AtTop(t, d, at, op) /\ One(at, op)
<1> DEFINE d == Len(stack[t])
<1>1. stack[t] \in Seq(Frames) /\ stack[t] # <<>> /\ d \in Nat /\ d >= 1
  BY DEF TypeInv, At
<1>2. Top(t) = stack[t][1] /\ Top(t) \in Frames
  BY <1>1 DEF Top
<1>3. F(t, d) = Top(t) /\ F(t, d + 1) = NoFrame
  BY <1>1, <1>2 DEF F
<1>4. Top(t).at = at /\ Top(t).op \in Op
  BY <1>2 DEF At, Top, Frames
<1>5. One(at, Top(t).op)
  BY <1>1, <1>3, <1>4 DEF One, On
<1> QED
  BY <1>1, <1>2, <1>3, <1>4, <1>5 DEF AtTop

LEMMA GotoMoves ==
    ASSUME TypeInv, NEW t \in Thread, NEW d \in Nat, NEW at, NEW op, AtTop(t, d, at, op),
           NEW f \in Frames, Goto(t, f)
    PROVE  Moves(t, d, f, NoFrame)
<1>1. stack[t] \in Seq(Frames) /\ d = Len(stack[t]) /\ d >= 1
  BY DEF TypeInv, AtTop
<1>2. stack' = [stack EXCEPT ![t] = <<f>> \o Tail(stack[t])]
  BY DEF Goto
<1> DEFINE s == <<f>> \o Tail(stack[t])
<1>3. s \in Seq(Frames) /\ Len(s) = d /\ s[1] = f /\ \A i \in 2..d : s[i] = stack[t][i]
  BY <1>1
<1> HIDE DEF s
<1>4. /\ stack' \in [Thread -> Seq(Frames)] /\ stack'[t] = s
      /\ \A u \in Thread \ {t} : stack'[u] = stack[u]
  BY <1>2, <1>3 DEF TypeInv, s
<1>5. ASSUME NEW u \in Thread, NEW k \in Nat
      PROVE  F(u, k)' = IF u = t /\ k = d THEN f ELSE IF u = t /\ k = d + 1 THEN NoFrame ELSE F(u, k)
  <2>1. CASE u # t
    BY <1>4, <2>1 DEF F
  <2>2. CASE u = t
    BY <1>1, <1>3, <1>4, <2>2 DEF F
  <2> QED
    BY <2>1, <2>2
<1> QED
  BY <1>4, <1>5 DEF Moves

LEMMA CallMoves ==
    ASSUME TypeInv, NEW t \in Thread, NEW d \in Nat, NEW at, NEW op, AtTop(t, d, at, op),
           NEW f \in Frames, NEW g \in Frames, Call(t, f, g)
    PROVE  Moves(t, d, f, g)
<1>1. stack[t] \in Seq(Frames) /\ d = Len(stack[t]) /\ d >= 1
  BY DEF TypeInv, AtTop
<1>2. stack' = [stack EXCEPT ![t] = <<g, f>> \o Tail(stack[t])]
  BY DEF Call
<1> DEFINE s == <<g, f>> \o Tail(stack[t])
<1>3. /\ s \in Seq(Frames) /\ Len(s) = d + 1 /\ s[1] = g /\ s[2] = f
      /\ \A i \in 3..(d + 1) : s[i] = stack[t][i - 1]
  BY <1>1
<1> HIDE DEF s
<1>4. /\ stack' \in [Thread -> Seq(Frames)] /\ stack'[t] = s
      /\ \A u \in Thread \ {t} : stack'[u] = stack[u]
  BY <1>2, <1>3 DEF TypeInv, s
<1>5. ASSUME NEW u \in Thread, NEW k \in Nat
      PROVE  F(u, k)' = IF u = t /\ k = d THEN f ELSE IF u = t /\ k = d + 1 THEN g ELSE F(u, k)
  <2>1. CASE u # t
    BY <1>4, <2>1 DEF F
  <2>2. CASE u = t
    <3>1. F(t, k)' = IF k \in 1..(d + 1) THEN s[d + 1 - k + 1] ELSE NoFrame
      BY <1>1, <1>3, <1>4 DEF F
    <3>2. F(t, k) = IF k \in 1..d THEN stack[t][d - k + 1] ELSE NoFrame
      BY <1>1 DEF F
    <3>3. CASE k \in 1..(d - 1)
      <4>1. /\ d + 1 - k + 1 \in 3..(d + 1) /\ (d + 1 - k + 1) - 1 = d - k + 1
            /\ k \in 1..d /\ k \in 1..(d + 1) /\ k # d /\ k # d + 1
        BY <1>1, <3>3
      <4>2. F(t, k)' = stack[t][d - k + 1]
        BY <1>3, <3>1, <4>1
      <4> QED
        BY <2>2, <3>2, <4>1, <4>2
    <3>4. CASE k = d
      <4>1. d + 1 - k + 1 = 2 /\ k \in 1..(d + 1)
        BY <1>1, <3>4
      <4>2. F(t, k)' = f
        BY <1>3, <3>1, <4>1
      <4> QED
        BY <2>2, <3>4, <4>2
    <3>5. CASE k = d + 1
      <4>1. d + 1 - k + 1 = 1 /\ k \in 1..(d + 1) /\ k # d
        BY <1>1, <3>5
      <4>2. F(t, k)' = g
        BY <1>3, <3>1, <4>1
      <4> QED
        BY <2>2, <3>5, <4>1, <4>2
    <3>6. CASE k = 0 \/ k > d + 1
      BY <1>1, <2>2, <3>1, <3>2, <3>6
    <3> QED
      BY <1>1, <3>3, <3>4, <3>5, <3>6
  <2> QED
    BY <2>1, <2>2
<1> QED
  BY <1>4, <1>5 DEF Moves

LEMMA ReturnMoves ==
    ASSUME TypeInv, NEW t \in Thread, NEW d \in Nat, NEW at, NEW op, AtTop(t, d, at, op), Return(t)
    PROVE  Moves(t, d, NoFrame, NoFrame)
<1>1. stack[t] \in Seq(Frames) /\ d = Len(stack[t]) /\ d >= 1
  BY DEF TypeInv, AtTop
<1>2. stack' = [stack EXCEPT ![t] = Tail(stack[t])]
  BY DEF Return
<1> DEFINE s == Tail(stack[t])
<1>3. s \in Seq(Frames) /\ Len(s) = d - 1 /\ \A i \in 1..(d - 1) : s[i] = stack[t][i + 1]
  BY <1>1
<1> HIDE DEF s
<1>4. /\ stack' \in [Thread -> Seq(Frames)] /\ stack'[t] = s
      /\ \A u \in Thread \ {t} : stack'[u] = stack[u]
  BY <1>2, <1>3 DEF TypeInv, s
<1>5. ASSUME NEW u \in Thread, NEW k \in Nat
      PROVE  F(u, k)' = IF u = t /\ k = d THEN NoFrame ELSE IF u = t /\ k = d + 1 THEN NoFrame ELSE F(u, k)
  <2>1. CASE u # t
    BY <1>4, <2>1 DEF F
  <2>2. CASE u = t
    <3>1. F(t, k)' = IF k \in 1..(d - 1) THEN s[d - 1 - k + 1] ELSE NoFrame
      BY <1>1, <1>3, <1>4 DEF F
    <3>2. F(t, k) = IF k \in 1..d THEN stack[t][d - k + 1] ELSE NoFrame
      BY <1>1 DEF F
    <3>3. CASE k \in 1..(d - 1)
      <4>1. d - 1 - k + 1 \in 1..(d - 1) /\ (d - 1 - k + 1) + 1 = d - k + 1
        BY <1>1, <3>3
      <4> QED
        BY <1>1, <1>3, <2>2, <3>1, <3>2, <3>3, <4>1
    <3>4. CASE k = 0 \/ k >= d
      BY <1>1, <2>2, <3>1, <3>2, <3>4
    <3> QED
      BY <1>1, <3>3, <3>4
  <2> QED
    BY <2>1, <2>2
<1> QED
  BY <1>4, <1>5 DEF Moves

\* A thread with nothing to do takes up something.
LEMMA BeginMoves ==
    ASSUME TypeInv, NEW t \in Thread, stack[t] = <<>>, NEW f \in Frames,
           stack' = [stack EXCEPT ![t] = <<f>>]
    PROVE  F(t, 1) = NoFrame /\ F(t, 2) = NoFrame /\ Moves(t, 1, f, NoFrame)
<1>1. /\ stack' \in [Thread -> Seq(Frames)] /\ stack'[t] = <<f>> /\ Len(stack[t]) = 0
      /\ \A u \in Thread \ {t} : stack'[u] = stack[u]
  BY DEF TypeInv
<1>2. F(t, 1) = NoFrame /\ F(t, 2) = NoFrame
  BY <1>1 DEF F
<1>3. ASSUME NEW u \in Thread, NEW k \in Nat
      PROVE  F(u, k)' = IF u = t /\ k = 1 THEN f ELSE IF u = t /\ k = 1 + 1 THEN NoFrame ELSE F(u, k)
  BY <1>1, <1>3 DEF F
<1> QED
  BY <1>1, <1>2, <1>3 DEF Moves
-----------------------------------------------------------------------------
(***************************************************************************)
(* What such a step does to the places.                                    *)
(***************************************************************************)
LEMMA OneMoves ==
    ASSUME NEW t \in Thread, NEW d \in Nat, NEW f, NEW g, Moves(t, d, f, g), F(t, d + 1) = NoFrame,
           NEW at, NEW op, at # "none"
    PROVE  /\ One(at, op)' => One(at, op) \/ (at = f.at /\ op = f.op) \/ (at = g.at /\ op = g.op)
           /\ at = f.at /\ op = f.op => One(at, op)'
           /\ at = g.at /\ op = g.op => One(at, op)'
           /\ One(at, op) => One(at, op)' \/ On(t, d, at, op)
<1>1. d + 1 \in Nat /\ d # d + 1
  OBVIOUS
<1>2. One(at, op)' => One(at, op) \/ (at = f.at /\ op = f.op) \/ (at = g.at /\ op = g.op)
  BY DEF One, On, Moves
<1>3. at = f.at /\ op = f.op => One(at, op)'
  BY DEF One, On, Moves
<1>4. at = g.at /\ op = g.op => One(at, op)'
  BY <1>1 DEF One, On, Moves
<1>5. One(at, op) => One(at, op)' \/ On(t, d, at, op)
  <2>1. SUFFICES ASSUME NEW u \in Thread, NEW k \in Nat, On(u, k, at, op), ~On(t, d, at, op)
                 PROVE  On(u, k, at, op)'
    BY DEF One
  <2>2. F(t, d + 1).at = "none"
    BY NoFrameFacts
  <2> QED
    BY <2>1, <2>2 DEF On, Moves
<1> QED
  BY <1>2, <1>3, <1>4, <1>5

\* Frames that are unique stay so, if the new ones are.
LEMMA UniqueMoves ==
    ASSUME NEW t \in Thread, NEW d \in Nat, NEW f, NEW g, Moves(t, d, f, g),
           NEW places, "none" \notin places, Unique(places),
           f.at \in places =>
              (F(t, d).at \in places /\ F(t, d).op = f.op) \/ \A at \in places : ~One(at, f.op),
           g.at \in places =>
              (F(t, d).at \in places /\ F(t, d).op = g.op) \/ \A at \in places : ~One(at, g.op),
           ~(f.at \in places /\ g.at \in places /\ f.op = g.op)
    PROVE  Unique(places)'
<1> DEFINE New(u, k) == u = t /\ (k = d \/ k = d + 1)
<1>1. ASSUME NEW u \in Thread, NEW k \in Nat, NEW v \in Thread, NEW j \in Nat,
             F(u, k)'.at \in places, F(v, j)'.at \in places, F(u, k)'.op = F(v, j)'.op
      PROVE  u = v /\ k = j
  <2>1. CASE ~New(u, k) /\ ~New(v, j)
    BY <1>1, <2>1 DEF Moves, Unique
  <2>2. ASSUME NEW x \in Thread, NEW i \in Nat, NEW h, ~New(x, i),
               h = f \/ h = g, h.at \in places, F(x, i).at \in places, F(x, i).op = h.op
        PROVE  FALSE
    <3>1. On(x, i, F(x, i).at, h.op)
      BY <2>2 DEF On
    <3>2. ~\A at \in places : ~One(at, h.op)
      BY <2>2, <3>1 DEF One
    <3>3. F(t, d).at \in places /\ F(t, d).op = h.op
      BY <2>2, <3>2
    <3> QED
      BY <2>2, <3>3 DEF Unique
  <2>3. CASE New(u, k) /\ ~New(v, j)
    <3>1. F(v, j)' = F(v, j) /\ (F(u, k)' = f \/ F(u, k)' = g)
      BY <2>3 DEF Moves
    <3> QED
      BY <1>1, <2>2, <2>3, <3>1
  <2>4. CASE ~New(u, k) /\ New(v, j)
    <3>1. F(u, k)' = F(u, k) /\ (F(v, j)' = f \/ F(v, j)' = g)
      BY <2>4 DEF Moves
    <3> QED
      BY <1>1, <2>2, <2>4, <3>1
  <2>5. CASE New(u, k) /\ New(v, j)
    BY <1>1, <2>5 DEF Moves
  <2> QED
    BY <2>1, <2>3, <2>4, <2>5
<1> QED
  BY <1>1 DEF Unique

\* The only frame at a place is gone after the step.
LEMMA UniqueGone ==
    ASSUME NEW t \in Thread, NEW d \in Nat, NEW f, NEW g, Moves(t, d, f, g),
           NEW places, "none" \notin places, Unique(places),
           NEW op, F(t, d).at \in places, F(t, d).op = op,
           ~(f.at \in places /\ f.op = op), ~(g.at \in places /\ g.op = op)
    PROVE  \A at \in places : ~One(at, op)'
<1> SUFFICES ASSUME NEW at \in places, NEW u \in Thread, NEW k \in Nat, On(u, k, at, op)'
             PROVE  FALSE
  BY DEF One
<1>1. ~(u = t /\ (k = d \/ k = d + 1))
  BY DEF On, Moves
<1>2. F(u, k) = F(u, k)'
  BY <1>1 DEF Moves
<1>3. F(u, k).at \in places /\ F(u, k).op = op
  BY <1>2 DEF On
<1> QED
  BY <1>1, <1>3 DEF Unique

LEMMA TypesMove ==
    ASSUME TypeInv, NEW t \in Thread, NEW d \in Nat, NEW f, NEW g, Moves(t, d, f, g),
           stack[t] # <<>>, fresh' = fresh,
           lifecycle' \in [Op -> Phase], observed' \in [Op -> BOOLEAN],
           cancelRequested' \in [Op -> BOOLEAN], error_' \in [Op -> Error],
           children_' \in [Op -> SUBSET Op], childLock_' \in [Op -> Thread \cup {NoThread}],
           handedOver' \subseteq Op, onStarted' \subseteq Op, refused' \subseteq Op
    PROVE  TypeInv'
<1>1. t \notin fresh
  BY DEF TypeInv
<1>2. \A u \in fresh' : stack'[u] = <<>>
  <2>1. SUFFICES ASSUME NEW u \in fresh PROVE stack'[u] = <<>>
    OBVIOUS
  <2>2. u \in Thread \ {t} /\ stack[u] = <<>>
    BY <1>1, TreeFacts DEF TypeInv
  <2> QED
    BY <2>2 DEF Moves
<1> QED
  BY <1>2 DEF TypeInv, Moves

LEMMA UniquePart ==
    ASSUME NEW places, Unique(places), NEW part, part \subseteq places
    PROVE  Unique(part)
BY DEF Unique

LEMMA UniquePlace ==
    ASSUME NEW places, Unique(places), NEW x \in places, NEW y \in places, NEW op,
           One(x, op), One(y, op)
    PROVE  x = y
BY DEF Unique, One, On

LEMMA HeldMoves ==
    ASSUME NEW t \in Thread, NEW d \in Nat, NEW f, NEW g, Moves(t, d, f, g), NEW op, Held(op)'
    PROVE  Held(op) \/ op \in f.kids \/ op \in g.kids
BY DEF Held, Moves

LEMMA PursuedMoves ==
    ASSUME NEW t \in Thread, NEW d \in Nat, NEW f, NEW g, Moves(t, d, f, g), F(t, d + 1) = NoFrame,
           NEW p, NEW c, Pursued(p, c),
           ~On(t, d, "CancelChildren", p), ~On(t, d, "Cancel", c)
    PROVE  Pursued(p, c)'
<1>1. PICK u \in Thread, k \in Nat :
        On(u, k, "CancelChildren", p) /\ (c \in F(u, k).kids \/ On(u, k + 1, "Cancel", c))
  BY DEF Pursued
<1>2. F(u, k)' = F(u, k)
  <2>1. ~(u = t /\ k = d) /\ ~(u = t /\ k = d + 1)
    BY <1>1, NoFrameFacts DEF On
  <2> QED
    BY <2>1 DEF Moves
<1>3. On(u, k + 1, "Cancel", c) => F(u, k + 1)' = F(u, k + 1)
  <2>1. On(u, k + 1, "Cancel", c) => ~(u = t /\ k + 1 = d) /\ ~(u = t /\ k + 1 = d + 1)
    BY <1>1, NoFrameFacts DEF On
  <2> QED
    BY <2>1 DEF Moves
<1> QED
  BY <1>1, <1>2, <1>3 DEF Pursued, On

LEMMA ClaimedMoves ==
    ASSUME NEW t \in Thread, NEW d \in Nat, NEW f, NEW g, Moves(t, d, f, g),
           NEW at, NEW op, NEW err, Claimed(at, op, err)'
    PROVE  \/ Claimed(at, op, err)
           \/ at = f.at /\ op = f.op /\ err = f.err
           \/ at = g.at /\ op = g.op /\ err = g.err
BY DEF Claimed, On, Moves

LEMMA BegunMoves ==
    ASSUME NEW t \in Thread, NEW d \in Nat, NEW f, NEW g, Moves(t, d, f, g), F(t, d + 1) = NoFrame,
           BegunInv, NEW keeps, \A op \in Op \ keeps : lifecycle'[op] # "Created",
           \A op \in keeps \cap Op : lifecycle'[op] = lifecycle[op] /\ ~On(t, d, "Start", op),
           f.at = "Begun" => g.at = "Start" /\ g.op = f.op,
           g.at # "Begun"
    PROVE  BegunInv'
<1> SUFFICES ASSUME NEW u \in Thread, NEW k \in Nat, NEW op \in Op,
                    On(u, k, "Begun", op)', lifecycle'[op] = "Created"
             PROVE  On(u, k + 1, "Start", op)'
  BY DEF BegunInv
<1>1. op \in keeps /\ lifecycle[op] = "Created" /\ ~On(t, d, "Start", op)
  OBVIOUS
<1>2. CASE u = t /\ k = d
  BY <1>2 DEF On, Moves
<1>3. CASE ~(u = t /\ k = d)
  <2>1. ~(u = t /\ k = d + 1) /\ F(u, k)' = F(u, k)
    BY <1>3 DEF On, Moves
  <2>2. On(u, k + 1, "Start", op)
    BY <1>1, <2>1 DEF BegunInv, On
  <2>3. F(u, k + 1)' = F(u, k + 1)
    BY <1>1, <1>3, <2>2, NoFrameFacts DEF On, Moves
  <2> QED
    BY <2>2, <2>3 DEF On
<1> QED
  BY <1>2, <1>3
-----------------------------------------------------------------------------
(***************************************************************************)
(* Each action keeps the invariant.                                        *)
(***************************************************************************)
LEMMA BeginKeeps ==
    ASSUME OpInv, NEW t \in Thread, Begin(t)
    PROVE  OpInv'
<1> USE DEF OpInv
<1>1. PICK d \in Nat, op \in Op : AtTop(t, d, "Begin", op) /\ One("Begin", op)
  BY TopFacts DEF Begin
<1>2. PICK f \in Frames, g \in Frames :
        /\ f.at = "Begun" /\ f.op = op /\ f.kids = Top(t).kids
        /\ g.at = "Start" /\ g.op = op /\ g.kids = {}
        /\ Call(t, f, g)
        /\ UNCHANGED <<word, error_, tree, handedOver, fresh, history, asserts>>
  <2>1. [Top(t) EXCEPT !.at = "Begun"] \in Frames /\ Frame("Start", op) \in Frames
    BY <1>1, FrameFacts DEF AtTop, Frames, Places
  <2> QED
    BY <1>1, <2>1, FrameFacts DEF Begin, AtTop, Frames, Places
<1>3. /\ Moves(t, d, f, g) /\ F(t, d + 1) = NoFrame
      /\ F(t, d).at = "Begin" /\ F(t, d).op = op /\ F(t, d).kids = f.kids
  BY <1>1, <1>2, CallMoves DEF AtTop
<1>4. \A x, o : x # "none" =>
        /\ One(x, o)' => One(x, o) \/ (x = "Begun" /\ o = op) \/ (x = "Start" /\ o = op)
        /\ One(x, o) => One(x, o)' \/ (x = "Begin" /\ o = op)
  BY <1>2, <1>3, OneMoves DEF On
<1>5. One("Begun", op)' /\ One("Start", op)'
  BY <1>2, <1>3, OneMoves
<1>6. \A o : Held(o)' => Held(o)
  BY <1>2, <1>3, HeldMoves DEF Held
<1>7. lifecycle[op] = "Created" /\ op \notin Host /\ ~One("Begun", op)
  <2>1. ~One("Start", op)
    BY <1>1, UniquePlace DEF StartInv, Starting
  <2> QED
    BY <1>1, <2>1 DEF StartInv, BegunInv, One
<1>8. UNCHANGED <<lifecycle, observed, cancelRequested, error_, children_, childLock_, handedOver,
                  fresh, onStarted, refused, asserts>>
  BY <1>2 DEF word, tree, history
<1>9. Unique(Starting)' /\ Unique({"Begun"})' /\ Unique({"FinishComplete"})' /\ Unique({"Callback"})'
      /\ Unique({"Finish"})' /\ Unique({"CancelCollect", "CancelChildren"})'
  BY <1>2, <1>3, <1>7, UniqueMoves DEF StartInv, EndInv, CancelInv, Starting
<1>10. \A o \in Op : Fresh(o)' <=> Fresh(o)
  BY <1>1, <1>4, <1>5, <1>8 DEF Fresh
<1>11. \A o \in Op : (Attaching(o)' <=> Attaching(o)) /\ (Young(o)' <=> Young(o))
  BY <1>4, <1>8 DEF Attaching, Young
<1>12. TypeInv'
  BY <1>1, <1>3, <1>8, TypesMove DEF TypeInv, AtTop
<1>13. StartInv'
  BY <1>1, <1>4, <1>8, <1>9, <1>11 DEF StartInv
<1>14. BegunInv'
  BY <1>2, <1>3, <1>8, BegunMoves DEF On
<1>15. EndInv'
  BY <1>4, <1>7, <1>8, <1>9 DEF EndInv
<1>16. OrderInv'
  BY <1>4, <1>8, <1>10, <1>11, TreeFacts DEF OrderInv
<1>17. YoungInv'
  BY <1>4, <1>6, <1>8, <1>11 DEF YoungInv
<1>18. \A o : One("AttachPush", o)' <=> One("AttachPush", o)
  BY <1>4
<1>19. LockInv'
  BY <1>8, <1>18 DEF LockInv, Free
<1>20. \A p \in Op : Adding(p)' <=> Adding(p)
  BY <1>8, <1>18 DEF Adding
<1>21. \A p, c : Pursued(p, c) => Pursued(p, c)'
  BY <1>3, PursuedMoves DEF On
<1>22. CancelInv'
  BY <1>4, <1>8, <1>9, <1>11, <1>20, <1>21 DEF CancelInv, Attached
<1>23. \A p \in Op : MayComplete(p)' <=> MayComplete(p)
  BY <1>4, <1>8, <1>10, <1>11 DEF MayComplete
<1>24. CompleteInv'
  BY <1>4, <1>8, <1>23 DEF CompleteInv, CompletingOrCompleted
<1>25. ListInv'
  BY <1>4, <1>8, <1>20 DEF ListInv
<1> QED
  BY <1>12, <1>13, <1>14, <1>15, <1>16, <1>17, <1>19, <1>22, <1>24, <1>25

LEMMA StartKeeps ==
    ASSUME OpInv, NEW t \in Thread, Start(t)
    PROVE  OpInv'
<1> USE DEF OpInv
<1>1. PICK d \in Nat, op \in Op : AtTop(t, d, "Start", op) /\ One("Start", op)
  BY TopFacts DEF Start
<1>2. lifecycle[op] = "Created" /\ op \notin Host
  BY <1>1 DEF StartInv
<1>3. PICK f \in Frames :
        /\ f.at = (IF HasParent(op) THEN "Attach" ELSE "OnStart") /\ f.op = op /\ f.kids = {}
        /\ Goto(t, f)
        /\ lifecycle' = [lifecycle EXCEPT ![op] = "Started"] /\ asserts' = asserts
        /\ UNCHANGED <<observed, cancelRequested, error_, tree, handedOver, fresh, history>>
  BY <1>1, <1>2, FrameFacts DEF Start, AtTop, Transition, Places
<1>4. /\ Moves(t, d, f, NoFrame) /\ F(t, d + 1) = NoFrame
      /\ F(t, d).at = "Start" /\ F(t, d).op = op
  BY <1>1, <1>3, GotoMoves DEF AtTop
<1>5. \A x, o : x # "none" =>
        /\ One(x, o)' => One(x, o) \/ (x = f.at /\ o = op)
        /\ One(x, o) => One(x, o)' \/ (x = "Start" /\ o = op)
  BY <1>3, <1>4, OneMoves, NoFrameFacts DEF On
<1>6. One(f.at, op)'
  BY <1>3, <1>4, OneMoves DEF Places
<1>7. ~One("Start", op)' /\ ~One("Begin", op)' /\ ~Attaching(op) /\ ~One("OnStart", op)
  <2>1. Unique({"Start"}) /\ ~One("Begin", op)
    BY <1>1, UniquePart, UniquePlace DEF StartInv, Starting
  <2>2. ~One("Start", op)'
    BY <1>3, <1>4, <2>1, UniqueGone, NoFrameFacts
  <2> QED
    BY <1>1, <1>2, <1>3, <1>5, <2>1, <2>2 DEF StartInv
<1>8. /\ UNCHANGED <<observed, cancelRequested, error_, children_, childLock_, handedOver, fresh,
                     onStarted, refused>>
      /\ lifecycle' \in [Op -> Phase] /\ lifecycle'[op] = "Started"
      /\ \A o \in Op : o # op => lifecycle'[o] = lifecycle[o]
  BY <1>3 DEF tree, history, TypeInv, Phase
<1>9. Unique(Starting)' /\ Unique({"Begun"})' /\ Unique({"FinishComplete"})' /\ Unique({"Callback"})'
      /\ Unique({"Finish"})' /\ Unique({"CancelCollect", "CancelChildren"})'
  BY <1>3, <1>4, NoFrameFacts, UniqueMoves DEF StartInv, EndInv, CancelInv, Starting
<1>10. \A o \in Op : Fresh(o)' <=> Fresh(o)
  BY <1>1, <1>2, <1>3, <1>5, <1>7, <1>8 DEF Fresh
<1>11. /\ \A o \in Op : Young(o)' => Young(o)
       /\ \A o \in Op : o # op => (Attaching(o)' <=> Attaching(o)) /\ (Young(o)' <=> Young(o))
       /\ Attaching(op)' <=> HasParent(op)
  BY <1>2, <1>3, <1>5, <1>6, <1>7, <1>8 DEF Attaching, Young
<1>12. TypeInv'
  BY <1>1, <1>4, <1>8, TypesMove DEF TypeInv, AtTop
<1>13. StartInv'
  BY <1>2, <1>3, <1>5, <1>7, <1>8, <1>9, <1>11 DEF StartInv
<1>14. BegunInv'
  <2>1. \A o \in Op \ (Op \ {op}) : lifecycle'[o] # "Created"
    BY <1>8
  <2>2. \A o \in (Op \ {op}) \cap Op : lifecycle'[o] = lifecycle[o] /\ ~On(t, d, "Start", o)
    BY <1>4, <1>8 DEF On
  <2> QED
    BY <1>3, <1>4, <2>1, <2>2, BegunMoves, NoFrameFacts
<1>15. EndInv'
  BY <1>2, <1>3, <1>5, <1>8, <1>9 DEF EndInv
<1>16. OrderInv'
  BY <1>2, <1>3, <1>5, <1>7, <1>8, <1>10, <1>11, TreeFacts DEF OrderInv, Young
<1>17. YoungInv'
  <2>1. \A o : Held(o)' => Held(o)
    BY <1>3, <1>4, HeldMoves, NoFrameFacts
  <2> QED
    BY <1>3, <1>5, <1>8, <1>11, <2>1 DEF YoungInv
<1>18. \A o : One("AttachPush", o)' <=> One("AttachPush", o)
  BY <1>3, <1>5
<1>19. LockInv'
  BY <1>8, <1>18 DEF LockInv, Free
<1>20. \A p \in Op : Adding(p)' <=> Adding(p)
  BY <1>8, <1>18 DEF Adding
<1>21. \A p, c : Pursued(p, c) => Pursued(p, c)'
  BY <1>4, PursuedMoves DEF On
<1>22. CancelInv'
  <2>1. \A p, c \in Op : IsChild(c, p) /\ Attached(c)' => Attached(c)
    BY <1>8, <1>11, TreeFacts DEF Attached
  <2> QED
    BY <1>3, <1>5, <1>8, <1>9, <1>20, <1>21, <2>1 DEF CancelInv
<1>23. \A p \in Op \ Host : p # op => (MayComplete(p) => MayComplete(p)')
  BY <1>2, <1>3, <1>5, <1>8, <1>10, <1>11 DEF MayComplete
<1>24. CompleteInv'
  <2>1. ~One("TryComplete", op)'
    BY <1>2, <1>3, <1>5 DEF YoungInv, Young
  <2> QED
    BY <1>3, <1>5, <1>8, <1>23, <2>1 DEF CompleteInv, CompletingOrCompleted
<1>25. ListInv'
  BY <1>2, <1>3, <1>5, <1>8, <1>20 DEF ListInv, Over
<1> QED
  BY <1>12, <1>13, <1>14, <1>15, <1>16, <1>17, <1>19, <1>22, <1>24, <1>25

LEMMA AttachChildKeeps ==
    ASSUME OpInv, NEW t \in Thread, AttachChild(t)
    PROVE  OpInv'
<1> USE DEF OpInv
<1>1. PICK d \in Nat, op \in Op : AtTop(t, d, "Attach", op) /\ One("Attach", op)
  BY TopFacts DEF AttachChild
<1>2. lifecycle[op] = "Started" /\ HasParent(op) /\ op \notin Host /\ Attaching(op)
  BY <1>1, TreeFacts DEF StartInv, Attaching
<1>3. PICK p \in Op : p = Parent(op) /\ IsChild(op, p)
  BY <1>2, TreeFacts
<1>4. Free(p) /\ ~One("AttachPush", op)
  <2>1. Free(p)
    BY <1>1, <1>3 DEF AttachChild, AtTop
  <2>2. ~One("AttachPush", op)
    BY <1>1, UniquePlace DEF StartInv, Starting
  <2> QED
    BY <2>1, <2>2
<1>5. UNCHANGED <<lifecycle, observed, cancelRequested, error_, children_, handedOver, fresh,
                  onStarted, asserts>>
  BY DEF AttachChild, word
<1>6. ASSUME NEW x \in {"AttachPush", "OnStart"}, NEW f \in Frames, f.at = x, f.op = op, f.kids = {},
             Goto(t, f)
      PROVE  /\ Moves(t, d, f, NoFrame) /\ F(t, d + 1) = NoFrame
             /\ F(t, d).at = "Attach" /\ F(t, d).op = op
             /\ \A y, o : y # "none" =>
                   /\ One(y, o)' => One(y, o) \/ (y = x /\ o = op)
                   /\ One(y, o) => One(y, o)' \/ (y = "Attach" /\ o = op)
             /\ One(x, op)' /\ ~One("Attach", op)'
             /\ Unique(Starting)' /\ Unique({"Begun"})' /\ Unique({"FinishComplete"})'
             /\ Unique({"Callback"})' /\ Unique({"Finish"})'
             /\ Unique({"CancelCollect", "CancelChildren"})'
             /\ BegunInv'
             /\ \A o \in Op : Fresh(o)' <=> Fresh(o)
             /\ \A o : Held(o)' => Held(o)
             /\ \A q, c : Pursued(q, c) => Pursued(q, c)'
  <2>1. /\ Moves(t, d, f, NoFrame) /\ F(t, d + 1) = NoFrame
        /\ F(t, d).at = "Attach" /\ F(t, d).op = op
    BY <1>1, <1>6, GotoMoves DEF AtTop
  <2>2. \A y, o : y # "none" =>
          /\ One(y, o)' => One(y, o) \/ (y = x /\ o = op)
          /\ One(y, o) => One(y, o)' \/ (y = "Attach" /\ o = op)
    BY <1>6, <2>1, OneMoves, NoFrameFacts DEF On
  <2>3. One(x, op)'
    BY <1>6, <2>1, OneMoves
  <2>4. ~One("Attach", op)'
    <3>1. Unique({"Attach"})
      BY UniquePart DEF StartInv, Starting
    <3> QED
      BY <1>6, <2>1, <3>1, UniqueGone, NoFrameFacts
  <2>5. /\ Unique(Starting)' /\ Unique({"Begun"})' /\ Unique({"FinishComplete"})'
        /\ Unique({"Callback"})' /\ Unique({"Finish"})' /\ Unique({"CancelCollect", "CancelChildren"})'
    BY <1>6, <2>1, NoFrameFacts, UniqueMoves DEF StartInv, EndInv, CancelInv, Starting
  <2>6. BegunInv'
    BY <1>5, <1>6, <2>1, BegunMoves, NoFrameFacts DEF On
  <2>7. \A o \in Op : Fresh(o)' <=> Fresh(o)
    BY <1>5, <1>6, <2>2 DEF Fresh
  <2>8. \A o : Held(o)' => Held(o)
    BY <1>6, <2>1, HeldMoves, NoFrameFacts
  <2>9. \A q, c : Pursued(q, c) => Pursued(q, c)'
    BY <2>1, PursuedMoves DEF On
  <2> QED
    BY <2>1, <2>2, <2>3, <2>4, <2>5, <2>6, <2>7, <2>8, <2>9
\* The parent takes the child.
<1>7. CASE ~CompletingOrCompleted(p) /\ ~cancelRequested[p]
  <2>1. PICK f \in Frames :
          /\ f.at = "AttachPush" /\ f.op = op /\ f.kids = {} /\ Goto(t, f)
          /\ childLock_' = [childLock_ EXCEPT ![p] = t] /\ refused' = refused
    BY <1>1, <1>3, <1>7, FrameFacts DEF AttachChild, AtTop, Places
  <2>2. /\ Moves(t, d, f, NoFrame) /\ BegunInv'
        /\ \A y, o : y # "none" =>
             /\ One(y, o)' => One(y, o) \/ (y = "AttachPush" /\ o = op)
             /\ One(y, o) => One(y, o)' \/ (y = "Attach" /\ o = op)
        /\ One("AttachPush", op)'
        /\ Unique(Starting)' /\ Unique({"Begun"})' /\ Unique({"FinishComplete"})'
        /\ Unique({"Callback"})' /\ Unique({"Finish"})'
        /\ Unique({"CancelCollect", "CancelChildren"})'
        /\ \A o \in Op : Fresh(o)' <=> Fresh(o)
        /\ \A o : Held(o)' => Held(o)
        /\ \A q, c : Pursued(q, c) => Pursued(q, c)'
    BY <1>6, <2>1
  <2>3. childLock_' \in [Op -> Thread \cup {NoThread}] /\ childLock_'[p] = t /\ t # NoThread
        /\ \A q \in Op : q # p => childLock_'[q] = childLock_[q]
    BY <2>1, TreeFacts DEF TypeInv
  <2>4. TypeInv'
    BY <1>1, <1>5, <2>1, <2>2, <2>3, TypesMove DEF TypeInv, AtTop
  <2>5. \A o \in Op : (Attaching(o)' <=> Attaching(o)) /\ (Young(o)' <=> Young(o))
    BY <1>1, <1>5, <2>2 DEF Attaching, Young
  <2>6. StartInv'
    BY <1>5, <2>2, <2>5 DEF StartInv
  <2>7. EndInv'
    BY <1>5, <2>2 DEF EndInv
  <2>8. OrderInv'
    BY <1>5, <2>2, <2>5, TreeFacts DEF OrderInv
  <2>9. YoungInv'
    BY <1>5, <2>2, <2>5 DEF YoungInv
  <2>10. LockInv'
    <3>1. \A c \in Op : One("AttachPush", c)' /\ c # op => One("AttachPush", c) /\ Parent(c) # p
      BY <1>4, <2>2 DEF LockInv
    <3> QED
      BY <1>3, <2>2, <2>3, <3>1, TreeFacts DEF LockInv, Free, StartInv, Attaching
  <2>11. \A q \in Op : Adding(q)' => Adding(q) \/ q = p
    BY <1>3, <1>5, <2>2 DEF Adding
  <2>12. CancelInv'
    BY <1>5, <1>7, <2>1, <2>2, <2>5, <2>11 DEF CancelInv, Attached
  <2>13. \A q \in Op \ Host : MayComplete(q)' <=> MayComplete(q)
    BY <1>5, <2>2, <2>5 DEF MayComplete
  <2>14. CompleteInv'
    BY <1>5, <2>2, <2>13 DEF CompleteInv, CompletingOrCompleted
  <2>15. ListInv'
    BY <1>5, <1>7, <2>2, <2>11 DEF ListInv, CompletingOrCompleted, Over
  <2> QED
    BY <2>2, <2>4, <2>6, <2>7, <2>8, <2>9, <2>10, <2>12, <2>14, <2>15
\* It refuses: the child goes on without being in the list.
<1>8. CASE ~(~CompletingOrCompleted(p) /\ ~cancelRequested[p])
  <2>1. PICK f \in Frames :
          /\ f.at = "OnStart" /\ f.op = op /\ f.kids = {} /\ Goto(t, f)
          /\ childLock_' = childLock_ /\ refused' = refused \cup {op}
    <3>1. "OnStart" \in Places
      BY DEF Places
    <3>2. [Frame("OnStart", op) EXCEPT !.attached = FALSE] \in Frames
      BY <3>1 DEF Frame, Frames, Error
    <3> QED
      BY <1>1, <1>3, <1>8, <3>1, <3>2, FrameFacts DEF AttachChild, AtTop, Frames
  <2>2. /\ Moves(t, d, f, NoFrame) /\ BegunInv'
        /\ \A y, o : y # "none" =>
             /\ One(y, o)' => One(y, o) \/ (y = "OnStart" /\ o = op)
             /\ One(y, o) => One(y, o)' \/ (y = "Attach" /\ o = op)
        /\ One("OnStart", op)' /\ ~One("Attach", op)'
        /\ Unique(Starting)' /\ Unique({"Begun"})' /\ Unique({"FinishComplete"})'
        /\ Unique({"Callback"})' /\ Unique({"Finish"})'
        /\ Unique({"CancelCollect", "CancelChildren"})'
        /\ \A o \in Op : Fresh(o)' <=> Fresh(o)
        /\ \A o : Held(o)' => Held(o)
        /\ \A q, c : Pursued(q, c) => Pursued(q, c)'
    BY <1>6, <2>1
  <2>3. TypeInv'
    BY <1>1, <1>5, <2>1, <2>2, TypesMove DEF TypeInv, AtTop
  <2>4. /\ ~Attaching(op)' /\ Young(op) /\ ~Young(op)'
        /\ \A o \in Op : o # op => (Attaching(o)' <=> Attaching(o)) /\ (Young(o)' <=> Young(o))
    BY <1>2, <1>4, <1>5, <2>2 DEF Attaching, Young
  <2>5. StartInv'
    BY <1>2, <1>5, <2>2, <2>4 DEF StartInv
  <2>6. EndInv'
    BY <1>5, <2>2 DEF EndInv
  <2>7. OrderInv'
    BY <1>5, <2>2, <2>4, TreeFacts DEF OrderInv
  <2>8. YoungInv'
    BY <1>5, <2>2, <2>4 DEF YoungInv
  <2>9. \A o : One("AttachPush", o)' <=> One("AttachPush", o)
    BY <2>2
  <2>10. LockInv'
    BY <2>1, <2>9 DEF LockInv, Free
  <2>11. \A q \in Op : Adding(q)' <=> Adding(q)
    BY <1>5, <2>9 DEF Adding
  <2>12. CancelInv'
    BY <1>5, <2>1, <2>2, <2>4, <2>11 DEF CancelInv, Attached
  <2>13. \A q \in Op \ Host : q # op => (MayComplete(q)' <=> MayComplete(q))
    BY <1>5, <2>2, <2>4 DEF MayComplete
  <2>14. CompleteInv'
    <3>1. ~One("TryComplete", op) /\ ~CompletingOrCompleted(op)
      BY <1>2, <2>4 DEF YoungInv, CompletingOrCompleted
    <3> QED
      BY <1>5, <2>2, <2>13, <3>1 DEF CompleteInv, CompletingOrCompleted
  <2>15. ListInv'
    BY <1>5, <2>2, <2>11 DEF ListInv
  <2> QED
    BY <2>2, <2>3, <2>5, <2>6, <2>7, <2>8, <2>10, <2>12, <2>14, <2>15
<1> QED
  BY <1>7, <1>8

LEMMA AttachPushKeeps ==
    ASSUME OpInv, NEW t \in Thread, AttachPush(t)
    PROVE  OpInv'
<1> USE DEF OpInv
<1>1. PICK d \in Nat, op \in Op : AtTop(t, d, "AttachPush", op) /\ One("AttachPush", op)
  BY TopFacts DEF AttachPush
<1>2. lifecycle[op] = "Started" /\ HasParent(op) /\ op \notin Host /\ Attaching(op)
  BY <1>1, TreeFacts DEF StartInv, Attaching
<1>3. PICK p \in Op : p = Parent(op) /\ IsChild(op, p)
  BY <1>2, TreeFacts
<1>4. PICK f \in Frames :
        /\ f.at = "OnStart" /\ f.op = op /\ f.kids = {} /\ Goto(t, f)
        /\ children_' = [children_ EXCEPT ![p] = @ \cup {op}]
        /\ childLock_' = [childLock_ EXCEPT ![p] = NoThread]
        /\ UNCHANGED <<word, error_, handedOver, fresh, history, asserts>>
  BY <1>1, <1>3, FrameFacts DEF AttachPush, AtTop, Places
<1>5. /\ Moves(t, d, f, NoFrame) /\ F(t, d + 1) = NoFrame
      /\ F(t, d).at = "AttachPush" /\ F(t, d).op = op
  BY <1>1, <1>4, GotoMoves DEF AtTop
<1>6. \A x, o : x # "none" =>
        /\ One(x, o)' => One(x, o) \/ (x = "OnStart" /\ o = op)
        /\ One(x, o) => One(x, o)' \/ (x = "AttachPush" /\ o = op)
  BY <1>4, <1>5, OneMoves, NoFrameFacts DEF On
<1>7. ~One("AttachPush", op)' /\ ~One("Attach", op)
  <2>1. Unique({"AttachPush"}) /\ ~One("Attach", op)
    BY <1>1, UniquePart, UniquePlace DEF StartInv, Starting
  <2> QED
    BY <1>4, <1>5, <2>1, UniqueGone, NoFrameFacts
<1>8. /\ UNCHANGED <<lifecycle, observed, cancelRequested, error_, handedOver, fresh,
                     onStarted, refused, asserts>>
      /\ children_' \in [Op -> SUBSET Op] /\ children_'[p] = children_[p] \cup {op}
      /\ childLock_' \in [Op -> Thread \cup {NoThread}]
      /\ \A q \in Op : q # p => children_'[q] = children_[q] /\ childLock_'[q] = childLock_[q]
  BY <1>4 DEF word, history, TypeInv
<1>9. Unique(Starting)' /\ Unique({"Begun"})' /\ Unique({"FinishComplete"})' /\ Unique({"Callback"})'
      /\ Unique({"Finish"})' /\ Unique({"CancelCollect", "CancelChildren"})'
  BY <1>4, <1>5, NoFrameFacts, UniqueMoves DEF StartInv, EndInv, CancelInv, Starting
<1>10. \A o \in Op : Fresh(o)' <=> Fresh(o)
  BY <1>6, <1>8 DEF Fresh
<1>11. /\ ~Attaching(op)' /\ Young(op) /\ ~Young(op)'
       /\ \A o \in Op : o # op => (Attaching(o)' <=> Attaching(o)) /\ (Young(o)' <=> Young(o))
  BY <1>2, <1>6, <1>7, <1>8 DEF Attaching, Young
<1>12. TypeInv'
  BY <1>1, <1>5, <1>8, TypesMove DEF TypeInv, AtTop
<1>13. StartInv'
  BY <1>2, <1>6, <1>8, <1>9, <1>11 DEF StartInv
<1>14. BegunInv'
  BY <1>4, <1>5, <1>8, BegunMoves, NoFrameFacts DEF On
<1>15. EndInv'
  BY <1>6, <1>8, <1>9 DEF EndInv
<1>16. OrderInv'
  BY <1>6, <1>8, <1>10, <1>11, TreeFacts DEF OrderInv
<1>17. YoungInv'
  <2>1. \A o : Held(o)' => Held(o)
    BY <1>4, <1>5, HeldMoves, NoFrameFacts
  <2>2. \A o, q \in Op : o # op /\ o \in children_'[q] => o \in children_[q]
    BY <1>8
  <2> QED
    BY <1>6, <1>8, <1>11, <2>1, <2>2 DEF YoungInv
<1>18. LockInv'
  <2>1. \A c \in Op : One("AttachPush", c)' => One("AttachPush", c) /\ Parent(c) # p
    BY <1>1, <1>3, <1>6, <1>7 DEF LockInv
  <2> QED
    BY <1>8, <2>1, TreeFacts DEF LockInv, Free, StartInv, Attaching
<1>19. Adding(p) /\ \A q \in Op : Adding(q)' => Adding(q)
  BY <1>1, <1>3, <1>6, <1>8 DEF Adding
<1>20. \A q, c : Pursued(q, c) => Pursued(q, c)'
  BY <1>5, PursuedMoves DEF On
<1>21. CancelInv'
  <2>1. \A q, c \in Op : c # op /\ Attached(c)' => Attached(c)
    BY <1>8, <1>11 DEF Attached
  <2>2. \A q \in Op : IsChild(op, q) => q = p
    BY <1>3, TreeFacts
  <2> QED
    BY <1>6, <1>8, <1>9, <1>19, <1>20, <2>1, <2>2 DEF CancelInv
<1>22. \A q \in Op \ Host : q # op => (MayComplete(q)' <=> MayComplete(q))
  BY <1>6, <1>8, <1>10, <1>11 DEF MayComplete
<1>23. CompleteInv'
  <2>1. ~One("TryComplete", op) /\ ~CompletingOrCompleted(op)
    BY <1>2, <1>11 DEF YoungInv, CompletingOrCompleted
  <2> QED
    BY <1>6, <1>8, <1>22, <2>1 DEF CompleteInv, CompletingOrCompleted
<1>24. ListInv'
  BY <1>2, <1>3, <1>6, <1>8, <1>19 DEF ListInv, Over
<1> QED
  BY <1>12, <1>13, <1>14, <1>15, <1>16, <1>17, <1>18, <1>21, <1>23, <1>24

LEMMA OnStartKeeps ==
    ASSUME OpInv, NEW t \in Thread, OnStart(t)
    PROVE  OpInv'
<1> USE DEF OpInv
<1>1. PICK d \in Nat, op \in Op : AtTop(t, d, "OnStart", op) /\ One("OnStart", op)
  BY TopFacts DEF OnStart
<1>2. /\ op \notin Host /\ lifecycle[op] # "Created"
      /\ ~Attaching(op) /\ ~One("Begin", op) /\ ~One("Start", op) /\ ~Young(op)
  <2>1. ~One("Attach", op) /\ ~One("AttachPush", op) /\ ~One("Begin", op) /\ ~One("Start", op)
    BY <1>1, UniquePlace DEF StartInv, Starting
  <2> QED
    BY <1>1, <2>1 DEF StartInv, Attaching, Young
<1>3. /\ UNCHANGED <<lifecycle, observed, cancelRequested, error_, children_, childLock_, fresh,
                     refused, asserts>>
      /\ onStarted' = onStarted \cup {op}
  BY <1>1 DEF OnStart, AtTop, word, tree
\* What the three ways on have in common: g is the frame that is called.
<1>4. ASSUME NEW f \in Frames, NEW g \in Frames, f.at = "StartReturns", f.op = op,
             f.kids = Top(t).kids, g.kids = {}, Moves(t, d, f, g),
             g.at \in {"none", "TryComplete", "Begin"},
             g.at = "Begin" => /\ g.op \in Op /\ Fresh(g.op) /\ IsChild(g.op, op)
                               /\ 1 \in DOMAIN Steps[op] /\ g.op = Steps[op][1],
             g.at = "TryComplete" => g.op = op /\ IsLeaf(op),
             handedOver' = handedOver \/ (handedOver' = handedOver \cup {op} /\ IsLeaf(op))
      PROVE  OpInv'
  <2>1. F(t, d + 1) = NoFrame /\ F(t, d).at = "OnStart" /\ F(t, d).op = op /\ F(t, d).kids = f.kids
    BY <1>1, <1>4 DEF AtTop
  <2>2. \A x, o : x # "none" =>
          /\ One(x, o)' => One(x, o) \/ (x = "StartReturns" /\ o = op) \/ (x = g.at /\ o = g.op)
          /\ One(x, o) => One(x, o)' \/ (x = "OnStart" /\ o = op)
    BY <1>4, <2>1, OneMoves DEF On
  <2>3. ~One("OnStart", op)'
    <3>1. Unique({"OnStart"})
      BY UniquePart DEF StartInv, Starting
    <3> QED
      BY <1>4, <2>1, <3>1, UniqueGone
  <2>4. g.at = "Begin" => g.op # op /\ (\A at \in Starting : ~One(at, g.op)) /\ One("Begin", g.op)'
    <3>1. g.at = "Begin" => One("Begin", g.op)'
      BY <1>4, <2>1, OneMoves
    <3> QED
      BY <1>2, <1>4, <3>1 DEF Fresh, StartInv, Starting, Attaching
  <2>5. Unique(Starting)' /\ Unique({"Begun"})' /\ Unique({"FinishComplete"})' /\ Unique({"Callback"})'
        /\ Unique({"Finish"})' /\ Unique({"CancelCollect", "CancelChildren"})'
    BY <1>4, <2>1, <2>4, UniqueMoves DEF StartInv, EndInv, CancelInv, Starting
  <2>6. \A o \in Op : Fresh(o)' <=> Fresh(o) /\ ~(g.at = "Begin" /\ o = g.op)
    BY <1>3, <1>4, <2>2, <2>4 DEF Fresh
  <2>7. \A o \in Op : (Attaching(o)' <=> Attaching(o)) /\ (Young(o)' <=> Young(o))
    BY <1>3, <1>4, <2>2 DEF Attaching, Young
  <2>8. TypeInv'
    BY <1>1, <1>3, <1>4, TypesMove DEF TypeInv, AtTop
  <2>9. StartInv'
    <3>1. g.at = "Begin" => lifecycle[g.op] = "Created" /\ g.op \notin Host
      BY <1>4, TreeFacts DEF Fresh
    <3> QED
      BY <1>3, <1>4, <2>2, <2>5, <2>7, <3>1 DEF StartInv
  <2>10. BegunInv'
    BY <1>3, <1>4, <2>1, BegunMoves DEF On
  <2>11. EndInv'
    BY <1>3, <1>4, <2>2, <2>5 DEF EndInv
  <2>12. OrderInv'
    <3>1. \A p \in Op \ Host, c \in Op : IsChild(c, p) /\ (Young(p)' \/ One("OnStart", p)') => Fresh(c)'
      <4>1. SUFFICES ASSUME NEW p \in Op \ Host, NEW c \in Op, IsChild(c, p), Young(p)' \/ One("OnStart", p)'
                     PROVE  Fresh(c)'
        OBVIOUS
      <4>2. p # op
        BY <1>2, <2>3, <2>7, <4>1
      <4>3. Fresh(c)
        BY <1>4, <2>2, <2>7, <4>1 DEF OrderInv
      <4>4. ~(g.at = "Begin" /\ c = g.op)
        BY <1>4, <4>1, <4>2, TreeAssumption
      <4> QED
        BY <2>6, <4>3, <4>4
    <3>2. ASSUME NEW p \in Op, NEW i \in DOMAIN Steps[p], NEW j \in DOMAIN Steps[p],
                 i < j, ~Fresh(Steps[p][j])'
          PROVE  \/ lifecycle'[Steps[p][i]] = "Ended" /\ error_'[Steps[p][i]] = "Success"
                 \/ p \in Host /\ Fresh(Steps[p][i])'
      <4>1. Steps[p][i] \in Op /\ Steps[p][j] \in Op /\ IsChild(Steps[p][i], p) /\ IsChild(Steps[p][j], p)
        BY TreeFacts DEF IsChild
      <4>2. ASSUME p # op
            PROVE  ~(g.at = "Begin" /\ (Steps[p][i] = g.op \/ Steps[p][j] = g.op))
        BY <1>4, <4>1, <4>2, TreeAssumption
      <4>3. CASE p # op
        BY <1>3, <2>6, <3>2, <4>1, <4>2, <4>3 DEF OrderInv
      <4>4. CASE p = op /\ ~Fresh(Steps[p][j])
        BY <1>2, <1>3, <3>2, <4>4 DEF OrderInv
      <4>5. CASE p = op /\ Fresh(Steps[p][j])
        <5>1. Steps[p][j] = Steps[p][1] /\ 1 \in DOMAIN Steps[p]
          BY <1>4, <2>6, <3>2, <4>1, <4>5
        <5>2. j = 1
          BY <5>1, TreeAssumption
        <5> QED
          BY <3>2, <5>2, TreeFacts
      <4> QED
        BY <4>3, <4>4, <4>5
    <3> QED
      BY <3>1, <3>2 DEF OrderInv
  <2>13. YoungInv'
    <3>1. \A o : Held(o)' => Held(o)
      BY <1>4, <2>1, HeldMoves DEF Held
    <3> QED
      BY <1>2, <1>3, <1>4, <2>2, <2>7, <3>1 DEF YoungInv
  <2>14. \A o : One("AttachPush", o)' <=> One("AttachPush", o)
    BY <1>4, <2>2
  <2>15. LockInv'
    BY <1>3, <2>14 DEF LockInv, Free
  <2>16. \A p \in Op : Adding(p)' <=> Adding(p)
    BY <1>3, <2>14 DEF Adding
  <2>17. \A p, c : Pursued(p, c) => Pursued(p, c)'
    BY <1>4, <2>1, PursuedMoves DEF On
  <2>18. CancelInv'
    BY <1>3, <1>4, <2>2, <2>5, <2>7, <2>16, <2>17 DEF CancelInv, Attached
  <2>19. \A p \in Op \ Host : MayComplete(p) => MayComplete(p)'
    <3>1. SUFFICES ASSUME NEW p \in Op \ Host, MayComplete(p) PROVE MayComplete(p)'
      OBVIOUS
    <3>2. CASE IsLeaf(p) \/ (cancelRequested[p] /\ ~One("CancelCollect", p) /\ ~One("CancelChildren", p))
      BY <1>3, <1>4, <2>2, <3>2 DEF MayComplete
    <3>3. CASE /\ ~Young(p) /\ ~One("OnStart", p)
               /\ \A c \in Op : IsChild(c, p) => Fresh(c) \/ lifecycle[c] = "Ended"
      <4>1. p # op
        BY <1>1, <3>3
      <4>2. \A c \in Op : IsChild(c, p) => ~(g.at = "Begin" /\ c = g.op)
        BY <1>4, <4>1, TreeAssumption
      <4> QED
        BY <1>3, <1>4, <2>2, <2>6, <2>7, <3>3, <4>2 DEF MayComplete
    <3> QED
      BY <3>1, <3>2, <3>3 DEF MayComplete
  <2>20. CompleteInv'
    <3>1. g.at = "TryComplete" => MayComplete(op)'
      BY <1>4 DEF MayComplete
    <3> QED
      BY <1>3, <1>4, <2>2, <2>19, <3>1 DEF CompleteInv, CompletingOrCompleted
  <2>21. ListInv'
    BY <1>3, <1>4, <2>2, <2>16 DEF ListInv
  <2> QED
    BY <2>8, <2>9, <2>10, <2>11, <2>12, <2>13, <2>15, <2>18, <2>20, <2>21
<1> DEFINE f == [Top(t) EXCEPT !.at = "StartReturns"]
<1>5. f \in Frames /\ f.at = "StartReturns" /\ f.op = op /\ f.kids = Top(t).kids
  BY <1>1 DEF AtTop, Frames, Places
<1> HIDE DEF f
<1>6. CASE ~IsLeaf(op) /\ Call(t, f, Frame("Begin", Head(Steps[op]))) /\ handedOver' = handedOver
  <2> DEFINE c == Head(Steps[op])
  <2>1. Steps[op] \in Seq(Op) /\ Steps[op] # <<>> /\ c = Steps[op][1] /\ 1 \in DOMAIN Steps[op] /\ c \in Op
    BY <1>6, TreeFacts DEF IsLeaf
  <2>2. IsChild(c, op)
    BY <2>1 DEF IsChild
  <2>3. Fresh(c)
    BY <1>1, <1>2, <2>1, <2>2 DEF OrderInv
  <2> HIDE DEF c
  <2>4. "Begin" \in Places
    BY DEF Places
  <2>5. PICK g \in Frames : g = Frame("Begin", c) /\ g.at = "Begin" /\ g.op = c /\ g.kids = {}
    BY <2>1, <2>4, FrameFacts
  <2>6. Moves(t, d, f, g)
    BY <1>1, <1>5, <1>6, <2>5, CallMoves DEF c
  <2> QED
    BY <1>4, <1>5, <1>6, <2>1, <2>2, <2>3, <2>5, <2>6
<1>7. ASSUME NEW e \in {"Success", "Failure"}, IsLeaf(op), handedOver' = handedOver,
             Call(t, f, [Frame("TryComplete", op) EXCEPT !.err = e])
      PROVE  OpInv'
  <2>1. "TryComplete" \in Places
    BY DEF Places
  <2> DEFINE g == [Frame("TryComplete", op) EXCEPT !.err = e]
  <2>2. g \in Frames /\ g.at = "TryComplete" /\ g.op = op /\ g.kids = {}
    BY <2>1 DEF Frame, Frames, Error
  <2> HIDE DEF g
  <2>3. Moves(t, d, f, g)
    BY <1>1, <1>5, <1>7, <2>2, CallMoves DEF g
  <2> QED
    BY <1>4, <1>5, <1>7, <2>2, <2>3
<1>8. CASE IsLeaf(op) /\ Goto(t, f) /\ handedOver' = handedOver \cup {op}
  <2>1. Moves(t, d, f, NoFrame)
    BY <1>1, <1>5, <1>8, GotoMoves
  <2> QED
    BY <1>4, <1>5, <1>8, <2>1, NoFrameFacts
<1> QED
  BY <1>1, <1>6, <1>7, <1>8 DEF OnStart, AtTop, f

LEMMA StartReturnsKeeps ==
    ASSUME OpInv, NEW t \in Thread, StartReturns(t)
    PROVE  OpInv'
<1> USE DEF OpInv
<1>1. PICK d \in Nat, op \in Op : AtTop(t, d, "StartReturns", op)
  BY TopFacts DEF StartReturns
<1>2. /\ Moves(t, d, NoFrame, NoFrame) /\ F(t, d + 1) = NoFrame /\ F(t, d).at = "StartReturns"
  BY <1>1, ReturnMoves DEF StartReturns, AtTop
<1>3. /\ UNCHANGED <<lifecycle, observed, cancelRequested, error_, children_, childLock_, handedOver,
                     fresh, onStarted, refused>>
      /\ asserts' \subseteq asserts \cup {"attach"}
  BY DEF StartReturns, word, tree, history
<1>4. \A x, o : x \notin {"none", "StartReturns"} => (One(x, o)' <=> One(x, o))
  BY <1>2, OneMoves, NoFrameFacts DEF On
<1>5. Unique(Starting)' /\ Unique({"Begun"})' /\ Unique({"FinishComplete"})' /\ Unique({"Callback"})'
      /\ Unique({"Finish"})' /\ Unique({"CancelCollect", "CancelChildren"})'
  BY <1>2, NoFrameFacts, UniqueMoves DEF StartInv, EndInv, CancelInv, Starting
<1>6. TypeInv'
  BY <1>1, <1>2, <1>3, TypesMove DEF TypeInv, AtTop
<1>7. StartInv'
  BY <1>3, <1>4, <1>5 DEF StartInv, Attaching
<1>8. BegunInv'
  BY <1>2, <1>3, BegunMoves, NoFrameFacts DEF On
<1>9. EndInv'
  BY <1>3, <1>4, <1>5 DEF EndInv
<1>10. \A o \in Op : (Fresh(o)' <=> Fresh(o)) /\ (Young(o)' <=> Young(o)) /\ (Attaching(o)' <=> Attaching(o))
  BY <1>3, <1>4 DEF Fresh, Young, Attaching
<1>11. OrderInv'
  BY <1>3, <1>4, <1>10, TreeFacts DEF OrderInv
<1>12. YoungInv'
  <2>1. \A o : Held(o)' => Held(o)
    BY <1>2, HeldMoves, NoFrameFacts
  <2> QED
    BY <1>3, <1>4, <1>10, <2>1 DEF YoungInv
<1>13. LockInv'
  BY <1>3, <1>4 DEF LockInv, Free
<1>14. \A p \in Op : Adding(p)' <=> Adding(p)
  BY <1>3, <1>4 DEF Adding
<1>15. \A p, c : Pursued(p, c) => Pursued(p, c)'
  BY <1>2, PursuedMoves DEF On
<1>16. CancelInv'
  BY <1>3, <1>4, <1>5, <1>10, <1>14, <1>15 DEF CancelInv, Attached
<1>17. CompleteInv'
  BY <1>3, <1>4, <1>10 DEF CompleteInv, CompletingOrCompleted, MayComplete
<1>18. ListInv'
  BY <1>3, <1>4, <1>14 DEF ListInv
<1> QED
  BY <1>6, <1>7, <1>8, <1>9, <1>11, <1>12, <1>13, <1>16, <1>17, <1>18

\* Begin and the callback, which decide whether to end the operation.
LEMMA ObserveKeeps ==
    ASSUME OpInv, NEW t \in Thread, NEW d \in Nat, NEW op \in Op, NEW at \in {"Begun", "Callback"},
           AtTop(t, d, at, op), Observe(op),
           UNCHANGED <<lifecycle, cancelRequested, error_, tree, handedOver, fresh, history, asserts>>,
           \/ Return(t) /\ (at = "Begun" => observed'[op])
           \/ Goto(t, Frame("Finish", op)) /\ lifecycle[op] = "Completed" /\ ~One("Finish", op)
              /\ observed'[op] = (at = "Callback")
    PROVE  OpInv'
<1> USE DEF OpInv
<1>1. One(at, op)
  BY DEF AtTop, One, On
<1>2. PICK f \in Frames :
        /\ Moves(t, d, f, NoFrame) /\ f.kids = {}
        /\ \/ f.at = "none" /\ (at = "Begun" => observed'[op])
           \/ /\ f.at = "Finish" /\ f.op = op /\ lifecycle[op] = "Completed" /\ ~One("Finish", op)
              /\ observed'[op] = (at = "Callback")
  <2>1. CASE Return(t) /\ (at = "Begun" => observed'[op])
    BY <2>1, ReturnMoves, NoFrameFacts
  <2>2. CASE /\ Goto(t, Frame("Finish", op)) /\ lifecycle[op] = "Completed" /\ ~One("Finish", op)
             /\ observed'[op] = (at = "Callback")
    <3>1. "Finish" \in Places
      BY DEF Places
    <3> QED
      BY <2>2, <3>1, GotoMoves, FrameFacts
  <2> QED
    BY <2>1, <2>2
<1>3. F(t, d + 1) = NoFrame /\ F(t, d).at = at /\ F(t, d).op = op
  BY DEF AtTop
<1>4. /\ UNCHANGED <<lifecycle, cancelRequested, error_, children_, childLock_, handedOver,
                     fresh, onStarted, refused, asserts>>
      /\ observed' \in [Op -> BOOLEAN]
      /\ observed'[op] = (observed[op] \/ lifecycle[op] \in {"Started", "Completing"})
      /\ \A o \in Op : o # op => observed'[o] = observed[o]
  BY DEF tree, history, Observe, TypeInv
<1>5. \A x, o : x # "none" =>
        /\ One(x, o)' => One(x, o) \/ (x = "Finish" /\ f.at = "Finish" /\ o = op)
        /\ One(x, o) => One(x, o)' \/ (x = at /\ o = op)
  BY <1>2, <1>3, OneMoves, NoFrameFacts DEF On
<1>6. Unique(Starting)' /\ Unique({"Begun"})' /\ Unique({"FinishComplete"})' /\ Unique({"Callback"})'
      /\ Unique({"Finish"})' /\ Unique({"CancelCollect", "CancelChildren"})'
  BY <1>2, <1>3, NoFrameFacts, UniqueMoves DEF StartInv, EndInv, CancelInv, Starting
<1>7. ~One(at, op)'
  <2>1. Unique({at})
    BY DEF EndInv
  <2> QED
    BY <1>2, <1>3, <2>1, UniqueGone, NoFrameFacts
<1>8. TypeInv'
  BY <1>2, <1>4, TypesMove DEF TypeInv, AtTop
<1>9. StartInv'
  BY <1>4, <1>5, <1>6 DEF StartInv, Attaching
<1>10. BegunInv'
  BY <1>2, <1>3, <1>4, BegunMoves, NoFrameFacts DEF On
<1>11. EndInv'
  <2>1. One("Callback", op)' => lifecycle[op] = "Completed" \/ (lifecycle[op] = "Ended" /\ ~observed'[op])
    BY <1>4, <1>5 DEF EndInv
  <2>2. One("Begun", op)' /\ ~observed'[op] => lifecycle[op] # "Ended"
    BY <1>4, <1>5 DEF EndInv
  <2>3. ASSUME One("Finish", op)'
        PROVE  lifecycle[op] = "Completed" /\ (observed'[op] => ~One("Callback", op)')
               /\ (~observed'[op] => ~One("Begun", op)')
    <3>1. CASE One("Finish", op)
      BY <1>4, <1>5, <3>1 DEF EndInv
    <3>2. CASE ~One("Finish", op)
      BY <1>2, <1>5, <1>7, <2>3, <3>2
    <3> QED
      BY <3>1, <3>2
  <2>4. \A o \in Op : o # op =>
          /\ One("Callback", o)' => lifecycle[o] = "Completed" \/ (lifecycle[o] = "Ended" /\ ~observed'[o])
          /\ One("Begun", o)' /\ ~observed'[o] => lifecycle[o] # "Ended"
          /\ One("Finish", o)' => /\ lifecycle[o] = "Completed"
                                  /\ observed'[o] => ~One("Callback", o)'
                                  /\ ~observed'[o] => ~One("Begun", o)'
    BY <1>4, <1>5 DEF EndInv
  <2>5. \A o \in Op : One("FinishComplete", o)' => lifecycle[o] = "Completing"
    BY <1>4, <1>5 DEF EndInv
  <2> QED
    BY <1>4, <1>6, <2>1, <2>2, <2>3, <2>4, <2>5 DEF EndInv
<1>12. \A o \in Op : (Fresh(o)' <=> Fresh(o)) /\ (Young(o)' <=> Young(o)) /\ (Attaching(o)' <=> Attaching(o))
  BY <1>4, <1>5 DEF Fresh, Young, Attaching
<1>13. OrderInv'
  BY <1>4, <1>5, <1>12, TreeFacts DEF OrderInv
<1>14. YoungInv'
  <2>1. \A o : Held(o)' => Held(o)
    BY <1>2, HeldMoves, NoFrameFacts
  <2> QED
    BY <1>4, <1>5, <1>12, <2>1 DEF YoungInv
<1>15. \A o : One("AttachPush", o)' <=> One("AttachPush", o)
  BY <1>5
<1>16. LockInv'
  BY <1>4, <1>15 DEF LockInv, Free
<1>17. \A p \in Op : Adding(p)' <=> Adding(p)
  BY <1>4, <1>15 DEF Adding
<1>18. \A p, c : Pursued(p, c) => Pursued(p, c)'
  BY <1>2, <1>3, PursuedMoves DEF On
<1>19. CancelInv'
  BY <1>4, <1>5, <1>6, <1>12, <1>17, <1>18 DEF CancelInv, Attached
<1>20. CompleteInv'
  BY <1>4, <1>5, <1>12 DEF CompleteInv, CompletingOrCompleted, MayComplete
<1>21. ListInv'
  BY <1>4, <1>5, <1>17 DEF ListInv
<1> QED
  BY <1>8, <1>9, <1>10, <1>11, <1>13, <1>14, <1>16, <1>19, <1>20, <1>21

LEMMA BegunKeeps ==
    ASSUME OpInv, NEW t \in Thread, Begun(t)
    PROVE  OpInv'
<1> USE DEF OpInv
<1>1. PICK d \in Nat, op \in Op : AtTop(t, d, "Begun", op) /\ One("Begun", op)
  BY TopFacts DEF Begun
<1>2. lifecycle[op] # "Created"
  BY <1>1, NoFrameFacts DEF BegunInv, AtTop, On
<1>3. /\ Observe(op)
      /\ UNCHANGED <<lifecycle, cancelRequested, error_, tree, handedOver, fresh, history, asserts>>
      /\ IF CompletedSynchronously(op) THEN Goto(t, Frame("Finish", op)) ELSE Return(t)
      /\ observed'[op] = (observed[op] \/ lifecycle[op] \in {"Started", "Completing"})
  BY <1>1 DEF Begun, AtTop, Observe, TypeInv
<1>4. CASE CompletedSynchronously(op)
  <2>1. ~observed[op] /\ lifecycle[op] = "Completed" /\ ~observed'[op]
    BY <1>1, <1>2, <1>3, <1>4 DEF CompletedSynchronously, EndInv, TypeInv, Phase
  <2>2. ~One("Finish", op)
    BY <1>1, <2>1 DEF EndInv
  <2>3. observed'[op] = ("Begun" = "Callback")
    BY <1>3, <2>1 DEF TypeInv
  <2> QED
    BY <1>1, <1>3, <1>4, <2>1, <2>2, <2>3, ObserveKeeps
<1>5. CASE ~CompletedSynchronously(op)
  <2>1. observed'[op]
    BY <1>3, <1>5 DEF CompletedSynchronously
  <2> QED
    BY <1>1, <1>3, <1>5, <2>1, ObserveKeeps
<1> QED
  BY <1>4, <1>5

LEMMA CallbackKeeps ==
    ASSUME OpInv, NEW t \in Thread, Callback(t)
    PROVE  OpInv'
<1> USE DEF OpInv
<1>1. PICK d \in Nat, op \in Op : AtTop(t, d, "Callback", op) /\ One("Callback", op)
  BY TopFacts DEF Callback
<1>2. /\ Observe(op)
      /\ UNCHANGED <<lifecycle, cancelRequested, error_, tree, handedOver, fresh, history, asserts>>
      /\ IF CompletedSynchronously(op) THEN Return(t) ELSE Goto(t, Frame("Finish", op))
      /\ observed'[op] = (observed[op] \/ lifecycle[op] \in {"Started", "Completing"})
  BY <1>1 DEF Callback, AtTop, Observe, TypeInv
<1>3. lifecycle[op] = "Completed" \/ (lifecycle[op] = "Ended" /\ ~observed[op])
  BY <1>1 DEF EndInv
<1>4. CASE CompletedSynchronously(op)
  BY <1>1, <1>2, <1>4, ObserveKeeps
<1>5. CASE ~CompletedSynchronously(op)
  <2>1. observed[op] /\ lifecycle[op] = "Completed" /\ observed'[op]
    BY <1>2, <1>3, <1>5 DEF CompletedSynchronously
  <2>2. ~One("Finish", op)
    BY <1>1, <2>1 DEF EndInv
  <2>3. observed'[op] = ("Callback" = "Callback")
    BY <1>2, <2>1 DEF TypeInv
  <2> QED
    BY <1>1, <1>2, <1>5, <2>1, <2>2, <2>3, ObserveKeeps
<1> QED
  BY <1>4, <1>5

\* The operations that an operation begins: op is one of them.
LEMMA SuccessorFacts ==
    ASSUME NEW op \in Op, NEW p \in Op, IsChild(op, p)
    PROVE  \E i \in DOMAIN Steps[p] :
              /\ i \in Nat /\ Steps[p][i] = op /\ Steps[p] \in Seq(Op)
              /\ Successors(op) = <<>> <=> i = Len(Steps[p])
              /\ Successors(op) # <<>> => /\ i + 1 \in DOMAIN Steps[p]
                                          /\ Head(Successors(op)) = Steps[p][i + 1]
<1>1. p = Parent(op) /\ Steps[p] \in Seq(Op)
  BY TreeFacts
<1> DEFINE i == CHOOSE j \in DOMAIN Steps[p] : Steps[p][j] = op
<1>2. i \in DOMAIN Steps[p] /\ Steps[p][i] = op
  BY DEF IsChild
<1>3. Successors(op) = SubSeq(Steps[p], i + 1, Len(Steps[p]))
  BY <1>1 DEF Successors
<1> HIDE DEF i
<1>4. i \in 1..Len(Steps[p]) /\ Len(Steps[p]) \in Nat
  BY <1>1, <1>2
<1>5. CASE i = Len(Steps[p])
  <2>1. Successors(op) = <<>>
    BY <1>1, <1>3, <1>4, <1>5
  <2> QED
    BY <1>1, <1>2, <1>4, <1>5, <2>1
<1>6. CASE i < Len(Steps[p])
  <2>1. Len(Successors(op)) = Len(Steps[p]) - i /\ Successors(op)[1] = Steps[p][i + 1]
        /\ Successors(op) \in Seq(Op)
    BY <1>1, <1>3, <1>4, <1>6
  <2>2. Successors(op) # <<>> /\ Head(Successors(op)) = Steps[p][i + 1] /\ i + 1 \in DOMAIN Steps[p]
    BY <1>1, <1>4, <1>6, <2>1
  <2> QED
    BY <1>1, <1>2, <1>4, <1>6, <2>2
<1> QED
  BY <1>4, <1>5, <1>6

\* An operation is ended, and the thread goes on with frame f: the next child of q,
\* which comes after child n, the completion of a parent, or nothing of AsyncOperation.
LEMMA EndKeeps ==
    ASSUME OpInv, NEW t \in Thread, NEW d \in Nat, NEW op \in Op,
           AtTop(t, d, "Finish", op), One("Finish", op),
           UNCHANGED <<observed, cancelRequested, error_, children_, childLock_, handedOver, fresh,
                       onStarted, refused, asserts>>,
           lifecycle' \in [Op -> Phase], lifecycle'[op] = "Ended",
           \A o \in Op : o # op => lifecycle'[o] = lifecycle[o],
           NEW f \in Frames, NEW q \in Op, NEW n, Moves(t, d, f, NoFrame), f.kids = {},
           f.at \in {"Begin", "TryComplete"} \/ f.at \notin OwnPlaces,
           f.at = "Begin" => /\ f.op \in Op /\ Fresh(f.op) /\ error_[op] = "Success"
                             /\ IsChild(op, q) /\ IsChild(f.op, q)
                             /\ n \in DOMAIN Steps[q] /\ Steps[q][n] = op
                             /\ n + 1 \in DOMAIN Steps[q] /\ Steps[q][n + 1] = f.op,
           f.at = "TryComplete" => IsChild(op, f.op) /\ (f.op \notin Host => MayComplete(f.op)')
    PROVE  OpInv'
<1> USE DEF OpInv
<1>1. /\ lifecycle[op] = "Completed" /\ op \notin Host /\ ~Fresh(op) /\ ~Young(op)
      /\ (observed[op] => ~One("Callback", op)) /\ (~observed[op] => ~One("Begun", op))
  BY DEF EndInv, StartInv, Fresh, Young
<1>2. f.at \notin {"Start", "Attach", "AttachPush", "OnStart", "StartReturns", "Begun", "Callback",
                  "Finish", "FinishComplete", "Cleanup", "Detach", "Cancel", "CancelCollect",
                  "CancelChildren"}
  BY DEF OwnPlaces
<1>3. F(t, d + 1) = NoFrame /\ F(t, d).at = "Finish" /\ F(t, d).op = op
  BY DEF AtTop
<1>4. \A x, o : x # "none" =>
        /\ One(x, o)' => One(x, o) \/ (x = f.at /\ o = f.op)
        /\ One(x, o) => One(x, o)' \/ (x = "Finish" /\ o = op)
  BY <1>2, <1>3, OneMoves, NoFrameFacts DEF On
<1>5. ~One("Finish", op)'
  <2>1. Unique({"Finish"})
    BY DEF EndInv
  <2> QED
    BY <1>2, <1>3, <2>1, UniqueGone, NoFrameFacts
<1>6. f.at = "Begin" => f.op # op /\ (\A at \in Starting : ~One(at, f.op)) /\ One("Begin", f.op)'
                        /\ f.op \notin Host /\ lifecycle[f.op] = "Created"
  <2>1. f.at = "Begin" => One("Begin", f.op)'
    BY <1>2, <1>3, OneMoves
  <2> QED
    BY <1>2, <1>1, <2>1, TreeFacts DEF Fresh, StartInv, Starting, Attaching
<1>7. Unique(Starting)' /\ Unique({"Begun"})' /\ Unique({"FinishComplete"})' /\ Unique({"Callback"})'
      /\ Unique({"Finish"})' /\ Unique({"CancelCollect", "CancelChildren"})'
  BY <1>2, <1>3, <1>6, NoFrameFacts, UniqueMoves DEF StartInv, EndInv, CancelInv, Starting
<1>8. \A o \in Op : Fresh(o)' <=> Fresh(o) /\ ~(f.at = "Begin" /\ o = f.op)
  BY <1>1, <1>2, <1>4, <1>6 DEF Fresh
<1>9. \A o \in Op : (Attaching(o)' <=> Attaching(o)) /\ (Young(o)' <=> Young(o))
  BY <1>1, <1>2, <1>4 DEF Attaching, Young
<1>10. TypeInv'
  BY <1>2, TypesMove DEF TypeInv, AtTop
<1>11. StartInv'
  <2>1. \A o \in Op : lifecycle'[o] = lifecycle[o] \/ (o = op /\ lifecycle'[o] = "Ended")
    OBVIOUS
  <2>2. \A o \in Host : lifecycle'[o] = "Created"
    BY <1>1, TreeFacts DEF StartInv
  <2>3. \A o \in Op : One("Begin", o)' \/ One("Start", o)' => lifecycle'[o] = "Created" /\ o \notin Host
    <3>1. ~One("Begin", op) /\ ~One("Start", op)
      BY <1>1 DEF StartInv
    <3>2. \A o \in Op : One("Begin", o)' \/ One("Start", o)' =>
              One("Begin", o) \/ One("Start", o) \/ (f.at = "Begin" /\ o = f.op)
      BY <1>2, <1>4
    <3>3. \A o \in Op : One("Begin", o) \/ One("Start", o) => lifecycle[o] = "Created" /\ o \notin Host
      BY DEF StartInv
    <3> QED
      BY <1>6, <2>1, <3>1, <3>2, <3>3
  <2>4. \A o \in Op : Attaching(o)' => lifecycle'[o] = "Started" /\ HasParent(o)
    <3>1. \A o \in Op : Attaching(o) => lifecycle[o] = "Started" /\ HasParent(o) /\ o # op
      BY <1>1 DEF StartInv
    <3> QED
      BY <1>9, <2>1, <3>1
  <2>5. \A o \in Op : One("OnStart", o)' => lifecycle'[o] # "Created"
    <3>1. \A o \in Op : One("OnStart", o)' => One("OnStart", o)
      BY <1>2, <1>4
    <3>2. \A o \in Op : One("OnStart", o) => lifecycle[o] # "Created"
      BY DEF StartInv
    <3> QED
      BY <2>1, <3>1, <3>2
  <2>6. asserts' \cap {"TransitionStarted", "TransitionCompleted", "TransitionEnded"} = {}
    BY DEF StartInv
  <2> QED
    BY <1>7, <2>2, <2>3, <2>4, <2>5, <2>6 DEF StartInv
<1>12. BegunInv'
  <2>1. \A o \in Op \ (Op \ {op}) : lifecycle'[o] # "Created"
    BY <1>2
  <2>2. \A o \in (Op \ {op}) \cap Op : lifecycle'[o] = lifecycle[o] /\ ~On(t, d, "Start", o)
    BY <1>2, <1>3 DEF On
  <2> QED
    BY <1>2, <1>3, <2>1, <2>2, BegunMoves, NoFrameFacts
<1>13. EndInv'
  BY <1>1, <1>2, <1>4, <1>5, <1>7 DEF EndInv
<1>14. OrderInv'
  <2>1. \A p \in Op \ Host, c \in Op : IsChild(c, p) /\ (Young(p)' \/ One("OnStart", p)') => Fresh(c)'
    <3>1. SUFFICES ASSUME NEW p \in Op \ Host, NEW c \in Op, IsChild(c, p), Young(p)' \/ One("OnStart", p)'
                   PROVE  Fresh(c)'
      OBVIOUS
    <3>2. \A e \in Op : IsChild(e, p) => Fresh(e)
      BY <1>2, <1>4, <1>9, <3>1 DEF OrderInv
    <3>3. ~IsChild(op, p)
      BY <1>2, <1>1, <3>2
    <3>4. ~(f.at = "Begin" /\ c = f.op)
      BY <3>1, <3>3, TreeAssumption
    <3> QED
      BY <1>2, <1>8, <3>1, <3>2, <3>4
  <2>2. ASSUME NEW p \in Op, NEW i \in DOMAIN Steps[p], NEW j \in DOMAIN Steps[p],
               i < j, ~Fresh(Steps[p][j])'
        PROVE  \/ lifecycle'[Steps[p][i]] = "Ended" /\ error_'[Steps[p][i]] = "Success"
               \/ p \in Host /\ Fresh(Steps[p][i])'
    <3>1. Steps[p][i] \in Op /\ Steps[p][j] \in Op /\ IsChild(Steps[p][i], p) /\ IsChild(Steps[p][j], p)
      BY TreeFacts DEF IsChild
    <3>2. CASE ~(f.at = "Begin" /\ (Steps[p][i] = f.op \/ Steps[p][j] = f.op))
      BY <1>2, <1>8, <2>2, <3>1, <3>2 DEF OrderInv
    <3>3. CASE f.at = "Begin" /\ (Steps[p][i] = f.op \/ Steps[p][j] = f.op)
      <4>2. /\ IsChild(op, q) /\ IsChild(f.op, q) /\ error_[op] = "Success"
            /\ n \in DOMAIN Steps[q] /\ Steps[q][n] = op
            /\ n + 1 \in DOMAIN Steps[q] /\ Steps[q][n + 1] = f.op
        BY <3>3
      <4>3. q = p
        BY <3>1, <3>3, <4>2, TreeAssumption
      <4>4. n \in Nat /\ i \in Nat /\ j \in Nat
        BY <4>2, <4>3, TreeFacts
      <4>5. \A k \in DOMAIN Steps[p] : k > n => Fresh(Steps[p][k])
        BY <1>2, <1>1, <4>2, <4>3 DEF OrderInv
      \* The next one is begun: those before it are over, or were never begun.
      <4>6. CASE j = n + 1
        <5>1. i = n \/ (i < n)
          BY <2>2, <4>4, <4>6
        <5>2. i < n => \/ lifecycle[Steps[p][i]] = "Ended" /\ error_[Steps[p][i]] = "Success"
                       \/ p \in Host /\ Fresh(Steps[p][i])
          BY <1>2, <1>1, <4>2, <4>3 DEF OrderInv
        <5>3. Steps[p][i] # f.op
          BY <2>2, <4>2, <4>3, <4>6, TreeAssumption, <4>4
        <5> QED
          BY <1>1, <1>2, <1>8, <3>1, <4>2, <4>3, <5>1, <5>2, <5>3
      <4>7. CASE j # n + 1
        <5>1. Steps[p][j] # f.op /\ ~Fresh(Steps[p][j])
          BY <1>2, <1>8, <2>2, <3>1, <4>2, <4>3, <4>7, TreeAssumption
        <5>2. i = n + 1
          BY <3>3, <4>2, <4>3, <5>1, TreeAssumption
        <5> QED
          BY <2>2, <4>4, <4>5, <5>1, <5>2
      <4> QED
        BY <4>6, <4>7
    <3> QED
      BY <3>2, <3>3
  <2> QED
    BY <1>2, <2>1, <2>2 DEF OrderInv
<1>15. f.at = "TryComplete" => f.op \in Host \/ ~Young(f.op)
  BY <1>2, <1>1 DEF OrderInv, Frames
<1>16. YoungInv'
  <2>1. \A o : Held(o)' => Held(o)
    BY HeldMoves, NoFrameFacts
  <2> QED
    BY <1>2, <1>4, <1>9, <1>15, <2>1 DEF YoungInv
<1>17. \A o : One("AttachPush", o)' <=> One("AttachPush", o)
  BY <1>2, <1>4
<1>18. LockInv'
  BY <1>2, <1>17 DEF LockInv, Free
<1>19. \A p \in Op : Adding(p)' <=> Adding(p)
  BY <1>2, <1>17 DEF Adding
<1>20. \A p, c : Pursued(p, c) => Pursued(p, c)'
  BY <1>2, <1>3, PursuedMoves DEF On
<1>21. CancelInv'
  BY <1>1, <1>2, <1>4, <1>7, <1>9, <1>19, <1>20 DEF CancelInv, Attached
<1>22. \A p \in Op \ Host : MayComplete(p) => MayComplete(p)'
  <2>1. SUFFICES ASSUME NEW p \in Op \ Host, MayComplete(p) PROVE MayComplete(p)'
    OBVIOUS
  <2>2. CASE IsLeaf(p) \/ (cancelRequested[p] /\ ~One("CancelCollect", p) /\ ~One("CancelChildren", p))
    BY <1>2, <1>4, <2>2 DEF MayComplete
  <2>3. CASE /\ ~Young(p) /\ ~One("OnStart", p)
             /\ \A c \in Op : IsChild(c, p) => Fresh(c) \/ lifecycle[c] = "Ended"
    <3>1. ~IsChild(op, p)
      BY <1>2, <1>1, <2>3
    <3>2. \A c \in Op : IsChild(c, p) => ~(f.at = "Begin" /\ c = f.op)
      BY <3>1, TreeAssumption
    <3> QED
      BY <1>2, <1>4, <1>8, <1>9, <2>3, <3>2 DEF MayComplete
  <2> QED
    BY <2>1, <2>2, <2>3 DEF MayComplete
<1>23. CompleteInv'
  BY <1>1, <1>2, <1>4, <1>22 DEF CompleteInv, CompletingOrCompleted
<1>24. ListInv'
  BY <1>1, <1>2, <1>4, <1>19 DEF ListInv, Over
<1> QED
  BY <1>10, <1>11, <1>12, <1>13, <1>14, <1>16, <1>18, <1>21, <1>23, <1>24

LEMMA FinishKeeps ==
    ASSUME OpInv, NEW t \in Thread, Finish(t)
    PROVE  OpInv'
<1> USE DEF OpInv
<1>1. PICK d \in Nat, op \in Op : AtTop(t, d, "Finish", op) /\ One("Finish", op)
  BY TopFacts DEF Finish
<1>2. /\ lifecycle[op] = "Completed" /\ op \notin Host /\ ~Fresh(op) /\ ~Young(op)
      /\ (observed[op] => ~One("Callback", op)) /\ (~observed[op] => ~One("Begun", op))
  BY <1>1 DEF EndInv, StartInv, Fresh, Young
<1>3. /\ UNCHANGED <<observed, cancelRequested, error_, children_, childLock_, handedOver, fresh,
                     onStarted, refused, asserts>>
      /\ lifecycle' \in [Op -> Phase] /\ lifecycle'[op] = "Ended"
      /\ \A o \in Op : o # op => lifecycle'[o] = lifecycle[o]
  BY <1>1, <1>2 DEF Finish, AtTop, Transition, tree, history, TypeInv, Phase
<1>4. CASE ~HasParent(op)
  <2>1. Return(t)
    BY <1>1, <1>4 DEF Finish, AtTop
  <2>2. Moves(t, d, NoFrame, NoFrame)
    BY <1>1, <2>1, ReturnMoves
  <2> QED
    BY <1>1, <1>3, <2>2, NoFrameFacts, EndKeeps DEF OwnPlaces
<1>5. CASE HasParent(op)
  <2>1. PICK p \in Op : p = Parent(op) /\ IsChild(op, p)
    BY <1>5, TreeFacts
  <2>2. PICK i \in DOMAIN Steps[p] :
              /\ i \in Nat /\ Steps[p][i] = op /\ Steps[p] \in Seq(Op)
              /\ Successors(op) = <<>> <=> i = Len(Steps[p])
              /\ Successors(op) # <<>> => /\ i + 1 \in DOMAIN Steps[p]
                                          /\ Head(Successors(op)) = Steps[p][i + 1]
    BY <2>1, SuccessorFacts
  <2>3. \A j \in DOMAIN Steps[p] : j > i => Fresh(Steps[p][j])
    BY <1>2, <2>2 DEF OrderInv
  <2>4. CASE error_[op] = "Success" /\ Successors(op) # <<>>
    <3> DEFINE c == Head(Successors(op))
    <3>1. c \in Op /\ c = Steps[p][i + 1] /\ i + 1 \in DOMAIN Steps[p] /\ Fresh(c)
      BY <2>2, <2>3, <2>4
    <3>2. IsChild(c, p)
      BY <3>1 DEF IsChild
    <3> HIDE DEF c
    <3>3. PICK f \in Frames : f = Frame("Begin", c) /\ f.at = "Begin" /\ f.op = c /\ f.kids = {}
      <4>1. "Begin" \in Places
        BY DEF Places
      <4> QED
        BY <3>1, <4>1, FrameFacts
    <3>4. Goto(t, f)
      BY <1>1, <1>5, <2>4, <3>3 DEF Finish, AtTop, c
    <3>5. Moves(t, d, f, NoFrame)
      BY <1>1, <3>4, GotoMoves
    <3>6. /\ f.at = "Begin" => /\ f.op \in Op /\ Fresh(f.op) /\ error_[op] = "Success"
                               /\ IsChild(op, p) /\ IsChild(f.op, p)
                               /\ i \in DOMAIN Steps[p] /\ Steps[p][i] = op
                               /\ i + 1 \in DOMAIN Steps[p] /\ Steps[p][i + 1] = f.op
          /\ f.at = "TryComplete" => IsChild(op, f.op) /\ (f.op \notin Host => MayComplete(f.op)')
          /\ f.at \in {"Begin", "TryComplete"} \/ f.at \notin OwnPlaces
      BY <2>1, <2>2, <2>4, <3>1, <3>2, <3>3
    <3> HIDE DEF OpInv
    <3> QED
      BY <1>1, <1>3, <2>1, <3>3, <3>5, <3>6, EndKeeps
  <2>5. CASE ~(error_[op] = "Success" /\ Successors(op) # <<>>)
    <3> DEFINE f == [Frame("TryComplete", p) EXCEPT !.err = error_[op]]
    <3>1. f \in Frames /\ f.at = "TryComplete" /\ f.op = p /\ f.kids = {}
      <4>1. "TryComplete" \in Places /\ error_[op] \in Error
        BY DEF Places, TypeInv
      <4> QED
        BY <4>1 DEF Frame, Frames
    <3> HIDE DEF f
    <3>2. Moves(t, d, f, NoFrame)
      BY <1>1, <1>5, <2>1, <2>5, <3>1, GotoMoves DEF Finish, AtTop, f
    <3>3. ASSUME p \notin Host
          PROVE  MayComplete(p)'
      <4>1. ~Young(p) /\ ~One("OnStart", p)
        BY <1>2, <2>1, <3>3 DEF OrderInv
      <4>2. ~Young(p)' /\ ~One("OnStart", p)'
        <5>1. \A x, o : x # "none" => (One(x, o)' => One(x, o) \/ (x = "TryComplete" /\ o = p))
          BY <1>1, <3>1, <3>2, OneMoves, NoFrameFacts DEF AtTop
        <5> QED
          BY <1>3, <4>1, <5>1 DEF Young, Attaching
      <4>3. \A o \in Op : Fresh(o) => Fresh(o)'
        <5>1. \A x, o : x # "none" => (One(x, o)' => One(x, o) \/ (x = "TryComplete" /\ o = p))
          BY <1>1, <3>1, <3>2, OneMoves, NoFrameFacts DEF AtTop
        <5> QED
          BY <1>2, <1>3, <5>1 DEF Fresh
      <4>4. ASSUME NEW c \in Op, IsChild(c, p)
            PROVE  Fresh(c)' \/ lifecycle'[c] = "Ended"
        <5>1. PICK j \in DOMAIN Steps[p] : Steps[p][j] = c
          BY <4>4 DEF IsChild
        <5>2. j \in Nat
          BY <2>2
        <5>3. CASE j < i
          BY <1>2, <1>3, <2>2, <3>3, <5>1, <5>3 DEF OrderInv
        <5>4. CASE j = i
          BY <1>3, <2>2, <5>1, <5>4
        <5>5. CASE j > i
          BY <2>3, <4>3, <5>1, <5>5
        <5> QED
          BY <2>2, <5>2, <5>3, <5>4, <5>5
      <4> QED
        BY <4>2, <4>4 DEF MayComplete
    <3> QED
      BY <1>1, <1>3, <2>1, <3>1, <3>2, <3>3, EndKeeps
  <2> QED
    BY <2>4, <2>5
<1> QED
  BY <1>4, <1>5

LEMMA TryCompleteKeeps ==
    ASSUME OpInv, NEW t \in Thread, TryComplete(t)
    PROVE  OpInv'
<1> USE DEF OpInv
<1>1. PICK d \in Nat, op \in Op : AtTop(t, d, "TryComplete", op) /\ One("TryComplete", op)
  BY TopFacts DEF TryComplete
<1>2. /\ UNCHANGED <<observed, cancelRequested, error_, children_, childLock_, handedOver, fresh,
                     onStarted, refused, asserts>>
      /\ F(t, d + 1) = NoFrame /\ F(t, d).at = "TryComplete" /\ F(t, d).op = op
  BY <1>1 DEF TryComplete, tree, history, AtTop
\* Either it is a step of the lifecycle, or the thread returns.
<1>3. PICK f \in Frames :
        /\ Moves(t, d, f, NoFrame) /\ f.kids \subseteq Top(t).kids /\ lifecycle' \in [Op -> Phase]
        /\ \A o \in Op : o # op => lifecycle'[o] = lifecycle[o]
        /\ \/ f.at = "none" /\ lifecycle' = lifecycle
           \/ /\ f.at = "FinishComplete" /\ f.op = op
              /\ lifecycle[op] = "Started" /\ lifecycle'[op] = "Completing"
  <2>1. CASE lifecycle[op] = "Started"
    <3> DEFINE f == [Top(t) EXCEPT !.at = "FinishComplete"]
    <3>1. f \in Frames /\ f.at = "FinishComplete" /\ f.op = op /\ f.kids = Top(t).kids
      BY <1>1 DEF AtTop, Frames, Places
    <3> HIDE DEF f
    <3>2. Goto(t, f) /\ lifecycle' = [lifecycle EXCEPT ![op] = "Completing"]
      BY <1>1, <2>1 DEF TryComplete, AtTop, f
    <3>3. Moves(t, d, f, NoFrame)
      BY <1>1, <3>1, <3>2, GotoMoves
    <3> QED
      BY <2>1, <3>1, <3>2, <3>3 DEF TypeInv, Phase
  <2>2. CASE lifecycle[op] # "Started"
    <3>1. Return(t) /\ lifecycle' = lifecycle
      BY <1>1, <2>2 DEF TryComplete, AtTop
    <3> QED
      BY <1>1, <3>1, ReturnMoves, NoFrameFacts DEF TypeInv
  <2> QED
    BY <2>1, <2>2
<1>4. \A x, o : x # "none" =>
        /\ One(x, o)' => One(x, o) \/ (x = "FinishComplete" /\ f.at = "FinishComplete" /\ o = op)
        /\ One(x, o) => One(x, o)' \/ (x = "TryComplete" /\ o = op)
  BY <1>2, <1>3, OneMoves, NoFrameFacts DEF On
<1>5. \A o : Held(o)' => Held(o)
  BY <1>1, <1>3, HeldMoves, NoFrameFacts DEF Held, AtTop
<1>6. /\ f.at = "FinishComplete" => op \notin Host /\ ~Young(op) /\ ~One("FinishComplete", op)
      /\ lifecycle'[op] # lifecycle[op] => f.at = "FinishComplete"
  BY <1>1, <1>3 DEF StartInv, YoungInv, EndInv
<1>7. Unique(Starting)' /\ Unique({"Begun"})' /\ Unique({"FinishComplete"})' /\ Unique({"Callback"})'
      /\ Unique({"Finish"})' /\ Unique({"CancelCollect", "CancelChildren"})'
  BY <1>2, <1>3, <1>6, NoFrameFacts, UniqueMoves DEF StartInv, EndInv, CancelInv, Starting
<1>8. \A o \in Op : (Fresh(o)' <=> Fresh(o)) /\ (Young(o)' <=> Young(o)) /\ (Attaching(o)' <=> Attaching(o))
  BY <1>3, <1>4 DEF Fresh, Young, Attaching
<1>9. TypeInv'
  BY <1>1, <1>2, <1>3, TypesMove DEF TypeInv, AtTop
<1>10. StartInv'
  BY <1>2, <1>3, <1>4, <1>6, <1>7, <1>8, TreeFacts DEF StartInv, Young
<1>11. BegunInv'
  <2>1. CASE lifecycle' = lifecycle
    BY <1>2, <1>3, <2>1, BegunMoves, NoFrameFacts DEF On
  <2>2. CASE lifecycle' # lifecycle
    <3>1. \A o \in Op \ (Op \ {op}) : lifecycle'[o] # "Created"
      BY <1>3, <2>2
    <3>2. \A o \in (Op \ {op}) \cap Op : lifecycle'[o] = lifecycle[o] /\ ~On(t, d, "Start", o)
      BY <1>2, <1>3 DEF On
    <3> QED
      BY <1>2, <1>3, <3>1, <3>2, BegunMoves, NoFrameFacts
  <2> QED
    BY <2>1, <2>2
<1>12. EndInv'
  BY <1>2, <1>3, <1>4, <1>7 DEF EndInv
<1>13. OrderInv'
  BY <1>2, <1>3, <1>4, <1>8, TreeFacts DEF OrderInv
<1>14. YoungInv'
  BY <1>2, <1>4, <1>5, <1>8 DEF YoungInv
<1>15. \A o : One("AttachPush", o)' <=> One("AttachPush", o)
  BY <1>4
<1>16. LockInv'
  BY <1>2, <1>15 DEF LockInv, Free
<1>17. \A p \in Op : Adding(p)' <=> Adding(p)
  BY <1>2, <1>15 DEF Adding
<1>18. \A p, c : Pursued(p, c) => Pursued(p, c)'
  BY <1>2, <1>3, PursuedMoves DEF On
<1>19. CancelInv'
  <2>1. \A c \in Op : Attached(c)' => Attached(c)
    BY <1>2, <1>3, <1>8 DEF Attached
  <2> QED
    BY <1>2, <1>4, <1>7, <1>17, <1>18, <2>1 DEF CancelInv
<1>20. \A p \in Op : MayComplete(p) => MayComplete(p)'
  BY <1>2, <1>3, <1>4, <1>8 DEF MayComplete
<1>21. CompleteInv'
  BY <1>1, <1>3, <1>4, <1>20 DEF CompleteInv, CompletingOrCompleted
<1>22. ListInv'
  BY <1>2, <1>3, <1>4, <1>17 DEF ListInv, Over
<1> QED
  BY <1>9, <1>10, <1>11, <1>12, <1>13, <1>14, <1>16, <1>19, <1>21, <1>22

LEMMA FinishCompleteKeeps ==
    ASSUME OpInv, NEW t \in Thread, FinishComplete(t)
    PROVE  OpInv'
<1> USE DEF OpInv
<1>1. PICK d \in Nat, op \in Op : AtTop(t, d, "FinishComplete", op) /\ One("FinishComplete", op)
  BY TopFacts DEF FinishComplete
<1>2. lifecycle[op] = "Completing" /\ op \notin Host
  BY <1>1 DEF EndInv, StartInv
<1>3. PICK f \in Frames, g \in Frames :
        /\ f.at = "Cleanup" /\ f.op = op /\ f.kids = {}
        /\ g.at = "Callback" /\ g.op = op /\ g.kids = {}
        /\ Call(t, f, g)
  <2>1. "Cleanup" \in Places /\ "Callback" \in Places
    BY DEF Places
  <2> QED
    BY <1>1, <2>1, FrameFacts DEF FinishComplete, AtTop
<1>4. /\ Moves(t, d, f, g) /\ F(t, d + 1) = NoFrame
      /\ F(t, d).at = "FinishComplete" /\ F(t, d).op = op
  BY <1>1, <1>3, CallMoves DEF AtTop
<1>5. /\ UNCHANGED <<observed, cancelRequested, children_, childLock_, handedOver, fresh,
                     onStarted, refused, asserts>>
      /\ lifecycle' \in [Op -> Phase] /\ lifecycle'[op] = "Completed"
      /\ error_' \in [Op -> Error]
      /\ \A o \in Op : o # op => lifecycle'[o] = lifecycle[o] /\ error_'[o] = error_[o]
  BY <1>1, <1>2 DEF FinishComplete, AtTop, Transition, tree, history, TypeInv, Phase, Frames
<1>6. \A x, o : x # "none" =>
        /\ One(x, o)' => One(x, o) \/ (x = "Cleanup" /\ o = op) \/ (x = "Callback" /\ o = op)
        /\ One(x, o) => One(x, o)' \/ (x = "FinishComplete" /\ o = op)
  BY <1>3, <1>4, OneMoves DEF On
<1>7. One("Cleanup", op)' /\ ~One("FinishComplete", op)' /\ ~One("Callback", op) /\ ~Young(op)
  <2>1. One("Cleanup", op)'
    BY <1>3, <1>4, OneMoves
  <2>2. ~One("FinishComplete", op)'
    <3>1. Unique({"FinishComplete"})
      BY DEF EndInv
    <3> QED
      BY <1>3, <1>4, <3>1, UniqueGone
  <2> QED
    BY <1>2, <2>1, <2>2 DEF EndInv, Young, StartInv
<1>8. Unique(Starting)' /\ Unique({"Begun"})' /\ Unique({"FinishComplete"})' /\ Unique({"Callback"})'
      /\ Unique({"Finish"})' /\ Unique({"CancelCollect", "CancelChildren"})'
  BY <1>3, <1>4, <1>7, UniqueMoves DEF StartInv, EndInv, CancelInv, Starting
<1>9. \A o \in Op : (Fresh(o)' <=> Fresh(o)) /\ (Young(o)' <=> Young(o)) /\ (Attaching(o)' <=> Attaching(o))
  BY <1>2, <1>5, <1>6 DEF Fresh, Young, Attaching
<1>10. TypeInv'
  BY <1>1, <1>4, <1>5, TypesMove DEF TypeInv, AtTop
<1>11. StartInv'
  BY <1>2, <1>5, <1>6, <1>7, <1>8, <1>9, TreeFacts DEF StartInv, Young
<1>12. BegunInv'
  <2>1. \A o \in Op \ (Op \ {op}) : lifecycle'[o] # "Created"
    BY <1>5
  <2>2. \A o \in (Op \ {op}) \cap Op : lifecycle'[o] = lifecycle[o] /\ ~On(t, d, "Start", o)
    BY <1>4, <1>5 DEF On
  <2> QED
    BY <1>3, <1>4, <2>1, <2>2, BegunMoves
<1>13. EndInv'
  BY <1>2, <1>5, <1>6, <1>7, <1>8 DEF EndInv
<1>14. OrderInv'
  BY <1>2, <1>5, <1>6, <1>9, TreeFacts DEF OrderInv
<1>15. YoungInv'
  <2>1. \A o : Held(o)' => Held(o)
    BY <1>3, <1>4, HeldMoves
  <2> QED
    BY <1>5, <1>6, <1>9, <2>1 DEF YoungInv
<1>16. \A o : One("AttachPush", o)' <=> One("AttachPush", o)
  BY <1>6
<1>17. LockInv'
  BY <1>5, <1>16 DEF LockInv, Free
<1>18. \A p \in Op : Adding(p)' <=> Adding(p)
  BY <1>5, <1>16 DEF Adding
<1>19. \A p, c : Pursued(p, c) => Pursued(p, c)'
  BY <1>4, PursuedMoves DEF On
<1>20. CancelInv'
  <2>1. \A c \in Op : Attached(c)' => Attached(c)
    BY <1>5, <1>9 DEF Attached
  <2> QED
    BY <1>5, <1>6, <1>8, <1>18, <1>19, <2>1 DEF CancelInv
<1>21. \A p \in Op : MayComplete(p) => MayComplete(p)'
  BY <1>2, <1>5, <1>6, <1>9 DEF MayComplete
<1>22. CompleteInv'
  BY <1>2, <1>5, <1>6, <1>21 DEF CompleteInv, CompletingOrCompleted
<1>23. ListInv'
  BY <1>2, <1>5, <1>6, <1>7, <1>18 DEF ListInv, Over
<1> QED
  BY <1>10, <1>11, <1>12, <1>13, <1>14, <1>15, <1>17, <1>20, <1>22, <1>23

\* What Cleanup and DetachChild have in common: children that are over, or whose
\* parent is, leave a list.
LEMMA ListShrinks ==
    ASSUME OpInv, NEW t \in Thread, NEW d \in Nat, NEW op \in Op, NEW at \in {"Cleanup", "Detach"},
           AtTop(t, d, at, op), NEW f \in Frames, Moves(t, d, f, NoFrame), f.kids = {},
           f.at = "none" \/ (f.at = "Detach" /\ f.op = op /\ at = "Cleanup" /\ HasParent(op)),
           UNCHANGED <<word, error_, childLock_, handedOver, fresh, history, asserts>>,
           children_' \in [Op -> SUBSET Op], \A p \in Op : children_'[p] \subseteq children_[p],
           \A p, c \in Op : c \in children_[p] \ children_'[p] => ~Attached(c) \/ p = op,
           at = "Cleanup" => children_'[op] = {} /\ Free(op) /\ (HasParent(op) => f.at = "Detach"),
           at = "Detach" => \A p \in Op : op \notin children_'[p]
    PROVE  OpInv'
<1> USE DEF OpInv
<1>1. /\ UNCHANGED <<lifecycle, observed, cancelRequested, error_, childLock_, handedOver, fresh,
                     onStarted, refused, asserts>>
      /\ F(t, d + 1) = NoFrame /\ F(t, d).at = at /\ F(t, d).op = op
  BY DEF word, history, AtTop
<1>2. One(at, op) /\ lifecycle[op] \in Over /\ op \notin Host
  <2>1. One(at, op)
    BY <1>1 DEF One, On
  <2> QED
    BY <2>1 DEF ListInv, Over, StartInv
<1>3. \A x, o : x # "none" =>
        /\ One(x, o)' => One(x, o) \/ (x = "Detach" /\ o = op /\ HasParent(op))
        /\ One(x, o) => One(x, o)' \/ (x = at /\ o = op)
  BY <1>1, OneMoves, NoFrameFacts DEF On
<1>4. at = "Cleanup" /\ HasParent(op) => One("Detach", op)'
  BY <1>1, OneMoves
<1>5. Unique(Starting)' /\ Unique({"Begun"})' /\ Unique({"FinishComplete"})' /\ Unique({"Callback"})'
      /\ Unique({"Finish"})' /\ Unique({"CancelCollect", "CancelChildren"})'
  BY <1>1, NoFrameFacts, UniqueMoves DEF StartInv, EndInv, CancelInv, Starting
<1>6. \A o \in Op : (Fresh(o)' <=> Fresh(o)) /\ (Young(o)' <=> Young(o)) /\ (Attaching(o)' <=> Attaching(o))
  BY <1>1, <1>3 DEF Fresh, Young, Attaching
<1>7. TypeInv'
  BY <1>1, TypesMove DEF TypeInv, AtTop
<1>8. StartInv'
  BY <1>1, <1>3, <1>5, <1>6 DEF StartInv
<1>9. BegunInv'
  BY <1>1, BegunMoves, NoFrameFacts DEF On
<1>10. EndInv'
  BY <1>1, <1>3, <1>5 DEF EndInv
<1>11. OrderInv'
  BY <1>1, <1>3, <1>6, TreeFacts DEF OrderInv
<1>12. YoungInv'
  <2>1. \A o : Held(o)' => Held(o)
    BY HeldMoves, NoFrameFacts
  <2> QED
    BY <1>1, <1>3, <1>6, <2>1 DEF YoungInv
<1>13. \A o : One("AttachPush", o)' <=> One("AttachPush", o)
  BY <1>3
<1>14. LockInv'
  BY <1>1, <1>13 DEF LockInv, Free
<1>15. \A p \in Op : Adding(p)' => Adding(p)
  BY <1>13 DEF Adding
<1>16. \A p, c : Pursued(p, c) => Pursued(p, c)'
  BY <1>1, PursuedMoves DEF On
\* A parent that is over has no child left that would have to be cancelled.
<1>17. \A c \in Op : c \in children_[op] /\ Attached(c) => FALSE
  <2>1. SUFFICES ASSUME NEW c \in Op, c \in children_[op], Attached(c) PROVE FALSE
    OBVIOUS
  <2>2. IsChild(c, op) /\ Adding(op) /\ ~IsLeaf(op) /\ lifecycle[c] = "Started"
    BY <2>1, TreeFacts DEF ListInv, Adding, Attached
  <2>3. MayComplete(op) /\ (cancelRequested[op] => One("CancelCollect", op))
    BY <1>2, <2>2 DEF CompleteInv, CompletingOrCompleted, Over, CancelInv
  <2> QED
    BY <2>2, <2>3 DEF MayComplete, Fresh
<1>18. CancelInv'
  <2>1. \A c \in Op : Attached(c)' <=> Attached(c)
    BY <1>1, <1>6 DEF Attached
  <2>2. \A p, c \in Op : IsChild(c, p) /\ Attached(c) /\ c \in children_[p] => c \in children_'[p]
    BY <1>17
  <2>3. \A p, c \in Op : IsChild(c, p) /\ Attached(c)' /\ ~cancelRequested'[c] =>
             c \in children_'[p] \/ Pursued(p, c)'
    BY <1>1, <1>16, <2>1, <2>2 DEF CancelInv
  <2>4. \A p \in Op :
          /\ One("CancelCollect", p)' \/ One("CancelChildren", p)' => cancelRequested'[p]
          /\ cancelRequested'[p] /\ Adding(p)' => One("CancelCollect", p)'
    BY <1>1, <1>3, <1>15 DEF CancelInv
  <2> QED
    BY <1>5, <2>3, <2>4 DEF CancelInv
<1>19. CompleteInv'
  BY <1>1, <1>3, <1>6 DEF CompleteInv, CompletingOrCompleted, MayComplete
<1>20. ListInv'
  <2>1. ASSUME NEW p \in Op, NEW c \in Op, c \in children_'[p]
        PROVE  IsChild(c, p) /\ (lifecycle'[c] \in Over => One("Cleanup", c)' \/ One("Detach", c)')
    <3>1. c \in children_[p] /\ IsChild(c, p) /\ HasParent(c)
      BY <2>1, TreeFacts DEF ListInv
    <3>2. at = "Detach" => c # op
      BY <2>1
    <3> QED
      BY <1>1, <1>3, <1>4, <3>1, <3>2 DEF ListInv
  <2>2. ~(at = "Cleanup" /\ Adding(op)')
    BY <1>13 DEF Adding, LockInv
  <2>3. \A p \in Op :
          /\ Adding(p)' /\ lifecycle'[p] \in Over => One("Cleanup", p)'
          /\ One("Cleanup", p)' \/ One("Detach", p)' => lifecycle'[p] \in Over
          /\ One("Detach", p)' => HasParent(p)
    BY <1>1, <1>2, <1>3, <1>15, <2>2 DEF ListInv
  <2> QED
    BY <2>1, <2>3 DEF ListInv
<1> QED
  BY <1>7, <1>8, <1>9, <1>10, <1>11, <1>12, <1>14, <1>18, <1>19, <1>20

LEMMA CleanupKeeps ==
    ASSUME OpInv, NEW t \in Thread, Cleanup(t)
    PROVE  OpInv'
<1> USE DEF OpInv
<1>1. PICK d \in Nat, op \in Op : AtTop(t, d, "Cleanup", op)
  BY TopFacts DEF Cleanup
<1>2. /\ children_' = [children_ EXCEPT ![op] = {}] /\ Free(op)
      /\ UNCHANGED <<word, error_, childLock_, handedOver, fresh, history, asserts>>
      /\ IF HasParent(op) THEN Goto(t, Frame("Detach", op)) ELSE Return(t)
  BY <1>1 DEF Cleanup, AtTop
<1>3. /\ children_' \in [Op -> SUBSET Op] /\ \A p \in Op : children_'[p] \subseteq children_[p]
      /\ children_'[op] = {} /\ \A p \in Op : p # op => children_'[p] = children_[p]
  BY <1>2 DEF TypeInv
<1>4. PICK f \in Frames :
        /\ Moves(t, d, f, NoFrame) /\ f.kids = {}
        /\ IF HasParent(op) THEN f.at = "Detach" /\ f.op = op ELSE f.at = "none"
  <2>1. CASE HasParent(op)
    <3>1. "Detach" \in Places
      BY DEF Places
    <3> QED
      BY <1>1, <1>2, <2>1, <3>1, FrameFacts, GotoMoves
  <2>2. CASE ~HasParent(op)
    BY <1>1, <1>2, <2>2, NoFrameFacts, ReturnMoves
  <2> QED
    BY <2>1, <2>2
<1>5. \A p, c \in Op : c \in children_[p] \ children_'[p] => ~Attached(c) \/ p = op
  BY <1>3
<1>6. f.at = "none" \/ (f.at = "Detach" /\ f.op = op /\ "Cleanup" = "Cleanup" /\ HasParent(op))
  BY <1>4
<1> HIDE DEF OpInv
<1> QED
  BY <1>1, <1>2, <1>3, <1>4, <1>5, <1>6, ListShrinks

LEMMA DetachChildKeeps ==
    ASSUME OpInv, NEW t \in Thread, DetachChild(t)
    PROVE  OpInv'
<1>1. PICK d \in Nat, op \in Op : AtTop(t, d, "Detach", op) /\ One("Detach", op)
  BY TopFacts DEF DetachChild, OpInv
<1>2. lifecycle[op] \in Over /\ HasParent(op)
  BY <1>1 DEF ListInv, OpInv
<1>3. PICK p \in Op : p = Parent(op) /\ IsChild(op, p)
  BY <1>2, TreeFacts
<1>4. /\ children_' = [children_ EXCEPT ![p] = @ \ {op}] /\ Return(t)
      /\ UNCHANGED <<word, error_, childLock_, handedOver, fresh, history, asserts>>
  BY <1>1, <1>3 DEF DetachChild, AtTop
<1>5. /\ children_' \in [Op -> SUBSET Op] /\ \A q \in Op : children_'[q] \subseteq children_[q]
      /\ \A q, c \in Op : c \in children_[q] \ children_'[q] => c = op
      /\ op \notin children_'[p]
  BY <1>4 DEF TypeInv, OpInv
<1>6. \A q \in Op : op \notin children_'[q]
  BY <1>3, <1>5, TreeFacts DEF ListInv, OpInv
<1>7. \A q, c \in Op : c \in children_[q] \ children_'[q] => ~Attached(c) \/ q = op
  BY <1>2, <1>5 DEF Attached, Over
<1>8. Moves(t, d, NoFrame, NoFrame)
  BY <1>1, <1>4, ReturnMoves DEF OpInv
<1> QED
  BY <1>1, <1>4, <1>5, <1>6, <1>7, <1>8, ListShrinks, NoFrameFacts

LEMMA CancelKeeps ==
    ASSUME OpInv, NEW t \in Thread, Cancel(t)
    PROVE  OpInv'
<1> USE DEF OpInv
<1>1. PICK d \in Nat, op \in Op : AtTop(t, d, "Cancel", op) /\ One("Cancel", op)
  BY TopFacts DEF Cancel
<1>2. /\ UNCHANGED <<lifecycle, observed, error_, children_, childLock_, handedOver, fresh,
                     onStarted, refused, asserts>>
      /\ F(t, d + 1) = NoFrame /\ F(t, d).at = "Cancel" /\ F(t, d).op = op
      /\ op \in Host \/ ~Young(op)
  BY <1>1 DEF Cancel, tree, AtTop, YoungInv
\* Either it is the first request, or the thread returns.
<1>3. PICK f \in Frames :
        /\ Moves(t, d, f, NoFrame) /\ f.kids \subseteq Top(t).kids
        /\ cancelRequested' \in [Op -> BOOLEAN] /\ cancelRequested'[op]
        /\ \A o \in Op : o # op => cancelRequested'[o] = cancelRequested[o]
        /\ \/ f.at = "none" /\ cancelRequested[op]
           \/ f.at = "CancelCollect" /\ f.op = op /\ ~cancelRequested[op]
  <2>1. CASE cancelRequested[op]
    <3>1. Return(t) /\ cancelRequested' = cancelRequested
      BY <1>1, <2>1 DEF Cancel, AtTop
    <3> QED
      BY <1>1, <2>1, <3>1, ReturnMoves, NoFrameFacts DEF TypeInv
  <2>2. CASE ~cancelRequested[op]
    <3> DEFINE f == [Top(t) EXCEPT !.at = "CancelCollect"]
    <3>1. f \in Frames /\ f.at = "CancelCollect" /\ f.op = op /\ f.kids = Top(t).kids
      BY <1>1 DEF AtTop, Frames, Places
    <3> HIDE DEF f
    <3>2. Goto(t, f) /\ cancelRequested' = [cancelRequested EXCEPT ![op] = TRUE]
      BY <1>1, <2>2 DEF Cancel, AtTop, f
    <3>3. Moves(t, d, f, NoFrame)
      BY <1>1, <3>1, <3>2, GotoMoves
    <3> QED
      BY <2>2, <3>1, <3>2, <3>3 DEF TypeInv
  <2> QED
    BY <2>1, <2>2
<1>4. \A x, o : x # "none" =>
        /\ One(x, o)' => One(x, o) \/ (x = "CancelCollect" /\ f.at = "CancelCollect" /\ o = op)
        /\ One(x, o) => One(x, o)' \/ (x = "Cancel" /\ o = op)
  BY <1>2, <1>3, OneMoves, NoFrameFacts DEF On
<1>5. f.at = "CancelCollect" =>
        One("CancelCollect", op)' /\ ~One("CancelCollect", op) /\ ~One("CancelChildren", op)
  <2>1. f.at = "CancelCollect" => One("CancelCollect", op)'
    BY <1>2, <1>3, OneMoves
  <2> QED
    BY <1>3, <2>1, NoFrameFacts DEF CancelInv
<1>6. Unique(Starting)' /\ Unique({"Begun"})' /\ Unique({"FinishComplete"})' /\ Unique({"Callback"})'
      /\ Unique({"Finish"})' /\ Unique({"CancelCollect", "CancelChildren"})'
  BY <1>2, <1>3, <1>5, NoFrameFacts, UniqueMoves DEF StartInv, EndInv, CancelInv, Starting
<1>7. \A o \in Op : (Fresh(o)' <=> Fresh(o)) /\ (Young(o)' <=> Young(o)) /\ (Attaching(o)' <=> Attaching(o))
  BY <1>2, <1>4 DEF Fresh, Young, Attaching
<1>8. TypeInv'
  BY <1>1, <1>2, <1>3, TypesMove DEF TypeInv, AtTop
<1>9. StartInv'
  BY <1>2, <1>4, <1>6, <1>7 DEF StartInv
<1>10. BegunInv'
  BY <1>2, <1>3, BegunMoves, NoFrameFacts DEF On
<1>11. EndInv'
  BY <1>2, <1>4, <1>6 DEF EndInv
<1>12. OrderInv'
  BY <1>2, <1>4, <1>7, TreeFacts DEF OrderInv
<1>13. YoungInv'
  <2>1. \A o : Held(o)' => Held(o)
    BY <1>1, <1>3, HeldMoves, NoFrameFacts DEF Held, AtTop
  <2> QED
    BY <1>2, <1>3, <1>4, <1>7, <2>1 DEF YoungInv
<1>14. \A o : One("AttachPush", o)' <=> One("AttachPush", o)
  BY <1>4
<1>15. LockInv'
  BY <1>2, <1>14 DEF LockInv, Free
<1>16. \A p \in Op : Adding(p)' <=> Adding(p)
  BY <1>2, <1>14 DEF Adding
<1>17. \A p, c : c # op /\ Pursued(p, c) => Pursued(p, c)'
  BY <1>2, <1>3, PursuedMoves DEF On
<1>18. CancelInv'
  <2>1. \A p \in Op :
          /\ One("CancelCollect", p)' \/ One("CancelChildren", p)' => cancelRequested'[p]
          /\ cancelRequested'[p] /\ Adding(p)' => One("CancelCollect", p)'
    BY <1>3, <1>4, <1>5, <1>16 DEF CancelInv
  <2>2. \A p, c \in Op : IsChild(c, p) /\ Attached(c)' /\ ~cancelRequested'[c] =>
             c \in children_'[p] \/ Pursued(p, c)'
    BY <1>2, <1>3, <1>7, <1>17 DEF CancelInv, Attached
  <2> QED
    BY <1>6, <2>1, <2>2 DEF CancelInv
<1>19. \A p \in Op : MayComplete(p) => MayComplete(p)'
  BY <1>2, <1>3, <1>4, <1>7 DEF MayComplete
<1>20. CompleteInv'
  BY <1>2, <1>4, <1>19 DEF CompleteInv, CompletingOrCompleted
<1>21. ListInv'
  BY <1>2, <1>4, <1>16 DEF ListInv
<1> QED
  BY <1>8, <1>9, <1>10, <1>11, <1>12, <1>13, <1>15, <1>18, <1>20, <1>21

LEMMA CancelCollectKeeps ==
    ASSUME OpInv, NEW t \in Thread, CancelCollect(t)
    PROVE  OpInv'
<1> USE DEF OpInv
<1>1. PICK d \in Nat, op \in Op : AtTop(t, d, "CancelCollect", op) /\ One("CancelCollect", op)
  BY TopFacts DEF CancelCollect
<1> DEFINE f == [Top(t) EXCEPT !.at = "CancelChildren", !.kids = children_[op]]
<1>2. f \in Frames /\ f.at = "CancelChildren" /\ f.op = op /\ f.kids = children_[op]
  BY <1>1 DEF AtTop, Frames, Places, TypeInv
<1> HIDE DEF f
<1>3. Goto(t, f) /\ children_' = [children_ EXCEPT ![op] = {}] /\ Free(op)
  BY <1>1 DEF CancelCollect, AtTop, f
<1>4. /\ Moves(t, d, f, NoFrame) /\ F(t, d + 1) = NoFrame
      /\ F(t, d).at = "CancelCollect" /\ F(t, d).op = op
  BY <1>1, <1>2, <1>3, GotoMoves DEF AtTop
<1>5. /\ UNCHANGED <<lifecycle, observed, cancelRequested, error_, childLock_, handedOver, fresh,
                     onStarted, refused, asserts>>
      /\ children_' \in [Op -> SUBSET Op] /\ children_'[op] = {}
      /\ \A o \in Op : o # op => children_'[o] = children_[o]
  BY <1>3 DEF CancelCollect, word, history, TypeInv
<1>6. \A x, o : x # "none" =>
        /\ One(x, o)' => One(x, o) \/ (x = "CancelChildren" /\ o = op)
        /\ One(x, o) => One(x, o)' \/ (x = "CancelCollect" /\ o = op)
  BY <1>2, <1>4, OneMoves, NoFrameFacts DEF On
<1>7. One("CancelChildren", op)'
  BY <1>2, <1>4, OneMoves
<1>8. Unique(Starting)' /\ Unique({"Begun"})' /\ Unique({"FinishComplete"})' /\ Unique({"Callback"})'
      /\ Unique({"Finish"})' /\ Unique({"CancelCollect", "CancelChildren"})'
  BY <1>2, <1>4, NoFrameFacts, UniqueMoves DEF StartInv, EndInv, CancelInv, Starting
<1>9. \A o \in Op : (Fresh(o)' <=> Fresh(o)) /\ (Young(o)' <=> Young(o)) /\ (Attaching(o)' <=> Attaching(o))
  BY <1>5, <1>6 DEF Fresh, Young, Attaching
<1>10. TypeInv'
  BY <1>1, <1>4, <1>5, TypesMove DEF TypeInv, AtTop
<1>11. StartInv'
  BY <1>5, <1>6, <1>8, <1>9 DEF StartInv
<1>12. BegunInv'
  BY <1>2, <1>4, <1>5, BegunMoves, NoFrameFacts DEF On
<1>13. EndInv'
  BY <1>5, <1>6, <1>8 DEF EndInv
<1>14. OrderInv'
  BY <1>5, <1>6, <1>9, TreeFacts DEF OrderInv
<1>15. YoungInv'
  <2>1. \A o \in Op : Held(o)' => Held(o) \/ o \in children_[op]
    BY <1>2, <1>4, HeldMoves, NoFrameFacts
  <2>2. \A o \in Op, p \in Op : o \in children_'[p] => o \in children_[p]
    BY <1>5
  <2>3. \A o \in Host : ~Held(o)'
    <3>1. \A o \in Host : o \notin children_[op]
      BY TreeFacts DEF ListInv
    <3> QED
      BY <2>1, <3>1, TreeFacts DEF YoungInv
  <2>4. \A o \in Op \ Host : Young(o)' =>
          /\ o \notin onStarted' /\ o \notin handedOver' /\ ~cancelRequested'[o]
          /\ ~One("Cancel", o)' /\ ~One("CancelCollect", o)' /\ ~One("CancelChildren", o)'
          /\ ~One("TryComplete", o)' /\ ~Held(o)'
          /\ \A p \in Op : o \notin children_'[p]
    BY <1>1, <1>5, <1>6, <1>9, <2>1, <2>2 DEF YoungInv
  <2> QED
    BY <1>5, <2>3, <2>4 DEF YoungInv
<1>16. \A o : One("AttachPush", o)' <=> One("AttachPush", o)
  BY <1>6
<1>17. LockInv'
  BY <1>5, <1>16 DEF LockInv, Free
<1>18. ~Adding(op)' /\ \A p \in Op : p # op => (Adding(p)' <=> Adding(p))
  BY <1>3, <1>5, <1>16 DEF Adding, LockInv
<1>19. \A p, c : Pursued(p, c) => Pursued(p, c)'
  BY <1>4, PursuedMoves DEF On
<1>20. \A c \in children_[op] : Pursued(op, c)'
  <2>1. F(t, d)' = f
    BY <1>4 DEF Moves
  <2> QED
    BY <1>2, <2>1 DEF Pursued, On
<1>21. CancelInv'
  <2>1. \A p \in Op :
          /\ One("CancelCollect", p)' \/ One("CancelChildren", p)' => cancelRequested'[p]
          /\ cancelRequested'[p] /\ Adding(p)' => One("CancelCollect", p)'
    BY <1>1, <1>5, <1>6, <1>18 DEF CancelInv
  <2>2. \A p, c \in Op : IsChild(c, p) /\ Attached(c)' /\ ~cancelRequested'[c] =>
             c \in children_'[p] \/ Pursued(p, c)'
    BY <1>5, <1>9, <1>19, <1>20 DEF CancelInv, Attached
  <2> QED
    BY <1>8, <2>1, <2>2 DEF CancelInv
<1>22. \A p \in Op : MayComplete(p) => MayComplete(p)'
  BY <1>1, <1>5, <1>6, <1>9 DEF MayComplete
<1>23. CompleteInv'
  BY <1>5, <1>6, <1>22 DEF CompleteInv, CompletingOrCompleted
<1>24. ListInv'
  BY <1>5, <1>6, <1>18 DEF ListInv
<1> QED
  BY <1>10, <1>11, <1>12, <1>13, <1>14, <1>15, <1>17, <1>21, <1>23, <1>24

LEMMA CancelChildKeeps ==
    ASSUME OpInv, NEW t \in Thread, CancelChild(t)
    PROVE  OpInv'
<1> USE DEF OpInv
<1>1. PICK d \in Nat, op \in Op : AtTop(t, d, "CancelChildren", op) /\ One("CancelChildren", op)
  BY TopFacts DEF CancelChild
<1>2. PICK kid \in Top(t).kids : Call(t, [Top(t) EXCEPT !.kids = @ \ {kid}], Frame("Cancel", kid))
  BY DEF CancelChild
<1>3. kid \in Op
  BY <1>1 DEF AtTop, Frames
<1>4. PICK f \in Frames, g \in Frames :
        /\ f.at = "CancelChildren" /\ f.op = op /\ f.kids = Top(t).kids \ {kid}
        /\ g.at = "Cancel" /\ g.op = kid /\ g.kids = {}
        /\ Call(t, f, g)
  <2>1. "Cancel" \in Places
    BY DEF Places
  <2>2. [Top(t) EXCEPT !.kids = @ \ {kid}] \in Frames
    BY <1>1 DEF AtTop, Frames
  <2> QED
    BY <1>1, <1>2, <1>3, <2>1, <2>2, FrameFacts DEF AtTop, Frames
<1>5. /\ Moves(t, d, f, g) /\ F(t, d + 1) = NoFrame /\ F(t, d) = Top(t)
      /\ F(t, d).at = "CancelChildren" /\ F(t, d).op = op
  BY <1>1, <1>4, CallMoves DEF AtTop
<1>6. UNCHANGED <<lifecycle, observed, cancelRequested, error_, children_, childLock_, handedOver,
                  fresh, onStarted, refused, asserts>>
  BY DEF CancelChild, word, tree, history
<1>7. \A x, o : x # "none" =>
        /\ One(x, o)' => One(x, o) \/ (x = "Cancel" /\ o = kid)
        /\ One(x, o) => One(x, o)'
  <2>1. One("CancelChildren", op)'
    BY <1>4, <1>5, OneMoves
  <2> QED
    BY <1>1, <1>4, <1>5, <2>1, OneMoves DEF On
<1>8. Held(kid)
  BY <1>5 DEF Held
<1>9. \A o : Held(o)' => Held(o)
  BY <1>4, <1>5, HeldMoves DEF Held
<1>10. Unique(Starting)' /\ Unique({"Begun"})' /\ Unique({"FinishComplete"})' /\ Unique({"Callback"})'
      /\ Unique({"Finish"})' /\ Unique({"CancelCollect", "CancelChildren"})'
  BY <1>4, <1>5, UniqueMoves DEF StartInv, EndInv, CancelInv, Starting
<1>11. \A o \in Op : (Fresh(o)' <=> Fresh(o)) /\ (Young(o)' <=> Young(o)) /\ (Attaching(o)' <=> Attaching(o))
  BY <1>6, <1>7 DEF Fresh, Young, Attaching
<1>12. TypeInv'
  BY <1>1, <1>5, <1>6, TypesMove DEF TypeInv, AtTop
<1>13. StartInv'
  BY <1>6, <1>7, <1>10, <1>11 DEF StartInv
<1>14. BegunInv'
  BY <1>4, <1>5, <1>6, BegunMoves DEF On
<1>15. EndInv'
  BY <1>6, <1>7, <1>10 DEF EndInv
<1>16. OrderInv'
  BY <1>6, <1>7, <1>11, TreeFacts DEF OrderInv
<1>17. YoungInv'
  BY <1>6, <1>7, <1>8, <1>9, <1>11 DEF YoungInv
<1>18. LockInv'
  BY <1>6, <1>7 DEF LockInv, Free
<1>19. \A p \in Op : Adding(p)' <=> Adding(p)
  BY <1>6, <1>7 DEF Adding
<1>20. \A p, c : Pursued(p, c) => Pursued(p, c)'
  <2>1. SUFFICES ASSUME NEW p, NEW c, NEW u \in Thread, NEW k \in Nat, On(u, k, "CancelChildren", p),
                        c \in F(u, k).kids \/ On(u, k + 1, "Cancel", c)
                 PROVE  Pursued(p, c)'
    BY DEF Pursued
  <2>2. CASE u = t /\ k = d
    <3>1. p = op /\ c \in Top(t).kids
      BY <1>5, <2>1, <2>2, NoFrameFacts DEF On
    <3>2. F(t, d)' = f /\ F(t, d + 1)' = g
      BY <1>5 DEF Moves
    <3> QED
      BY <1>4, <3>1, <3>2 DEF Pursued, On
  <2>3. CASE ~(u = t /\ k = d)
    <3>1. ~(u = t /\ k = d + 1)
      BY <1>5, <2>1, NoFrameFacts DEF On
    <3>2. F(u, k)' = F(u, k)
      BY <1>5, <2>3, <3>1 DEF Moves
    <3>3. On(u, k + 1, "Cancel", c) => F(u, k + 1)' = F(u, k + 1)
      <4>1. On(u, k + 1, "Cancel", c) => ~(u = t /\ k + 1 = d) /\ ~(u = t /\ k + 1 = d + 1)
        BY <1>5, NoFrameFacts DEF On
      <4> QED
        BY <1>5, <4>1 DEF Moves
    <3> QED
      BY <2>1, <3>2, <3>3 DEF Pursued, On
  <2> QED
    BY <2>2, <2>3
<1>21. CancelInv'
  BY <1>6, <1>7, <1>10, <1>11, <1>19, <1>20 DEF CancelInv, Attached
<1>22. CompleteInv'
  BY <1>6, <1>7, <1>11 DEF CompleteInv, CompletingOrCompleted, MayComplete
<1>23. ListInv'
  BY <1>6, <1>7, <1>19 DEF ListInv
<1> QED
  BY <1>12, <1>13, <1>14, <1>15, <1>16, <1>17, <1>18, <1>21, <1>22, <1>23

\* The end of Cancel: the thread completes op, or returns.
LEMMA CancelLeaves ==
    ASSUME OpInv, NEW t \in Thread, NEW d \in Nat, NEW op \in Op,
           AtTop(t, d, "CancelChildren", op), Top(t).kids = {},
           \/ Return(t)
           \/ Goto(t, [Frame("TryComplete", op) EXCEPT !.err = "OperationCanceled"]),
           UNCHANGED <<word, error_, tree, handedOver, fresh, history, asserts>>
    PROVE  OpInv'
<1> USE DEF OpInv
<1>1. PICK f \in Frames :
        /\ Moves(t, d, f, NoFrame) /\ f.kids = {}
        /\ f.at = "none" \/ (f.at = "TryComplete" /\ f.op = op)
  <2>1. CASE Return(t)
    BY <2>1, ReturnMoves, NoFrameFacts
  <2>2. CASE Goto(t, [Frame("TryComplete", op) EXCEPT !.err = "OperationCanceled"])
    <3> DEFINE f == [Frame("TryComplete", op) EXCEPT !.err = "OperationCanceled"]
    <3>1. "TryComplete" \in Places
      BY DEF Places
    <3>2. f \in Frames /\ f.at = "TryComplete" /\ f.op = op /\ f.kids = {}
      BY <3>1 DEF Frame, Frames, Error
    <3> HIDE DEF f
    <3>3. Moves(t, d, f, NoFrame)
      BY <2>2, <3>2, GotoMoves DEF f
    <3> QED
      BY <3>2, <3>3
  <2> QED
    BY <2>1, <2>2
<1>2. /\ UNCHANGED <<lifecycle, observed, cancelRequested, error_, children_, childLock_, handedOver,
                     fresh, onStarted, refused, asserts>>
      /\ F(t, d + 1) = NoFrame /\ F(t, d) = Top(t) /\ F(t, d).at = "CancelChildren" /\ F(t, d).op = op
  BY DEF word, tree, history, AtTop
<1>3. \A x, o : x # "none" =>
        /\ One(x, o)' => One(x, o) \/ (x = "TryComplete" /\ f.at = "TryComplete" /\ o = op)
        /\ One(x, o) => One(x, o)' \/ (x = "CancelChildren" /\ o = op)
  BY <1>1, <1>2, OneMoves, NoFrameFacts DEF On
<1>4. /\ ~One("CancelChildren", op)' /\ ~One("CancelCollect", op)'
      /\ cancelRequested[op] /\ (op \in Host \/ ~Young(op))
  <2>1. One("CancelChildren", op)
    BY <1>2 DEF One, On
  <2>2. ~One("CancelChildren", op)' /\ ~One("CancelCollect", op)'
    <3>1. Unique({"CancelCollect", "CancelChildren"})
      BY DEF CancelInv
    <3> QED
      BY <1>1, <1>2, <3>1, UniqueGone, NoFrameFacts
  <2> QED
    BY <2>1, <2>2 DEF CancelInv, YoungInv
<1>5. Unique(Starting)' /\ Unique({"Begun"})' /\ Unique({"FinishComplete"})' /\ Unique({"Callback"})'
      /\ Unique({"Finish"})' /\ Unique({"CancelCollect", "CancelChildren"})'
  BY <1>1, <1>2, NoFrameFacts, UniqueMoves DEF StartInv, EndInv, CancelInv, Starting
<1>6. \A o \in Op : (Fresh(o)' <=> Fresh(o)) /\ (Young(o)' <=> Young(o)) /\ (Attaching(o)' <=> Attaching(o))
  BY <1>2, <1>3 DEF Fresh, Young, Attaching
<1>7. TypeInv'
  BY <1>1, <1>2, TypesMove DEF TypeInv, AtTop
<1>8. StartInv'
  BY <1>2, <1>3, <1>5, <1>6 DEF StartInv
<1>9. BegunInv'
  BY <1>1, <1>2, BegunMoves, NoFrameFacts DEF On
<1>10. EndInv'
  BY <1>2, <1>3, <1>5 DEF EndInv
<1>11. OrderInv'
  BY <1>2, <1>3, <1>6, TreeFacts DEF OrderInv
<1>12. YoungInv'
  <2>1. \A o : Held(o)' => Held(o)
    BY <1>1, HeldMoves, NoFrameFacts
  <2> QED
    BY <1>2, <1>3, <1>4, <1>6, <2>1 DEF YoungInv
<1>13. LockInv'
  BY <1>2, <1>3 DEF LockInv, Free
<1>14. \A p \in Op : Adding(p)' <=> Adding(p)
  BY <1>2, <1>3 DEF Adding
<1>15. \A p, c : Pursued(p, c) => Pursued(p, c)'
  <2>1. SUFFICES ASSUME NEW p, NEW c, Pursued(p, c) PROVE Pursued(p, c)'
    OBVIOUS
  <2>2. CASE p = op
    <3>1. PICK u \in Thread, k \in Nat :
             On(u, k, "CancelChildren", op) /\ (c \in F(u, k).kids \/ On(u, k + 1, "Cancel", c))
      BY <2>1, <2>2 DEF Pursued
    <3>2. u = t /\ k = d
      BY <1>2, <3>1 DEF CancelInv, Unique, On
    <3> QED
      BY <1>2, <3>1, <3>2, NoFrameFacts DEF On
  <2>3. CASE p # op
    BY <1>1, <1>2, <2>1, <2>3, PursuedMoves DEF On
  <2> QED
    BY <2>2, <2>3
<1>16. CancelInv'
  BY <1>2, <1>3, <1>5, <1>6, <1>14, <1>15 DEF CancelInv, Attached
<1>17. \A p \in Op : MayComplete(p) => MayComplete(p)'
  BY <1>2, <1>3, <1>6 DEF MayComplete
<1>18. CompleteInv'
  <2>1. MayComplete(op)'
    BY <1>2, <1>4 DEF MayComplete
  <2> QED
    BY <1>2, <1>3, <1>17, <2>1 DEF CompleteInv, CompletingOrCompleted
<1>19. ListInv'
  BY <1>2, <1>3, <1>14 DEF ListInv
<1> QED
  BY <1>7, <1>8, <1>9, <1>10, <1>11, <1>12, <1>13, <1>16, <1>18, <1>19

LEMMA CancelEndKeeps ==
    ASSUME OpInv, NEW t \in Thread, CancelSignals(t) \/ CancelCompletes(t)
    PROVE  OpInv'
<1>1. PICK d \in Nat, op \in Op : AtTop(t, d, "CancelChildren", op)
  BY TopFacts DEF CancelSignals, CancelCompletes, OpInv
<1>2. /\ Top(t).kids = {}
      /\ UNCHANGED <<word, error_, tree, handedOver, fresh, history, asserts>>
      /\ \/ Return(t)
         \/ Goto(t, [Frame("TryComplete", op) EXCEPT !.err = "OperationCanceled"])
  BY <1>1 DEF CancelSignals, CancelCompletes, AtTop
<1> QED
  BY <1>1, <1>2, CancelLeaves

\* A thread that was idle completes a leaf operation, or cancels one.
LEMMA IdleKeeps ==
    ASSUME OpInv, NEW t \in Thread, stack[t] = <<>>, NEW op \in Op, NEW f \in Frames,
           stack' = [stack EXCEPT ![t] = <<f>>], f.op = op, f.kids = {},
           f.at \in {"TryComplete", "Cancel"}, op \in Host \/ ~Young(op),
           f.at = "TryComplete" => IsLeaf(op),
           fresh' \subseteq fresh \ {t}, handedOver' \subseteq handedOver,
           UNCHANGED <<word, error_, tree, history, asserts>>
    PROVE  OpInv'
<1> USE DEF OpInv
<1>1. Moves(t, 1, f, NoFrame) /\ F(t, 1 + 1) = NoFrame /\ F(t, 1) = NoFrame /\ 1 \in Nat
  <2>1. F(t, 1) = NoFrame /\ F(t, 2) = NoFrame /\ Moves(t, 1, f, NoFrame)
    BY BeginMoves
  <2>2. 1 + 1 = 2 /\ 1 \in Nat
    OBVIOUS
  <2> QED
    BY <2>1, <2>2
<1>2. /\ UNCHANGED <<lifecycle, observed, cancelRequested, error_, children_, childLock_,
                     onStarted, refused, asserts>>
  BY DEF word, tree, history
<1>3. \A x, o : x # "none" =>
        /\ One(x, o)' => One(x, o) \/ (x = f.at /\ o = op)
        /\ One(x, o) => One(x, o)'
  BY <1>1, OneMoves, NoFrameFacts DEF On
<1>4. Unique(Starting)' /\ Unique({"Begun"})' /\ Unique({"FinishComplete"})' /\ Unique({"Callback"})'
      /\ Unique({"Finish"})' /\ Unique({"CancelCollect", "CancelChildren"})'
  BY <1>1, NoFrameFacts, UniqueMoves DEF StartInv, EndInv, CancelInv, Starting
<1>5. \A o \in Op : (Fresh(o)' <=> Fresh(o)) /\ (Young(o)' <=> Young(o)) /\ (Attaching(o)' <=> Attaching(o))
  BY <1>2, <1>3 DEF Fresh, Young, Attaching
<1>6. TypeInv'
  <2>1. \A u \in fresh' : stack'[u] = <<>>
    <3>1. SUFFICES ASSUME NEW u \in fresh' PROVE stack'[u] = <<>>
      OBVIOUS
    <3>2. u \in Thread \ {t} /\ stack[u] = <<>>
      BY TreeFacts DEF TypeInv
    <3> QED
      BY <1>1, <3>2 DEF Moves
  <2> QED
    BY <1>1, <1>2, <2>1 DEF TypeInv, Moves
<1>7. StartInv'
  BY <1>2, <1>3, <1>4, <1>5 DEF StartInv
<1>8. BegunInv'
  BY <1>1, <1>2, BegunMoves, NoFrameFacts DEF On
<1>9. EndInv'
  BY <1>2, <1>3, <1>4 DEF EndInv
<1>10. OrderInv'
  BY <1>2, <1>3, <1>5, TreeFacts DEF OrderInv
<1>11. YoungInv'
  <2>1. \A o : Held(o)' => Held(o)
    BY <1>1, HeldMoves, NoFrameFacts
  <2> QED
    BY <1>2, <1>3, <1>5, <2>1 DEF YoungInv
<1>12. LockInv'
  BY <1>2, <1>3 DEF LockInv, Free
<1>13. \A p \in Op : Adding(p)' <=> Adding(p)
  BY <1>2, <1>3 DEF Adding
<1>14. \A p, c : Pursued(p, c) => Pursued(p, c)'
  BY <1>1, PursuedMoves, NoFrameFacts DEF On
<1>15. CancelInv'
  BY <1>2, <1>3, <1>4, <1>5, <1>13, <1>14 DEF CancelInv, Attached
<1>16. CompleteInv'
  BY <1>2, <1>3, <1>5 DEF CompleteInv, CompletingOrCompleted, MayComplete
<1>17. ListInv'
  BY <1>2, <1>3, <1>13 DEF ListInv
<1> QED
  BY <1>6, <1>7, <1>8, <1>9, <1>10, <1>11, <1>12, <1>15, <1>16, <1>17

LEMMA WorkDoneKeeps ==
    ASSUME OpInv, NEW t \in Thread, WorkDone(t)
    PROVE  OpInv'
<1>1. PICK op \in handedOver, e \in {"Success", "Failure"} :
         /\ handedOver' = handedOver \ {op}
         /\ stack' = [stack EXCEPT ![t] = <<[Frame("TryComplete", op) EXCEPT !.err = e]>>]
  BY DEF WorkDone
<1> DEFINE f == [Frame("TryComplete", op) EXCEPT !.err = e]
<1>2. op \in Op /\ IsLeaf(op) /\ (op \in Host \/ ~Young(op))
  BY DEF OpInv, TypeInv, YoungInv
<1>3. f \in Frames /\ f.at = "TryComplete" /\ f.op = op /\ f.kids = {}
  <2>1. "TryComplete" \in Places
    BY DEF Places
  <2> QED
    BY <1>2, <2>1 DEF Frame, Frames, Error
<1>4. fresh' \subseteq fresh \ {t}
  BY ThreadAssumption DEF WorkDone, OpInv, TypeInv
<1>5. stack[t] = <<>> /\ UNCHANGED <<word, error_, tree, history, asserts>>
  BY DEF WorkDone
<1> HIDE DEF f
<1>6. stack' = [stack EXCEPT ![t] = <<f>>]
  BY <1>1 DEF f
<1> QED
  BY <1>1, <1>2, <1>3, <1>4, <1>5, <1>6, IdleKeeps

LEMMA CallCancelKeeps ==
    ASSUME OpInv, NEW t \in Thread, CallCancel(t)
    PROVE  OpInv'
<1>1. PICK op \in Targets \cap (onStarted \cup Host), force \in BOOLEAN :
         stack' = [stack EXCEPT ![t] = <<[Frame("Cancel", op) EXCEPT !.force = force]>>]
  BY DEF CallCancel
<1> DEFINE f == [Frame("Cancel", op) EXCEPT !.force = force]
<1>2. op \in Op /\ (op \in Host \/ ~Young(op))
  BY TreeFacts DEF OpInv, TypeInv, YoungInv
<1>3. f \in Frames /\ f.at = "Cancel" /\ f.op = op /\ f.kids = {}
  <2>1. "Cancel" \in Places
    BY DEF Places
  <2> QED
    BY <1>2, <2>1 DEF Frame, Frames, Error
<1>4. stack[t] = <<>> /\ fresh' \subseteq fresh \ {t} /\ handedOver' \subseteq handedOver
      /\ UNCHANGED <<word, error_, tree, history, asserts>>
  BY DEF CallCancel, OpInv, TypeInv
<1> HIDE DEF f
<1>5. stack' = [stack EXCEPT ![t] = <<f>>]
  BY <1>1 DEF f
<1> QED
  BY <1>2, <1>3, <1>4, <1>5, IdleKeeps

LEMMA StutterKeeps ==
    ASSUME OpInv, UNCHANGED vars
    PROVE  OpInv'
<1> USE DEF OpInv
<1>1. UNCHANGED <<lifecycle, observed, cancelRequested, error_, children_, childLock_, stack,
                  handedOver, fresh, onStarted, refused, asserts>>
  BY DEF vars, word, tree, history
<1>2. \A t, k : F(t, k)' = F(t, k)
  BY <1>1 DEF F
<1>3. /\ \A x, o : One(x, o)' <=> One(x, o)
      /\ \A t, k, x, o : On(t, k, x, o)' <=> On(t, k, x, o)
      /\ \A o : Held(o)' <=> Held(o)
      /\ \A p, c : Pursued(p, c)' <=> Pursued(p, c)
  BY <1>2 DEF One, On, Held, Pursued
<1>4. Unique(Starting)' /\ Unique({"Begun"})' /\ Unique({"FinishComplete"})' /\ Unique({"Callback"})'
      /\ Unique({"Finish"})' /\ Unique({"CancelCollect", "CancelChildren"})'
  BY <1>2 DEF StartInv, EndInv, CancelInv, Unique, Starting
<1>5. \A o \in Op : (Fresh(o)' <=> Fresh(o)) /\ (Young(o)' <=> Young(o)) /\ (Attaching(o)' <=> Attaching(o))
  BY <1>1, <1>3 DEF Fresh, Young, Attaching
<1>6. \A p \in Op : Adding(p)' <=> Adding(p)
  BY <1>1, <1>3 DEF Adding
<1>7. TypeInv' /\ BegunInv' /\ LockInv'
  BY <1>1, <1>3 DEF TypeInv, BegunInv, LockInv, Free
<1>8. StartInv' /\ EndInv'
  BY <1>1, <1>3, <1>4, <1>5 DEF StartInv, EndInv
<1>9. OrderInv'
  BY <1>1, <1>3, <1>5, TreeFacts DEF OrderInv
<1>10. YoungInv'
  BY <1>1, <1>3, <1>5 DEF YoungInv
<1>11. CancelInv'
  BY <1>1, <1>3, <1>4, <1>5, <1>6 DEF CancelInv, Attached
<1>12. CompleteInv'
  BY <1>1, <1>3, <1>5 DEF CompleteInv, CompletingOrCompleted, MayComplete
<1>13. ListInv'
  BY <1>1, <1>3, <1>6 DEF ListInv
<1> QED
  BY <1>7, <1>8, <1>9, <1>10, <1>11, <1>12, <1>13

LEMMA ProceedKeeps ==
    ASSUME OpInv, NEW t \in Thread, Proceed(t)
    PROVE  OpInv'
BY StartKeeps, AttachChildKeeps, AttachPushKeeps, OnStartKeeps, StartReturnsKeeps, BeginKeeps,
   BegunKeeps, CallbackKeeps, FinishKeeps, TryCompleteKeeps, FinishCompleteKeeps, CleanupKeeps,
   DetachChildKeeps, CancelKeeps, CancelCollectKeeps, CancelChildKeeps, CancelEndKeeps DEF Proceed

-----------------------------------------------------------------------------
(***************************************************************************)
(* The results.                                                            *)
(***************************************************************************)
Claiming == {"TryComplete", "FinishComplete"}

LEMMA ClaimsMove ==
    ASSUME NEW t \in Thread, NEW d \in Nat, NEW f, NEW g, Moves(t, d, f, g)
    PROVE  \A op, err : Claims(op, err)' =>
              \/ Claims(op, err)
              \/ f.at \in Claiming /\ op = f.op /\ err = f.err
              \/ g.at \in Claiming /\ op = g.op /\ err = g.err
BY ClaimedMoves DEF Claims, Claiming

LEMMA GotoClaims ==
    ASSUME TypeInv, NEW t \in Thread, NEW at, At(t, at), NEW f \in Frames, Goto(t, f)
    PROVE  \A op, err : Claims(op, err)' =>
              Claims(op, err) \/ (f.at \in Claiming /\ op = f.op /\ err = f.err)
<1>1. PICK d \in Nat, op \in Op : AtTop(t, d, at, op)
  BY TopFacts
<1>2. Moves(t, d, f, NoFrame)
  BY <1>1, GotoMoves
<1> QED
  BY <1>2, ClaimsMove, NoFrameFacts DEF Claiming

LEMMA CallClaims ==
    ASSUME TypeInv, NEW t \in Thread, NEW at, At(t, at), NEW f \in Frames, NEW g \in Frames,
           Call(t, f, g), f.at \notin Claiming
    PROVE  \A op, err : Claims(op, err)' =>
              Claims(op, err) \/ (g.at \in Claiming /\ op = g.op /\ err = g.err)
<1>1. PICK d \in Nat, op \in Op : AtTop(t, d, at, op)
  BY TopFacts
<1>2. Moves(t, d, f, g)
  BY <1>1, CallMoves
<1> QED
  BY <1>2, ClaimsMove

LEMMA ReturnClaims ==
    ASSUME TypeInv, NEW t \in Thread, NEW at, At(t, at), Return(t)
    PROVE  \A op, err : Claims(op, err)' => Claims(op, err)
<1>1. PICK d \in Nat, op \in Op : AtTop(t, d, at, op)
  BY TopFacts
<1>2. Moves(t, d, NoFrame, NoFrame)
  BY <1>1, ReturnMoves
<1> QED
  BY <1>2, ClaimsMove, NoFrameFacts DEF Claiming

\* An operation that is completed after this step was, or is completed with an
\* error that somebody claimed.
LEMMA ResultMoves ==
    ASSUME ResultInv,
           \A o \in Op : cancelRequested[o] => cancelRequested'[o],
           \A o \in Op : lifecycle[o] = "Ended" => lifecycle'[o] = "Ended" /\ error_'[o] = error_[o],
           \A o \in Op \ Host : lifecycle'[o] \in Over =>
              \/ lifecycle[o] \in Over /\ error_'[o] = error_[o]
              \/ error_'[o] \in Error /\ Claims(o, error_'[o]),
           \A o \in Op \ Host, e \in Error : Claims(o, e)' => Claims(o, e) \/ Justified(o, e)'
    PROVE  ResultInv'
<1>1. \A p \in Op : \A e : Justified(p, e) => Justified(p, e)'
  BY DEF Justified
<1> QED
  BY <1>1 DEF ResultInv

\* Steps that leave the results and the claims alone.
LEMMA ResultStays ==
    ASSUME ResultInv,
           \A o \in Op : cancelRequested[o] => cancelRequested'[o],
           \A o \in Op : lifecycle[o] = "Ended" => lifecycle'[o] = "Ended",
           \A o \in Op : lifecycle'[o] \in Over => lifecycle[o] \in Over,
           error_' = error_,
           \A op, err : Claims(op, err)' => Claims(op, err)
    PROVE  ResultInv'
BY ResultMoves

LEMMA QuietResults ==
    ASSUME TypeInv, ResultInv, NEW t \in Thread,
           \/ Start(t) \/ AttachChild(t) \/ AttachPush(t) \/ StartReturns(t) \/ Begin(t) \/ Begun(t)
           \/ Callback(t) \/ Cleanup(t) \/ DetachChild(t) \/ Cancel(t) \/ CancelCollect(t)
           \/ CancelChild(t)
    PROVE  ResultInv'
<1>1. CASE Start(t)
  <2>1. PICK d \in Nat, op \in Op : AtTop(t, d, "Start", op)
    BY <1>1, TopFacts DEF Start
  <2>2. PICK f \in Frames : Goto(t, f) /\ f.at \notin Claiming
    BY <1>1, <2>1, FrameFacts DEF Start, AtTop, Places, Claiming
  <2>3. \A o, e : Claims(o, e)' => Claims(o, e)
    BY <1>1, <2>2, GotoClaims DEF Start
  <2>4. /\ UNCHANGED <<cancelRequested, error_>>
        /\ \A o \in Op : lifecycle'[o] = lifecycle[o] \/ (lifecycle[o] = "Created" /\ lifecycle'[o] = "Started")
    BY <1>1, <2>1 DEF Start, AtTop, Transition, TypeInv
  <2> QED
    BY <2>3, <2>4, ResultStays DEF Over
<1>2. CASE AttachChild(t)
  <2>1. PICK d \in Nat, op \in Op : AtTop(t, d, "Attach", op)
    BY <1>2, TopFacts DEF AttachChild
  <2>2. PICK f \in Frames : Goto(t, f) /\ f.at \notin Claiming
    <3> DEFINE f == Frame("AttachPush", op)
               g == [Frame("OnStart", op) EXCEPT !.attached = FALSE]
    <3>1. "AttachPush" \in Places /\ "OnStart" \in Places
      BY DEF Places
    <3>2. f \in Frames /\ f.at \notin Claiming
      BY <3>1, FrameFacts DEF Claiming
    <3>3. g \in Frames /\ g.at \notin Claiming
      BY <3>1 DEF Frame, Frames, Error, Claiming
    <3>4. Goto(t, f) \/ Goto(t, g)
      BY <1>2, <2>1 DEF AttachChild, AtTop
    <3> HIDE DEF f, g
    <3>5. CASE Goto(t, f)
      BY <3>2, <3>5
    <3>6. CASE Goto(t, g)
      BY <3>3, <3>6
    <3> QED
      BY <3>4, <3>5, <3>6
  <2>3. \A o, e : Claims(o, e)' => Claims(o, e)
    BY <1>2, <2>2, GotoClaims DEF AttachChild
  <2> QED
    BY <1>2, <2>3, ResultStays DEF AttachChild, word
<1>3. CASE AttachPush(t)
  <2>1. PICK d \in Nat, op \in Op : AtTop(t, d, "AttachPush", op)
    BY <1>3, TopFacts DEF AttachPush
  <2>2. PICK f \in Frames : Goto(t, f) /\ f.at \notin Claiming
    BY <1>3, <2>1, FrameFacts DEF AttachPush, AtTop, Places, Claiming
  <2>3. \A o, e : Claims(o, e)' => Claims(o, e)
    BY <1>3, <2>2, GotoClaims DEF AttachPush
  <2> QED
    BY <1>3, <2>3, ResultStays DEF AttachPush, word
<1>4. CASE StartReturns(t)
  <2>1. \A o, e : Claims(o, e)' => Claims(o, e)
    BY <1>4, ReturnClaims DEF StartReturns
  <2> QED
    BY <1>4, <2>1, ResultStays DEF StartReturns, word
<1>5. CASE Begin(t)
  <2>1. PICK d \in Nat, op \in Op : AtTop(t, d, "Begin", op)
    BY <1>5, TopFacts DEF Begin
  <2>2. PICK f \in Frames, g \in Frames : Call(t, f, g) /\ f.at \notin Claiming /\ g.at \notin Claiming
    <3> DEFINE f == [Top(t) EXCEPT !.at = "Begun"]
               g == Frame("Start", op)
    <3>1. f \in Frames /\ f.at \notin Claiming
      BY <2>1 DEF AtTop, Frames, Places, Claiming
    <3>2. g \in Frames /\ g.at \notin Claiming
      <4>1. "Start" \in Places
        BY DEF Places
      <4> QED
        BY <4>1, FrameFacts DEF Claiming
    <3>3. Call(t, f, g)
      BY <1>5, <2>1 DEF Begin, AtTop
    <3> QED
      BY <3>1, <3>2, <3>3
  <2>3. \A o, e : Claims(o, e)' => Claims(o, e)
    BY <1>5, <2>2, CallClaims DEF Begin
  <2> QED
    BY <1>5, <2>3, ResultStays DEF Begin, word
<1>6. CASE Begun(t) \/ Callback(t)
  <2>1. PICK at \in {"Begun", "Callback"} : At(t, at)
    BY <1>6 DEF Begun, Callback
  <2>2. PICK d \in Nat, op \in Op : AtTop(t, d, at, op)
    BY <2>1, TopFacts
  <2>3. PICK f \in Frames : f.at \notin Claiming /\ (Goto(t, f) \/ Return(t))
    BY <1>6, <2>2, FrameFacts DEF Begun, Callback, AtTop, Places, Claiming
  <2>4. \A o, e : Claims(o, e)' => Claims(o, e)
    BY <2>1, <2>3, GotoClaims, ReturnClaims
  <2> QED
    BY <1>6, <2>4, ResultStays DEF Begun, Callback
<1>7. CASE Cleanup(t)
  <2>1. PICK d \in Nat, op \in Op : AtTop(t, d, "Cleanup", op)
    BY <1>7, TopFacts DEF Cleanup
  <2>2. PICK f \in Frames : f.at \notin Claiming /\ (Goto(t, f) \/ Return(t))
    <3>1. Frame("Detach", op) \in Frames /\ Frame("Detach", op).at \notin Claiming
      <4>1. "Detach" \in Places
        BY DEF Places
      <4> QED
        BY <4>1, FrameFacts DEF Claiming
    <3>2. Top(t).op = op
      BY <2>1 DEF AtTop
    <3> QED
      BY <1>7, <3>1, <3>2 DEF Cleanup
  <2>3. \A o, e : Claims(o, e)' => Claims(o, e)
    BY <1>7, <2>2, GotoClaims, ReturnClaims DEF Cleanup
  <2> QED
    BY <1>7, <2>3, ResultStays DEF Cleanup, word
<1>8. CASE DetachChild(t)
  <2>1. \A o, e : Claims(o, e)' => Claims(o, e)
    BY <1>8, ReturnClaims DEF DetachChild
  <2> QED
    BY <1>8, <2>1, ResultStays DEF DetachChild, word
<1>9. CASE Cancel(t)
  <2>1. PICK d \in Nat, op \in Op : AtTop(t, d, "Cancel", op)
    BY <1>9, TopFacts DEF Cancel
  <2>2. PICK f \in Frames : f.at \notin Claiming /\ (Goto(t, f) \/ Return(t))
    <3>1. /\ [Top(t) EXCEPT !.at = "CancelCollect"] \in Frames
          /\ [Top(t) EXCEPT !.at = "CancelCollect"].at \notin Claiming
      BY <2>1 DEF AtTop, Frames, Places, Claiming
    <3> QED
      BY <1>9, <3>1 DEF Cancel
  <2>3. \A o, e : Claims(o, e)' => Claims(o, e)
    BY <1>9, <2>2, GotoClaims, ReturnClaims DEF Cancel
  <2>4. /\ UNCHANGED <<lifecycle, error_>>
        /\ \A o \in Op : cancelRequested[o] => cancelRequested'[o]
    BY <1>9 DEF Cancel, TypeInv
  <2> QED
    BY <2>3, <2>4, ResultStays
<1>10. CASE CancelCollect(t)
  <2>1. PICK d \in Nat, op \in Op : AtTop(t, d, "CancelCollect", op)
    BY <1>10, TopFacts DEF CancelCollect
  <2>2. PICK f \in Frames : f.at \notin Claiming /\ Goto(t, f)
    <3> DEFINE f == [Top(t) EXCEPT !.at = "CancelChildren", !.kids = children_[op]]
    <3>1. f \in Frames /\ f.at \notin Claiming
      BY <2>1 DEF AtTop, Frames, Places, Claiming, TypeInv
    <3>2. Goto(t, f)
      BY <1>10, <2>1 DEF CancelCollect, AtTop
    <3> QED
      BY <3>1, <3>2
  <2>3. \A o, e : Claims(o, e)' => Claims(o, e)
    BY <1>10, <2>2, GotoClaims DEF CancelCollect
  <2> QED
    BY <1>10, <2>3, ResultStays DEF CancelCollect, word
<1>11. CASE CancelChild(t)
  <2>1. PICK d \in Nat, op \in Op : AtTop(t, d, "CancelChildren", op)
    BY <1>11, TopFacts DEF CancelChild
  <2>2. PICK kid \in Top(t).kids : Call(t, [Top(t) EXCEPT !.kids = @ \ {kid}], Frame("Cancel", kid))
    BY <1>11 DEF CancelChild
  <2>3. PICK f \in Frames, g \in Frames : Call(t, f, g) /\ f.at \notin Claiming /\ g.at \notin Claiming
    <3>1. kid \in Op /\ "Cancel" \in Places
      BY <2>1 DEF AtTop, Frames, Places
    <3>2. /\ [Top(t) EXCEPT !.kids = @ \ {kid}] \in Frames
          /\ [Top(t) EXCEPT !.kids = @ \ {kid}].at \notin Claiming
      BY <2>1 DEF AtTop, Frames, Claiming
    <3>3. Frame("Cancel", kid) \in Frames /\ Frame("Cancel", kid).at \notin Claiming
      BY <3>1, FrameFacts DEF Claiming
    <3> QED
      BY <2>2, <3>2, <3>3
  <2>4. \A o, e : Claims(o, e)' => Claims(o, e)
    BY <1>11, <2>3, CallClaims DEF CancelChild
  <2> QED
    BY <1>11, <2>4, ResultStays DEF CancelChild, word
<1> QED
  BY <1>1, <1>2, <1>3, <1>4, <1>5, <1>6, <1>7, <1>8, <1>9, <1>10, <1>11

\* OnStart, or another thread, completes a leaf operation.
LEMMA LeafResults ==
    ASSUME OpInv, ResultInv, NEW t \in Thread, OnStart(t) \/ WorkDone(t)
    PROVE  ResultInv'
<1>1. UNCHANGED <<lifecycle, cancelRequested, error_>>
  BY DEF OnStart, WorkDone, word
\* A leaf has no children whose results could count.
<1>2. \A op \in Op : \A e \in {"Success", "Failure"} : IsLeaf(op) => Justified(op, e)'
  BY TreeFacts DEF Justified
<1>3. ASSUME NEW op \in Op, NEW e \in {"Success", "Failure"}
      PROVE  /\ [Frame("TryComplete", op) EXCEPT !.err = e] \in Frames
             /\ [Frame("TryComplete", op) EXCEPT !.err = e].op = op
             /\ [Frame("TryComplete", op) EXCEPT !.err = e].err = e
  <2>1. "TryComplete" \in Places
    BY DEF Places
  <2> QED
    BY <2>1 DEF Frame, Frames, Error
<1>4. CASE OnStart(t)
  <2>1. PICK d \in Nat, op \in Op : AtTop(t, d, "OnStart", op) /\ One("OnStart", op)
    BY <1>4, TopFacts DEF OnStart, OpInv
  <2> DEFINE f == [Top(t) EXCEPT !.at = "StartReturns"]
  <2>2. f \in Frames /\ f.at \notin Claiming
    BY <2>1 DEF AtTop, Frames, Places, Claiming
  <2> HIDE DEF f
  <2>3. CASE ~IsLeaf(op) /\ Call(t, f, Frame("Begin", Head(Steps[op])))
    <3>1. Head(Steps[op]) \in Op /\ "Begin" \in Places
      BY <2>3, TreeFacts DEF IsLeaf, Places
    <3>2. Frame("Begin", Head(Steps[op])) \in Frames /\ Frame("Begin", Head(Steps[op])).at = "Begin"
      BY <3>1, FrameFacts
    <3>3. \A o, e : Claims(o, e)' => Claims(o, e)
      BY <1>4, <2>2, <2>3, <3>2, CallClaims DEF OnStart, OpInv, Claiming
    <3> QED
      BY <1>1, <3>3, ResultStays
  <2>4. ASSUME NEW e \in {"Success", "Failure"}, IsLeaf(op),
               Call(t, f, [Frame("TryComplete", op) EXCEPT !.err = e])
        PROVE  ResultInv'
    <3> DEFINE g == [Frame("TryComplete", op) EXCEPT !.err = e]
    <3>3. g \in Frames /\ g.op = op /\ g.err = e /\ Call(t, f, g)
      BY <1>3, <2>4
    <3> HIDE DEF g
    <3>1. \A o, x : Claims(o, x)' => Claims(o, x) \/ (o = op /\ x = e)
      BY <1>4, <2>2, <3>3, CallClaims DEF OnStart, OpInv
    <3>2. \A o \in Op \ Host, x \in Error : Claims(o, x)' => Claims(o, x) \/ Justified(o, x)'
      BY <1>2, <2>4, <3>1
    <3> QED
      BY <1>1, <3>2, ResultMoves
  <2>5. CASE Goto(t, f)
    <3>1. \A o, e : Claims(o, e)' => Claims(o, e)
      BY <1>4, <2>2, <2>5, GotoClaims DEF OnStart, OpInv
    <3> QED
      BY <1>1, <3>1, ResultStays
  <2> QED
    BY <1>4, <2>1, <2>3, <2>4, <2>5 DEF OnStart, AtTop, f
<1>5. CASE WorkDone(t)
  <2>1. PICK op \in handedOver, e \in {"Success", "Failure"} :
           stack' = [stack EXCEPT ![t] = <<[Frame("TryComplete", op) EXCEPT !.err = e]>>]
    BY <1>5 DEF WorkDone
  <2>2. op \in Op /\ IsLeaf(op) /\ stack[t] = <<>>
    BY <1>5 DEF WorkDone, OpInv, TypeInv, YoungInv
  <2> DEFINE f == [Frame("TryComplete", op) EXCEPT !.err = e]
  <2>3. f \in Frames /\ f.op = op /\ f.err = e
    BY <1>3, <2>2
  <2> HIDE DEF f
  <2>4. Moves(t, 1, f, NoFrame)
    BY <2>1, <2>2, <2>3, BeginMoves DEF OpInv, f
  <2>5. \A o, x : Claims(o, x)' => Claims(o, x) \/ (o = op /\ x = e)
    BY <2>3, <2>4, ClaimsMove, NoFrameFacts DEF Claiming
  <2>6. \A o \in Op \ Host, x \in Error : Claims(o, x)' => Claims(o, x) \/ Justified(o, x)'
    BY <1>2, <2>2, <2>5
  <2> QED
    BY <1>1, <2>6, ResultMoves
<1> QED
  BY <1>4, <1>5

\* Completion takes over the claim of its frame.
LEMMA CompletionResults ==
    ASSUME OpInv, ResultInv, NEW t \in Thread, TryComplete(t) \/ FinishComplete(t)
    PROVE  ResultInv'
<1>1. CASE TryComplete(t)
  <2>1. PICK d \in Nat, op \in Op : AtTop(t, d, "TryComplete", op)
    BY <1>1, TopFacts DEF TryComplete, OpInv
  <2>2. Claims(op, Top(t).err)
    BY <2>1 DEF AtTop, Claims, Claimed, On
  <2>3. /\ UNCHANGED <<cancelRequested, error_>>
        /\ \A o \in Op : lifecycle'[o] = lifecycle[o]
                         \/ (lifecycle[o] = "Started" /\ lifecycle'[o] = "Completing")
    BY <1>1, <2>1 DEF TryComplete, AtTop, OpInv, TypeInv
  <2>4. \A o, e : Claims(o, e)' => Claims(o, e)
    <3>1. CASE Return(t)
      BY <1>1, <3>1, ReturnClaims DEF TryComplete, OpInv
    <3>2. CASE Goto(t, [Top(t) EXCEPT !.at = "FinishComplete"])
      <4> DEFINE f == [Top(t) EXCEPT !.at = "FinishComplete"]
      <4>1. f \in Frames /\ f.op = op /\ f.err = Top(t).err
        BY <2>1 DEF AtTop, Frames, Places
      <4> HIDE DEF f
      <4>2. \A o, e : Claims(o, e)' => Claims(o, e) \/ (o = op /\ e = Top(t).err)
        BY <1>1, <3>2, <4>1, GotoClaims DEF TryComplete, OpInv, f
      <4> QED
        BY <2>2, <4>2
    <3> QED
      BY <1>1, <3>1, <3>2 DEF TryComplete
  <2> QED
    BY <2>3, <2>4, ResultStays DEF Over
<1>2. CASE FinishComplete(t)
  <2>1. PICK d \in Nat, op \in Op : AtTop(t, d, "FinishComplete", op) /\ One("FinishComplete", op)
    BY <1>2, TopFacts DEF FinishComplete, OpInv
  <2>2. Claims(op, Top(t).err) /\ Top(t).err \in Error /\ lifecycle[op] = "Completing"
    BY <2>1 DEF AtTop, Claims, Claimed, On, Frames, OpInv, EndInv
  <2>3. /\ UNCHANGED cancelRequested /\ error_'[op] = Top(t).err
        /\ lifecycle'[op] = "Completed"
        /\ \A o \in Op : o # op => lifecycle'[o] = lifecycle[o] /\ error_'[o] = error_[o]
    BY <1>2, <2>1, <2>2 DEF FinishComplete, AtTop, Transition, OpInv, TypeInv
  <2>4. \A o, e : Claims(o, e)' => Claims(o, e)
    <3>1. "Cleanup" \in Places /\ "Callback" \in Places
      BY DEF Places
    <3>2. /\ Frame("Cleanup", op) \in Frames /\ Frame("Cleanup", op).at \notin Claiming
          /\ Frame("Callback", op) \in Frames /\ Frame("Callback", op).at \notin Claiming
      BY <3>1, FrameFacts DEF Claiming
    <3>3. Call(t, Frame("Cleanup", op), Frame("Callback", op))
      BY <1>2, <2>1 DEF FinishComplete, AtTop
    <3> QED
      BY <1>2, <3>2, <3>3, CallClaims DEF FinishComplete, OpInv
  <2> QED
    BY <2>2, <2>3, <2>4, ResultMoves DEF Over
<1> QED
  BY <1>1, <1>2

LEMMA CancelResults ==
    ASSUME OpInv, ResultInv, NEW t \in Thread, CancelSignals(t) \/ CancelCompletes(t)
    PROVE  ResultInv'
<1>1. PICK d \in Nat, op \in Op : AtTop(t, d, "CancelChildren", op) /\ One("CancelChildren", op)
  BY TopFacts DEF CancelSignals, CancelCompletes, OpInv
<1>2. UNCHANGED <<lifecycle, cancelRequested, error_>>
  BY DEF CancelSignals, CancelCompletes, word
<1> DEFINE f == [Frame("TryComplete", op) EXCEPT !.err = "OperationCanceled"]
<1>3. f \in Frames /\ f.op = op /\ f.err = "OperationCanceled"
  <2>1. "TryComplete" \in Places
    BY DEF Places
  <2> QED
    BY <2>1 DEF Frame, Frames, Error
<1> HIDE DEF f
<1>4. Return(t) \/ Goto(t, f)
  BY <1>1 DEF CancelSignals, CancelCompletes, AtTop, f
<1>5. \A o, e : Claims(o, e)' => Claims(o, e) \/ (o = op /\ e = "OperationCanceled")
  BY <1>3, <1>4, GotoClaims, ReturnClaims DEF CancelSignals, CancelCompletes, OpInv
<1>6. Justified(op, "OperationCanceled")'
  BY <1>1, <1>2 DEF Justified, OpInv, CancelInv
<1> QED
  BY <1>2, <1>5, <1>6, ResultMoves

\* The parent is completed with the result of a child that was ended.
LEMMA FinishResults ==
    ASSUME OpInv, ResultInv, NEW t \in Thread, Finish(t)
    PROVE  ResultInv'
<1>1. PICK d \in Nat, op \in Op : AtTop(t, d, "Finish", op) /\ One("Finish", op)
  BY TopFacts DEF Finish, OpInv
<1>2. lifecycle[op] = "Completed"
  BY <1>1 DEF OpInv, EndInv
<1>3. /\ UNCHANGED <<cancelRequested, error_>> /\ lifecycle'[op] = "Ended"
      /\ \A o \in Op : o # op => lifecycle'[o] = lifecycle[o]
  BY <1>1, <1>2 DEF Finish, AtTop, Transition, OpInv, TypeInv
<1>4. SUFFICES \A o \in Op \ Host, e \in Error : Claims(o, e)' => Claims(o, e) \/ Justified(o, e)'
  BY <1>2, <1>3, ResultMoves DEF Over
<1>5. CASE ~HasParent(op)
  <2>1. Return(t)
    BY <1>1, <1>5 DEF Finish, AtTop
  <2> QED
    BY <2>1, ReturnClaims DEF Finish, OpInv
<1>6. CASE HasParent(op)
  <2>1. PICK p \in Op : p = Parent(op) /\ IsChild(op, p)
    BY <1>6, TreeFacts
  <2>2. PICK i \in DOMAIN Steps[p] :
              /\ i \in Nat /\ Steps[p][i] = op /\ Steps[p] \in Seq(Op)
              /\ Successors(op) = <<>> <=> i = Len(Steps[p])
              /\ Successors(op) # <<>> => /\ i + 1 \in DOMAIN Steps[p]
                                          /\ Head(Successors(op)) = Steps[p][i + 1]
    BY <2>1, SuccessorFacts
  <2>3. CASE error_[op] = "Success" /\ Successors(op) # <<>>
    <3>1. Goto(t, Frame("Begin", Head(Successors(op))))
      BY <1>1, <1>6, <2>3 DEF Finish, AtTop
    <3>2. Head(Successors(op)) \in Op /\ "Begin" \in Places
      BY <2>2, <2>3 DEF Places
    <3>3. /\ Frame("Begin", Head(Successors(op))) \in Frames
          /\ Frame("Begin", Head(Successors(op))).at \notin Claiming
      BY <3>2, FrameFacts DEF Claiming
    <3> QED
      BY <3>1, <3>3, GotoClaims DEF Finish, OpInv
  <2>4. CASE ~(error_[op] = "Success" /\ Successors(op) # <<>>)
    <3> DEFINE f == [Frame("TryComplete", p) EXCEPT !.err = error_[op]]
    <3>1. f \in Frames /\ f.op = p /\ f.err = error_[op]
      <4>1. "TryComplete" \in Places /\ error_[op] \in Error
        BY DEF Places, OpInv, TypeInv
      <4> QED
        BY <4>1 DEF Frame, Frames
    <3>2. Goto(t, f)
      BY <1>1, <1>6, <2>1, <2>4 DEF Finish, AtTop
    <3> HIDE DEF f
    <3>3. \A o, e : Claims(o, e)' => Claims(o, e) \/ (o = p /\ e = error_[op])
      BY <3>1, <3>2, GotoClaims DEF Finish, OpInv
    <3>4. ASSUME p \notin Host, error_[op] = "Success", NEW c \in Op, IsChild(c, p)
          PROVE  lifecycle'[c] = "Ended" /\ error_'[c] = "Success"
      <4>1. PICK j \in DOMAIN Steps[p] : Steps[p][j] = c
        BY <3>4 DEF IsChild
      <4>2. i = Len(Steps[p]) /\ j \in Nat /\ j <= i
        BY <2>2, <2>4, <3>4
      <4>3. CASE j < i
        BY <1>2, <1>3, <2>2, <3>4, <4>1, <4>3 DEF OpInv, OrderInv, Fresh
      <4>4. CASE j = i
        BY <1>3, <2>2, <3>4, <4>1, <4>4
      <4> QED
        BY <4>2, <4>3, <4>4
    <3>5. p \notin Host => Justified(p, error_[op])'
      BY <1>3, <2>1, <3>4 DEF Justified
    <3>6. error_[op]' = error_[op]
      BY <1>3
    <3> QED
      BY <3>3, <3>5, <3>6
  <2> QED
    BY <2>3, <2>4
<1> QED
  BY <1>5, <1>6

LEMMA ProceedResults ==
    ASSUME OpInv, ResultInv, NEW t \in Thread, Proceed(t)
    PROVE  ResultInv'
BY QuietResults, LeafResults, CompletionResults, CancelResults, FinishResults DEF Proceed, OpInv

LEMMA CallCancelResults ==
    ASSUME OpInv, ResultInv, NEW t \in Thread, CallCancel(t)
    PROVE  ResultInv'
<1>1. PICK op \in Targets \cap (onStarted \cup Host), force \in BOOLEAN :
         stack' = [stack EXCEPT ![t] = <<[Frame("Cancel", op) EXCEPT !.force = force]>>]
  BY DEF CallCancel
<1> DEFINE f == [Frame("Cancel", op) EXCEPT !.force = force]
<1>2. f \in Frames /\ f.at \notin Claiming
  <2>1. op \in Op /\ "Cancel" \in Places
    BY TreeFacts DEF OpInv, TypeInv, Places
  <2> QED
    BY <2>1 DEF Frame, Frames, Error, Claiming
<1> HIDE DEF f
<1>3. stack[t] = <<>> /\ UNCHANGED <<lifecycle, cancelRequested, error_>>
  BY DEF CallCancel, OpInv, TypeInv, word
<1>4. Moves(t, 1, f, NoFrame)
  BY <1>1, <1>2, <1>3, BeginMoves DEF OpInv, f
<1>5. \A o, e : Claims(o, e)' => Claims(o, e)
  BY <1>2, <1>4, ClaimsMove, NoFrameFacts DEF Claiming
<1> QED
  BY <1>3, <1>5, ResultStays

LEMMA StutterResults ==
    ASSUME ResultInv, UNCHANGED vars
    PROVE  ResultInv'
<1>1. UNCHANGED <<lifecycle, cancelRequested, error_, stack>>
  BY DEF vars, word
<1>2. \A o, e : Claims(o, e)' <=> Claims(o, e)
  BY <1>1 DEF Claims, Claimed, On, F
<1> QED
  BY <1>1, <1>2, ResultStays

-----------------------------------------------------------------------------
(***************************************************************************)
(* The invariant holds at the beginning, whatever the user calls first.    *)
(***************************************************************************)
LEMMA InitKeeps ==
    ASSUME InitMembers, NEW f \in Frames, FirstCall(f), f.kids = {}, f.at \in {"Begin", "ComStart"},
           f.at = "Begin" => f.op \notin Host /\ (HasParent(f.op) => Parent(f.op) \in Host)
    PROVE  OpInv /\ ResultInv
<1>1. /\ \A op \in Op : /\ lifecycle[op] = "Created" /\ ~observed[op] /\ ~cancelRequested[op]
                        /\ error_[op] = "Success" /\ children_[op] = {} /\ Free(op)
      /\ handedOver = {} /\ fresh = Cancellers /\ onStarted = {} /\ refused = {} /\ asserts = {}
  BY DEF InitMembers, Free
<1>2. \A t \in Thread, k \in Nat : F(t, k) = IF t = User /\ k = 1 THEN f ELSE NoFrame
  <2>1. ASSUME NEW t \in Thread, NEW k \in Nat
        PROVE  F(t, k) = IF t = User /\ k = 1 THEN f ELSE NoFrame
    <3>1. CASE t = User
      <4>1. stack[t] = <<f>> /\ Len(stack[t]) = 1
        BY <3>1 DEF FirstCall
      <4> QED
        BY <3>1, <4>1 DEF F
    <3>2. CASE t # User
      <4>1. stack[t] = <<>> /\ Len(stack[t]) = 0
        BY <3>2 DEF FirstCall
      <4> QED
        BY <3>2, <4>1 DEF F
    <3> QED
      BY <3>1, <3>2
  <2> QED
    BY <2>1
<1>3. /\ \A x, o : x # "none" /\ One(x, o) => x = f.at /\ o = f.op
      /\ \A x, o, e : x # "none" /\ Claimed(x, o, e) => x = f.at
      /\ \A o : ~Held(o)
  BY <1>2, NoFrameFacts DEF One, On, Claimed, Held
<1>4. TypeInv
  <2>1. stack \in [Thread -> Seq(Frames)] /\ \A t \in fresh : stack[t] = <<>>
    BY <1>1, ThreadAssumption, TreeFacts DEF FirstCall
  <2> QED
    BY <1>1, <2>1 DEF TypeInv, InitMembers, Phase, Error
<1>5. Unique(Starting) /\ Unique({"Begun"}) /\ Unique({"FinishComplete"}) /\ Unique({"Callback"})
      /\ Unique({"Finish"}) /\ Unique({"CancelCollect", "CancelChildren"})
  BY <1>2, NoFrameFacts DEF Unique, Starting
<1>6. f.op \in Op /\ \A o \in Op : ~Attaching(o) /\ (Fresh(o) \/ (f.at = "Begin" /\ o = f.op))
  BY <1>1, <1>3 DEF Fresh, Attaching, Frames
<1>7. StartInv
  BY <1>1, <1>3, <1>5, <1>6, TreeFacts DEF StartInv
<1>8. BegunInv
  BY <1>3 DEF BegunInv, One
<1>9. EndInv
  BY <1>1, <1>3, <1>5 DEF EndInv
<1>10. OrderInv
  <2>1. \A p \in Op \ Host, c \in Op : IsChild(c, p) => Fresh(c)
    BY <1>6, TreeFacts
  <2>2. ASSUME NEW p \in Op, NEW i \in DOMAIN Steps[p], NEW j \in DOMAIN Steps[p],
               i < j, ~Fresh(Steps[p][j])
        PROVE  p \in Host /\ Fresh(Steps[p][i])
    <3>1. /\ Steps[p][i] \in Op /\ Steps[p][j] \in Op
          /\ IsChild(Steps[p][i], p) /\ IsChild(Steps[p][j], p)
      BY TreeFacts DEF IsChild
    <3>2. f.at = "Begin" /\ Steps[p][j] = f.op
      BY <1>6, <2>2, <3>1
    <3>3. Steps[p][i] # f.op
      BY <2>2, <3>2, TreeAssumption, TreeFacts
    <3> QED
      BY <1>6, <2>1, <2>2, <3>1, <3>3
  <2> QED
    BY <2>1, <2>2 DEF OrderInv
<1>11. YoungInv
  BY <1>1, <1>3, TreeFacts DEF YoungInv
<1>12. LockInv
  BY <1>3 DEF LockInv
<1>13. CancelInv
  BY <1>1, <1>3, <1>5 DEF CancelInv, Attached
<1>14. CompleteInv
  BY <1>1, <1>3 DEF CompleteInv, CompletingOrCompleted
<1>15. ListInv
  <2>1. \A p \in Op : ~Adding(p)
    BY <1>1, <1>3 DEF Adding
  <2> QED
    BY <1>1, <1>3, <2>1 DEF ListInv
<1>16. ResultInv
  BY <1>1, <1>3 DEF ResultInv, Claims, Over
<1> QED
  BY <1>4, <1>5, <1>7, <1>8, <1>9, <1>10, <1>11, <1>12, <1>13, <1>14, <1>15, <1>16 DEF OpInv

\* The places of an operation that some thread is at.
LEMMA SomeoneIsOne ==
    ASSUME TypeInv, NEW places, "none" \notin places, NEW op
    PROVE  Someone(places, op) <=> \E at \in places : One(at, op)
<1>1. ASSUME NEW t \in Thread, NEW i \in DOMAIN stack[t], stack[t][i].op = op, stack[t][i].at \in places
      PROVE  \E at \in places : One(at, op)
  <2>1. stack[t] \in Seq(Frames) /\ i \in 1..Len(stack[t]) /\ Len(stack[t]) \in Nat
    BY DEF TypeInv
  <2>2. PICK k \in Nat : k = Len(stack[t]) - i + 1
    BY <2>1
  <2>3. k \in 1..Len(stack[t]) /\ Len(stack[t]) - k + 1 = i
    BY <2>1, <2>2
  <2>4. F(t, k) = stack[t][i]
    BY <2>3 DEF F
  <2> QED
    BY <1>1, <2>4 DEF One, On
<1>2. ASSUME NEW at \in places, One(at, op)
      PROVE  Someone(places, op)
  <2>1. PICK t \in Thread, k \in Nat : F(t, k).at = at /\ F(t, k).op = op
    BY <1>2 DEF One, On
  <2>2. k \in 1..Len(stack[t]) /\ stack[t] \in Seq(Frames) /\ Len(stack[t]) \in Nat
    BY <2>1, NoFrameFacts DEF F, TypeInv
  <2>3. Len(stack[t]) - k + 1 \in DOMAIN stack[t] /\ F(t, k) = stack[t][Len(stack[t]) - k + 1]
    BY <2>2 DEF F
  <2> QED
    BY <2>1, <2>3 DEF Someone
<1> QED
  BY <1>1, <1>2 DEF Someone

\* What the invariant says in the words of the properties.
LEMMA InvariantImplies ==
    ASSUME OpInv, ResultInv
    PROVE  TransitionAssertsHold /\ CancelReachesChildren /\ ResultsPropagate /\ ListIsCleaned
<1>1. TransitionAssertsHold
  BY DEF OpInv, StartInv, TransitionAssertsHold
<1>2. CancelReachesChildren
  <2>1. SUFFICES ASSUME NEW p \in Op, NEW c \in Op, IsChild(c, p), cancelRequested[p],
                        ~Someone({"CancelCollect", "CancelChildren"}, p),
                        lifecycle[c] = "Started", c \notin refused,
                        ~Someone({"Attach", "AttachPush"}, c), ~cancelRequested[c]
                 PROVE  FALSE
    BY DEF CancelReachesChildren
  <2>2. ~One("CancelCollect", p) /\ ~One("CancelChildren", p)
    BY <2>1, SomeoneIsOne DEF OpInv
  <2>3. Attached(c)
    BY <2>1, SomeoneIsOne DEF OpInv, Attached, Attaching
  <2>4. c \notin children_[p]
    BY <2>1, <2>2 DEF OpInv, CancelInv, Adding
  <2>5. ~Pursued(p, c)
    BY <2>2 DEF Pursued, One
  <2> QED
    BY <2>1, <2>3, <2>4, <2>5 DEF OpInv, CancelInv
<1>3. ResultsPropagate
  <2>1. ASSUME NEW p \in Op, CompletingOrCompleted(p), lifecycle[p] # "Completing"
        PROVE  Justified(p, error_[p])
    <3>1. lifecycle[p] \in Over /\ p \notin Host
      BY <2>1 DEF CompletingOrCompleted, Over, OpInv, StartInv
    <3> QED
      BY <3>1 DEF ResultInv
  <2> QED
    BY <2>1 DEF ResultsPropagate, Justified
<1>4. ListIsCleaned
  <2>1. SUFFICES ASSUME NEW p \in Op, NEW c \in children_[p]
                 PROVE  /\ lifecycle[c] \in Over => Someone({"Cleanup", "Detach"}, c)
                        /\ lifecycle[p] \in Over => Someone({"Cleanup"}, p)
    BY DEF ListIsCleaned, Over
  <2>2. c \in Op /\ Adding(p)
    BY <2>1 DEF OpInv, TypeInv, Adding
  <2>3. /\ lifecycle[c] \in Over => One("Cleanup", c) \/ One("Detach", c)
        /\ lifecycle[p] \in Over => One("Cleanup", p)
    BY <2>1, <2>2 DEF OpInv, ListInv
  <2> QED
    BY <2>3, SomeoneIsOne DEF OpInv
<1> QED
  BY <1>1, <1>2, <1>3, <1>4

LEMMA NextKeeps ==
    ASSUME OpInv, ResultInv, [Next]_vars
    PROVE  OpInv' /\ ResultInv'
BY ProceedKeeps, WorkDoneKeeps, CallCancelKeeps, StutterKeeps,
   ProceedResults, LeafResults, CallCancelResults, StutterResults DEF Next

(***************************************************************************)
(* Operations that begin, complete, end and cancel each other keep the     *)
(* invariant above, for any tree of operations and any threads.            *)
(***************************************************************************)
THEOREM OperationInvariant == Spec => [](OpInv /\ ResultInv)
<1>1. Init => OpInv /\ ResultInv
  <2>1. "Begin" \in Places
    BY DEF Places
  <2>2. PICK f \in Frames : f = Frame("Begin", Root) /\ f.at = "Begin" /\ f.op = Root /\ f.kids = {}
    BY <2>1, FrameFacts, TreeFacts
  <2>3. Root \notin Host /\ (HasParent(Root) => Parent(Root) \in Host)
    BY TreeAssumption, TreeFacts
  <2>4. Init => InitMembers /\ FirstCall(f)
    BY <2>2 DEF Init
  <2> QED
    BY <2>2, <2>3, <2>4, InitKeeps
<1>2. OpInv /\ ResultInv /\ [Next]_vars => (OpInv /\ ResultInv)'
  BY NextKeeps
<1> QED
  BY <1>1, <1>2, PTL DEF Spec

(***************************************************************************)
(* No operation is started, completed or ended twice, or ended before it   *)
(* has completed: the asserts of the Transition functions hold.            *)
(***************************************************************************)
THEOREM TransitionsNeverFail == Spec => []TransitionAssertsHold
<1>1. OpInv /\ ResultInv => TransitionAssertsHold
  BY InvariantImplies
<1> QED
  BY <1>1, OperationInvariant, PTL

(***************************************************************************)
(* Either AttachChild sees that the parent is cancelled, or Cancel of the  *)
(* parent sees the child: no attached child is left that goes on.          *)
(***************************************************************************)
THEOREM CancelAlwaysReachesChildren == Spec => []CancelReachesChildren
<1>1. OpInv /\ ResultInv => CancelReachesChildren
  BY InvariantImplies
<1> QED
  BY <1>1, OperationInvariant, PTL

(***************************************************************************)
(* An operation succeeds only if all that it begins were ended with        *)
(* success, and is cancelled only if it, or the child it reports on, was.  *)
(***************************************************************************)
THEOREM ResultsAlwaysPropagate == Spec => []ResultsPropagate
<1>1. OpInv /\ ResultInv => ResultsPropagate
  BY InvariantImplies
<1> QED
  BY <1>1, OperationInvariant, PTL

(***************************************************************************)
(* Operations that are over leave the lists of children, and keep none,    *)
(* as soon as Cleanup and DetachChild have run.                            *)
(***************************************************************************)
THEOREM ListIsAlwaysCleaned == Spec => []ListIsCleaned
<1>1. OpInv /\ ResultInv => ListIsCleaned
  BY InvariantImplies
<1> QED
  BY <1>1, OperationInvariant, PTL

-----------------------------------------------------------------------------
(***************************************************************************)
(* The word of each operation as AsyncOperationState promises it.          *)
(***************************************************************************)
EndedBy(op) ==
    IF lifecycle[op] # "Ended" THEN "nobody" ELSE IF observed[op] THEN "callback" ELSE "starter"

Life(op) == INSTANCE OperationLifecycle WITH
    lifecycle <- lifecycle[op], observed <- observed[op],
    cancelRequested <- cancelRequested[op], endedBy <- EndedBy(op)

LEMMA SameWord ==
    ASSUME NEW op \in Op, lifecycle'[op] = lifecycle[op], observed'[op] = observed[op],
           cancelRequested'[op] = cancelRequested[op]
    PROVE  UNCHANGED Life(op)!vars
BY DEF Life!vars, EndedBy

LEMMA ProceedLives ==
    ASSUME OpInv, NEW op \in Op \ Host, NEW t \in Thread, Proceed(t)
    PROVE  [Life(op)!Next]_(Life(op)!vars)
<1> USE DEF OpInv
<1>1. CASE Start(t)
  <2>1. PICK d \in Nat, o \in Op : AtTop(t, d, "Start", o) /\ One("Start", o)
    BY <1>1, TopFacts DEF Start
  <2>2. lifecycle[o] = "Created" /\ lifecycle' = [lifecycle EXCEPT ![o] = "Started"]
        /\ UNCHANGED <<observed, cancelRequested>>
    BY <1>1, <2>1 DEF Start, AtTop, Transition, StartInv
  <2>3. CASE o = op
    <3>1. lifecycle'[op] = "Started"
      BY <2>2, <2>3 DEF TypeInv
    <3> QED
      BY <2>2, <2>3, <3>1 DEF Life!Next, Life!Start, Life!Move, EndedBy
  <2>4. CASE o # op
    BY <2>2, <2>4, SameWord DEF TypeInv
  <2> QED
    BY <2>3, <2>4
<1>2. CASE Begun(t) \/ Callback(t)
  <2>1. PICK at \in {"Begun", "Callback"} : At(t, at)
    BY <1>2 DEF Begun, Callback
  <2>2. PICK d \in Nat, o \in Op : AtTop(t, d, at, o)
    BY <2>1, TopFacts
  <2>3. /\ observed' = [observed EXCEPT ![o] = @ \/ lifecycle[o] \in {"Started", "Completing"}]
        /\ UNCHANGED <<lifecycle, cancelRequested>>
    BY <1>2, <2>2 DEF Begun, Callback, Observe, AtTop
  <2>4. CASE o = op /\ lifecycle[op] \in {"Started", "Completing"}
    <3>1. observed'[op] = TRUE
      BY <2>3, <2>4 DEF TypeInv
    <3> QED
      BY <2>3, <2>4, <3>1 DEF Life!Next, Life!Observe, EndedBy
  <2>5. CASE ~(o = op /\ lifecycle[op] \in {"Started", "Completing"})
    <3>1. observed'[op] = observed[op]
      BY <2>3, <2>5 DEF TypeInv
    <3> QED
      BY <2>3, <3>1, SameWord
  <2> QED
    BY <2>4, <2>5
<1>3. CASE Finish(t)
  <2>1. PICK d \in Nat, o \in Op : AtTop(t, d, "Finish", o) /\ One("Finish", o)
    BY <1>3, TopFacts DEF Finish
  <2>2. lifecycle[o] = "Completed" /\ lifecycle' = [lifecycle EXCEPT ![o] = "Ended"]
        /\ UNCHANGED <<observed, cancelRequested>>
    BY <1>3, <2>1 DEF Finish, AtTop, Transition, EndInv
  <2>3. CASE o = op
    <3>1. lifecycle'[op] = "Ended"
      BY <2>2, <2>3 DEF TypeInv
    <3>2. EndedBy(op)' = Life(op)!Designated
      BY <2>2, <3>1 DEF EndedBy, Life!Designated
    <3> QED
      BY <2>2, <2>3, <3>1, <3>2 DEF Life!Next, Life!End, Life!Move
  <2>4. CASE o # op
    BY <2>2, <2>4, SameWord DEF TypeInv
  <2> QED
    BY <2>3, <2>4
<1>4. CASE TryComplete(t)
  <2>1. PICK d \in Nat, o \in Op : AtTop(t, d, "TryComplete", o)
    BY <1>4, TopFacts DEF TryComplete
  <2>2. /\ \/ lifecycle[o] = "Started" /\ lifecycle' = [lifecycle EXCEPT ![o] = "Completing"]
           \/ lifecycle' = lifecycle
        /\ UNCHANGED <<observed, cancelRequested>>
    BY <1>4, <2>1 DEF TryComplete, AtTop
  <2>3. CASE o = op /\ lifecycle[op] = "Started" /\ lifecycle' = [lifecycle EXCEPT ![op] = "Completing"]
    <3>1. lifecycle'[op] = "Completing"
      BY <2>3 DEF TypeInv
    <3> QED
      BY <2>2, <2>3, <3>1 DEF Life!Next, Life!StartComplete, Life!Move, EndedBy
  <2>4. CASE o # op \/ lifecycle' = lifecycle
    <3>1. lifecycle'[op] = lifecycle[op]
      BY <2>2, <2>4 DEF TypeInv
    <3> QED
      BY <2>2, <3>1, SameWord
  <2> QED
    BY <2>2, <2>3, <2>4
<1>5. CASE FinishComplete(t)
  <2>1. PICK d \in Nat, o \in Op : AtTop(t, d, "FinishComplete", o) /\ One("FinishComplete", o)
    BY <1>5, TopFacts DEF FinishComplete
  <2>2. lifecycle[o] = "Completing" /\ lifecycle' = [lifecycle EXCEPT ![o] = "Completed"]
        /\ UNCHANGED <<observed, cancelRequested>>
    BY <1>5, <2>1 DEF FinishComplete, AtTop, Transition, EndInv
  <2>3. CASE o = op
    <3>1. lifecycle'[op] = "Completed"
      BY <2>2, <2>3 DEF TypeInv
    <3> QED
      BY <2>2, <2>3, <3>1 DEF Life!Next, Life!Complete, Life!Move, EndedBy
  <2>4. CASE o # op
    BY <2>2, <2>4, SameWord DEF TypeInv
  <2> QED
    BY <2>3, <2>4
<1>6. CASE Cancel(t)
  <2>1. PICK d \in Nat, o \in Op : AtTop(t, d, "Cancel", o) /\ One("Cancel", o)
    BY <1>6, TopFacts DEF Cancel
  <2>2. /\ \/ ~cancelRequested[o] /\ cancelRequested' = [cancelRequested EXCEPT ![o] = TRUE]
           \/ cancelRequested' = cancelRequested
        /\ UNCHANGED <<lifecycle, observed>>
    BY <1>6, <2>1 DEF Cancel, AtTop
  <2>3. CASE o = op /\ ~cancelRequested[op] /\ cancelRequested' = [cancelRequested EXCEPT ![op] = TRUE]
    <3>1. cancelRequested'[op] = TRUE /\ lifecycle[op] # "Created"
      BY <2>1, <2>3 DEF TypeInv, YoungInv, Young
    <3> QED
      BY <2>2, <2>3, <3>1 DEF Life!Next, Life!RequestCancel, EndedBy
  <2>4. CASE o # op \/ cancelRequested' = cancelRequested
    <3>1. cancelRequested'[op] = cancelRequested[op]
      BY <2>2, <2>4 DEF TypeInv
    <3> QED
      BY <2>2, <3>1, SameWord
  <2> QED
    BY <2>2, <2>3, <2>4
<1>7. CASE UNCHANGED <<lifecycle, observed, cancelRequested>>
  BY <1>7, SameWord
<1>8. \/ Start(t) \/ Begun(t) \/ Callback(t) \/ Finish(t) \/ TryComplete(t) \/ FinishComplete(t)
      \/ Cancel(t) \/ UNCHANGED <<lifecycle, observed, cancelRequested>>
  BY DEF Proceed, AttachChild, AttachPush, OnStart, StartReturns, Begin, Cleanup, DetachChild,
         CancelCollect, CancelChild, CancelSignals, CancelCompletes, word
<1> QED
  BY <1>1, <1>2, <1>3, <1>4, <1>5, <1>6, <1>7, <1>8

(***************************************************************************)
(* Whoever starts, observes, completes, cancels and ends an operation, its *)
(* state word lives as OperationLifecycle says, which is what              *)
(* AsyncOperationState implements: Cancel comes after Start, and the       *)
(* party that CompletedSynchronously designates calls End.                 *)
(***************************************************************************)
THEOREM OperationsLive == ASSUME NEW op \in Op \ Host PROVE Spec => Life(op)!Spec
<1>1. Init => Life(op)!Init
  BY DEF Init, InitMembers, Life!Init, EndedBy
<1>2. OpInv /\ ResultInv /\ [Next]_vars => [Life(op)!Next]_(Life(op)!vars)
  <2>1. SUFFICES ASSUME OpInv, [Next]_vars PROVE [Life(op)!Next]_(Life(op)!vars)
    OBVIOUS
  <2>2. ASSUME NEW t \in Thread, WorkDone(t) \/ CallCancel(t)
        PROVE  UNCHANGED Life(op)!vars
    BY <2>2, SameWord DEF WorkDone, CallCancel, word
  <2>3. CASE UNCHANGED vars
    BY <2>3, SameWord DEF vars, word
  <2> QED
    BY <2>1, <2>2, <2>3, ProceedLives DEF Next
<1> QED
  BY <1>1, <1>2, OperationInvariant, PTL DEF Spec, Life!Spec
-----------------------------------------------------------------------------
(***************************************************************************)
(* What an operation promises.  The callback has been called when it is no *)
(* longer ahead of an operation that is completed.                         *)
(***************************************************************************)
StatusOf(phase) ==
    IF phase = "Created" THEN "idle" ELSE IF phase \in Over THEN "answered" ELSE "pending"

CallsOf(op) == IF lifecycle[op] \in Over /\ ~One("Callback", op) THEN 1 ELSE 0

Promise(op) == INSTANCE AsyncPromise WITH
    Answers <- Error,
    status <- StatusOf(lifecycle[op]),
    result <- IF lifecycle[op] \in Over THEN error_[op] ELSE "none",
    calls <- CallsOf(op),
    told <- IF lifecycle[op] = "Ended" THEN error_[op] ELSE "none"

\* The callback of an operation is entered from FinishComplete only.
LEMMA CallbackMoves ==
    ASSUME TypeInv, NEW t \in Thread, NEW at, At(t, at), at # "Callback",
           NEW f \in Frames, NEW g \in Frames, f.at # "Callback",
           Goto(t, f) \/ Call(t, f, g) \/ Return(t), NEW op
    PROVE  /\ One("Callback", op) => One("Callback", op)'
           /\ One("Callback", op)' => One("Callback", op) \/ (g.at = "Callback" /\ g.op = op)
<1>1. PICK d \in Nat, o \in Op : AtTop(t, d, at, o)
  BY TopFacts
<1>2. F(t, d).at = at /\ F(t, d + 1) = NoFrame
  BY <1>1 DEF AtTop
<1>3. CASE Goto(t, f)
  <2>1. Moves(t, d, f, NoFrame)
    BY <1>1, <1>3, GotoMoves
  <2> QED
    BY <1>2, <2>1, OneMoves, NoFrameFacts DEF On
<1>4. CASE Call(t, f, g)
  <2>1. Moves(t, d, f, g)
    BY <1>1, <1>4, CallMoves
  <2> QED
    BY <1>2, <2>1, OneMoves DEF On
<1>5. CASE Return(t)
  <2>1. Moves(t, d, NoFrame, NoFrame)
    BY <1>1, <1>5, ReturnMoves
  <2> QED
    BY <1>2, <2>1, OneMoves, NoFrameFacts DEF On
<1> QED
  BY <1>3, <1>4, <1>5

LEMMA GotoCallback ==
    ASSUME TypeInv, NEW t \in Thread, NEW at, At(t, at), at # "Callback",
           NEW f \in Frames, f.at # "Callback", Goto(t, f) \/ Return(t), NEW op
    PROVE  One("Callback", op)' <=> One("Callback", op)
BY CallbackMoves, NoFrameFacts

LEMMA CallCallback ==
    ASSUME TypeInv, NEW t \in Thread, NEW at, At(t, at), at # "Callback",
           NEW f \in Frames, NEW g \in Frames, f.at # "Callback", g.at # "Callback", Call(t, f, g), NEW op
    PROVE  One("Callback", op)' <=> One("Callback", op)
BY CallbackMoves

\* The frames that the steps put on the stack.
LEMMA PutFrames ==
    ASSUME NEW at \in Places, NEW o \in Op, NEW top \in Frames
    PROVE  /\ Frame(at, o) \in Frames /\ Frame(at, o).at = at
           /\ \A b \in BOOLEAN : /\ [Frame(at, o) EXCEPT !.attached = b] \in Frames
                                 /\ [Frame(at, o) EXCEPT !.attached = b].at = at
           /\ [top EXCEPT !.at = at] \in Frames /\ [top EXCEPT !.at = at].at = at
           /\ \A s \in SUBSET Op : /\ [top EXCEPT !.kids = s] \in Frames
                                   /\ [top EXCEPT !.kids = s].at = top.at
BY DEF Frame, Frames, Error

LEMMA PutError ==
    ASSUME NEW at \in Places, NEW o \in Op, NEW e \in Error
    PROVE  [Frame(at, o) EXCEPT !.err = e] \in Frames /\ [Frame(at, o) EXCEPT !.err = e].at = at
BY DEF Frame, Frames

\* A frame with the children that a Cancel has taken from the list.
KidsFrame(top, at, s) == [top EXCEPT !.at = at, !.kids = s]

LEMMA PutKids ==
    ASSUME NEW at \in Places, NEW top \in Frames, NEW s \in SUBSET Op
    PROVE  KidsFrame(top, at, s) \in Frames /\ KidsFrame(top, at, s).at = at
BY DEF KidsFrame, Frames

LEMMA QuietCallbacks ==
    ASSUME OpInv, NEW t \in Thread, Proceed(t), ~Callback(t), ~FinishComplete(t), NEW op
    PROVE  One("Callback", op)' <=> One("Callback", op)
<1> USE DEF OpInv
<1>1. OwnPlaces \subseteq Places /\ "OperationCanceled" \in Error /\ "Success" \in Error /\ "Failure" \in Error
  BY DEF OwnPlaces, Places, Error
<1>2. \A at : At(t, at) => Top(t) \in Frames /\ Top(t).op \in Op /\ Top(t).at = at
  BY TopFacts DEF AtTop
<1>3. CASE Start(t)
  <2>1. At(t, "Start") /\ \E at \in {"Attach", "OnStart"} : Goto(t, Frame(at, Top(t).op))
    BY <1>3 DEF Start
  <2>2. "Attach" \in Places /\ "OnStart" \in Places
    BY DEF Places
  <2> QED
    BY <1>2, <2>1, <2>2, PutFrames, GotoCallback
<1>4. CASE AttachChild(t)
  <2>1. At(t, "Attach") /\ \/ Goto(t, Frame("AttachPush", Top(t).op))
                           \/ Goto(t, [Frame("OnStart", Top(t).op) EXCEPT !.attached = FALSE])
    BY <1>4 DEF AttachChild
  <2>2. "AttachPush" \in Places /\ "OnStart" \in Places
    BY DEF Places
  <2> QED
    BY <1>2, <2>1, <2>2, PutFrames, GotoCallback
<1>5. CASE AttachPush(t)
  <2>1. At(t, "AttachPush") /\ Goto(t, Frame("OnStart", Top(t).op)) /\ "OnStart" \in Places
    BY <1>5 DEF AttachPush, Places
  <2> QED
    BY <1>2, <2>1, PutFrames, GotoCallback
<1>6. CASE OnStart(t)
  <2>1. At(t, "OnStart") /\ Top(t) \in Frames /\ Top(t).op \in Op
    BY <1>2, <1>6 DEF OnStart
  <2> DEFINE f == [Top(t) EXCEPT !.at = "StartReturns"]
  <2>2. /\ "StartReturns" \in Places /\ "Begin" \in Places /\ "TryComplete" \in Places
        /\ f \in Frames /\ f.at = "StartReturns"
    <3>1. "StartReturns" \in Places /\ "Begin" \in Places /\ "TryComplete" \in Places
      BY DEF Places
    <3> QED
      BY <2>1, <3>1, PutFrames
  <2>3. CASE ~IsLeaf(Top(t).op) /\ Call(t, f, Frame("Begin", Head(Steps[Top(t).op])))
    <3>1. Head(Steps[Top(t).op]) \in Op
      BY <2>1, <2>3, TreeFacts DEF IsLeaf
    <3>2. Frame("Begin", Head(Steps[Top(t).op])) \in Frames /\ Frame("Begin", Head(Steps[Top(t).op])).at = "Begin"
      BY <2>2, <3>1, FrameFacts
    <3> HIDE DEF f
    <3> QED
      BY <2>1, <2>2, <2>3, <3>2, CallCallback
  <2>4. ASSUME NEW e \in {"Success", "Failure"}, Call(t, f, [Frame("TryComplete", Top(t).op) EXCEPT !.err = e])
        PROVE  One("Callback", op)' <=> One("Callback", op)
    <3>1. e \in Error
      BY DEF Error
    <3>2. /\ [Frame("TryComplete", Top(t).op) EXCEPT !.err = e] \in Frames
          /\ [Frame("TryComplete", Top(t).op) EXCEPT !.err = e].at = "TryComplete"
      BY <2>1, <2>2, <3>1, PutError
    <3> HIDE DEF f
    <3> QED
      BY <2>1, <2>2, <2>4, <3>2, CallCallback
  <2>5. CASE Goto(t, f)
    <3> HIDE DEF f
    <3> QED
      BY <2>1, <2>2, <2>5, GotoCallback
  <2> QED
    BY <1>6, <2>3, <2>4, <2>5 DEF OnStart
<1>7. CASE Begin(t)
  <2>1. At(t, "Begin") /\ Call(t, [Top(t) EXCEPT !.at = "Begun"], Frame("Start", Top(t).op))
    BY <1>7 DEF Begin
  <2>2. "Begun" \in Places /\ "Start" \in Places
    BY DEF Places
  <2>3. [Top(t) EXCEPT !.at = "Begun"] \in Frames /\ [Top(t) EXCEPT !.at = "Begun"].at = "Begun"
    BY <1>2, <2>1, <2>2, PutFrames
  <2>4. Frame("Start", Top(t).op) \in Frames /\ Frame("Start", Top(t).op).at = "Start"
    BY <1>2, <2>1, <2>2, FrameFacts
  <2> QED
    BY <2>1, <2>3, <2>4, CallCallback
<1>8. CASE Begun(t)
  <2>1. At(t, "Begun") /\ (Return(t) \/ Goto(t, Frame("Finish", Top(t).op))) /\ "Finish" \in Places
    BY <1>8 DEF Begun, Places
  <2> QED
    BY <1>2, <2>1, PutFrames, GotoCallback
<1>9. CASE Finish(t)
  <2> DEFINE o == Top(t).op
  <2>1. At(t, "Finish") /\ o \in Op /\ "Begin" \in Places /\ "TryComplete" \in Places /\ Top(t) \in Frames
    <3>1. At(t, "Finish")
      BY <1>9 DEF Finish
    <3> QED
      BY <1>2, <3>1 DEF Places
  <2>2. CASE Return(t)
    BY <2>1, <2>2, GotoCallback, NoFrameFacts
  <2>3. CASE HasParent(o) /\ Successors(o) # <<>> /\ Goto(t, Frame("Begin", Head(Successors(o))))
    <3>1. PICK p \in Op : IsChild(o, p)
      BY <2>1, <2>3, TreeFacts
    <3>2. Head(Successors(o)) \in Op
      BY <2>1, <2>3, <3>1, SuccessorFacts, TreeFacts DEF IsChild
    <3>3. Frame("Begin", Head(Successors(o))) \in Frames /\ Frame("Begin", Head(Successors(o))).at = "Begin"
      BY <2>1, <3>2, FrameFacts
    <3> QED
      BY <2>1, <2>3, <3>3, GotoCallback
  <2>4. CASE HasParent(o) /\ Goto(t, [Frame("TryComplete", Parent(o)) EXCEPT !.err = error_[o]])
    <3>1. Parent(o) \in Op /\ error_[o] \in Error
      BY <2>1, <2>4, TreeFacts DEF TypeInv
    <3>2. /\ [Frame("TryComplete", Parent(o)) EXCEPT !.err = error_[o]] \in Frames
          /\ [Frame("TryComplete", Parent(o)) EXCEPT !.err = error_[o]].at = "TryComplete"
      BY <2>1, <3>1, PutError
    <3> QED
      BY <2>1, <2>4, <3>2, GotoCallback
  <2> QED
    BY <1>9, <2>2, <2>3, <2>4 DEF Finish
<1>10. CASE TryComplete(t)
  <2>1. /\ At(t, "TryComplete") /\ "FinishComplete" \in Places
        /\ Return(t) \/ Goto(t, [Top(t) EXCEPT !.at = "FinishComplete"])
    BY <1>10 DEF TryComplete, Places
  <2> QED
    BY <1>2, <2>1, PutFrames, GotoCallback
<1>11. CASE Cleanup(t)
  <2>1. At(t, "Cleanup") /\ (Return(t) \/ Goto(t, Frame("Detach", Top(t).op))) /\ "Detach" \in Places
    BY <1>11 DEF Cleanup, Places
  <2> QED
    BY <1>2, <2>1, PutFrames, GotoCallback
<1>12. CASE StartReturns(t) \/ DetachChild(t)
  <2>1. PICK at \in {"StartReturns", "Detach"} : At(t, at) /\ Return(t)
    BY <1>12 DEF StartReturns, DetachChild
  <2> QED
    BY <1>2, <2>1, GotoCallback
<1>13. CASE Cancel(t)
  <2>1. /\ At(t, "Cancel") /\ "CancelCollect" \in Places
        /\ Return(t) \/ Goto(t, [Top(t) EXCEPT !.at = "CancelCollect"])
    BY <1>13 DEF Cancel, Places
  <2> QED
    BY <1>2, <2>1, PutFrames, GotoCallback
<1>14. CASE CancelCollect(t)
  <2>1. /\ At(t, "CancelCollect") /\ "CancelChildren" \in Places
        /\ Goto(t, KidsFrame(Top(t), "CancelChildren", children_[Top(t).op]))
    BY <1>14 DEF CancelCollect, Places, KidsFrame
  <2>2. Top(t).op \in Op /\ Top(t) \in Frames
    BY <1>2, <2>1
  <2>3. children_[Top(t).op] \in SUBSET Op
    BY <2>2 DEF TypeInv
  <2>4. PICK f \in Frames : f = KidsFrame(Top(t), "CancelChildren", children_[Top(t).op]) /\ f.at = "CancelChildren"
    BY <2>1, <2>2, <2>3, PutKids
  <2> QED
    BY <2>1, <2>4, GotoCallback
<1>15. CASE CancelChild(t)
  <2>1. PICK kid \in Top(t).kids : Call(t, [Top(t) EXCEPT !.kids = @ \ {kid}], Frame("Cancel", kid))
    BY <1>15 DEF CancelChild
  <2>2. At(t, "CancelChildren") /\ "Cancel" \in Places
    BY <1>15 DEF CancelChild, Places
  <2>3. Top(t).kids \in SUBSET Op /\ Top(t) \in Frames /\ Top(t).at = "CancelChildren"
    BY <1>2, <2>2 DEF Frames
  <2>4. kid \in Op /\ Top(t).kids \ {kid} \in SUBSET Op
    BY <2>1, <2>3
  <2>5. /\ [Top(t) EXCEPT !.kids = @ \ {kid}] \in Frames
        /\ [Top(t) EXCEPT !.kids = @ \ {kid}].at = "CancelChildren"
    BY <2>2, <2>3, <2>4, PutFrames
  <2>6. Frame("Cancel", kid) \in Frames /\ Frame("Cancel", kid).at = "Cancel"
    BY <2>2, <2>4, FrameFacts
  <2> QED
    BY <2>1, <2>2, <2>5, <2>6, CallCallback
<1>16. CASE CancelSignals(t) \/ CancelCompletes(t)
  <2>1. /\ At(t, "CancelChildren") /\ "TryComplete" \in Places
        /\ Return(t) \/ Goto(t, [Frame("TryComplete", Top(t).op) EXCEPT !.err = "OperationCanceled"])
    BY <1>16 DEF CancelSignals, CancelCompletes, Places
  <2> QED
    BY <1>1, <1>2, <2>1, PutError, GotoCallback
<1> QED
  BY <1>3, <1>4, <1>5, <1>6, <1>7, <1>8, <1>9, <1>10, <1>11, <1>12, <1>13, <1>14, <1>15, <1>16 DEF Proceed

LEMMA SamePromise ==
    ASSUME NEW op, lifecycle'[op] = lifecycle[op], error_'[op] = error_[op],
           One("Callback", op)' <=> One("Callback", op)
    PROVE  UNCHANGED Promise(op)!vars
<1>1. CallsOf(op)' = CallsOf(op)
  BY DEF CallsOf
<1> QED
  BY <1>1 DEF Promise!vars

LEMMA CallbackKeepsPromise ==
    ASSUME OpInv, NEW op \in Op, NEW t \in Thread, Callback(t)
    PROVE  [Promise(op)!Next]_(Promise(op)!vars)
<1> USE DEF OpInv
<1>1. PICK d \in Nat, o \in Op : AtTop(t, d, "Callback", o) /\ One("Callback", o)
  BY TopFacts DEF Callback
<1>2. UNCHANGED <<lifecycle, error_>>
  BY DEF Callback
<1>3. PICK f \in Frames : Moves(t, d, f, NoFrame) /\ f.at # "Callback"
  <2>1. CASE Return(t)
    BY <1>1, <2>1, ReturnMoves, NoFrameFacts
  <2>2. CASE Goto(t, Frame("Finish", o))
    <3>1. Frame("Finish", o) \in Frames /\ Frame("Finish", o).at = "Finish"
      BY FrameFacts DEF Places
    <3> QED
      BY <1>1, <2>2, <3>1, GotoMoves
  <2> QED
    BY <1>1, <2>1, <2>2 DEF Callback, AtTop
<1>4. F(t, d).at = "Callback" /\ F(t, d).op = o /\ F(t, d + 1) = NoFrame
  BY <1>1 DEF AtTop
<1>5. CASE o = op
  <2>1. lifecycle[op] \in Over
    BY <1>1, <1>5 DEF EndInv, Over
  <2>2. ~One("Callback", op)'
    BY <1>3, <1>4, <1>5, UniqueGone, NoFrameFacts DEF EndInv
  <2>3. CallsOf(op) = 0 /\ CallsOf(op)' = 1
    BY <1>1, <1>2, <1>5, <2>1, <2>2 DEF CallsOf
  <2> QED
    BY <1>2, <2>1, <2>3 DEF Promise!Next, Promise!CallBack, StatusOf, Over
<1>6. CASE o # op
  <2>1. One("Callback", op)' <=> One("Callback", op)
    BY <1>3, <1>4, <1>6, OneMoves, NoFrameFacts DEF On
  <2> QED
    BY <1>2, <2>1, SamePromise
<1> QED
  BY <1>5, <1>6

LEMMA FinishCompleteKeepsPromise ==
    ASSUME OpInv, NEW op \in Op, NEW t \in Thread, FinishComplete(t)
    PROVE  [Promise(op)!Next]_(Promise(op)!vars)
<1> USE DEF OpInv
<1>1. PICK d \in Nat, o \in Op : AtTop(t, d, "FinishComplete", o) /\ One("FinishComplete", o)
  BY TopFacts DEF FinishComplete
<1>2. /\ lifecycle[o] = "Completing" /\ lifecycle' = [lifecycle EXCEPT ![o] = "Completed"]
      /\ error_' = [error_ EXCEPT ![o] = Top(t).err] /\ Top(t).err \in Error
      /\ Call(t, Frame("Cleanup", o), Frame("Callback", o))
  BY <1>1 DEF FinishComplete, AtTop, Transition, EndInv, Frames
<1>3. /\ Frame("Cleanup", o) \in Frames /\ Frame("Cleanup", o).at = "Cleanup"
      /\ Frame("Callback", o) \in Frames /\ Frame("Callback", o).at = "Callback"
      /\ Frame("Callback", o).op = o
  BY FrameFacts DEF Places
<1>4. Moves(t, d, Frame("Cleanup", o), Frame("Callback", o)) /\ F(t, d + 1) = NoFrame /\ ~On(t, d, "Callback", o)
  BY <1>1, <1>2, <1>3, CallMoves DEF AtTop, On
<1>5. CASE o = op
  <2>1. lifecycle'[op] = "Completed" /\ error_'[op] \in Error
    BY <1>2, <1>5 DEF TypeInv
  <2>2. One("Callback", op)'
    BY <1>3, <1>4, <1>5, OneMoves
  <2>3. CallsOf(op) = 0 /\ CallsOf(op)' = 0
    BY <1>2, <1>5, <2>1, <2>2 DEF CallsOf, Over
  <2> QED
    BY <1>2, <1>5, <2>1, <2>3 DEF Promise!Next, Promise!Answer, StatusOf, Over
<1>6. CASE o # op
  <2>1. lifecycle'[op] = lifecycle[op] /\ error_'[op] = error_[op]
    BY <1>2, <1>6 DEF TypeInv
  <2>2. One("Callback", op)' <=> One("Callback", op)
    <3>1. At(t, "FinishComplete")
      BY DEF FinishComplete
    <3> QED
      BY <1>2, <1>3, <1>6, <3>1, CallbackMoves
  <2> QED
    BY <2>1, <2>2, SamePromise
<1> QED
  BY <1>5, <1>6

LEMMA ProceedKeepsPromise ==
    ASSUME OpInv, NEW op \in Op, NEW t \in Thread, Proceed(t)
    PROVE  [Promise(op)!Next]_(Promise(op)!vars)
<1> USE DEF OpInv
<1>1. SUFFICES ASSUME ~Callback(t), ~FinishComplete(t) PROVE [Promise(op)!Next]_(Promise(op)!vars)
  BY CallbackKeepsPromise, FinishCompleteKeepsPromise
<1>2. One("Callback", op)' <=> One("Callback", op)
  BY <1>1, QuietCallbacks
<1>3. CASE Start(t)
  <2>1. PICK d \in Nat, o \in Op : AtTop(t, d, "Start", o) /\ One("Start", o)
    BY <1>3, TopFacts DEF Start
  <2>2. /\ lifecycle[o] = "Created" /\ lifecycle' = [lifecycle EXCEPT ![o] = "Started"]
        /\ UNCHANGED error_
    BY <1>3, <2>1 DEF Start, AtTop, Transition, StartInv
  <2>3. CASE o = op
    <3>1. lifecycle'[op] = "Started"
      BY <2>2, <2>3 DEF TypeInv
    <3>2. CallsOf(op) = 0 /\ CallsOf(op)' = 0
      BY <2>2, <2>3, <3>1 DEF CallsOf, Over
    <3> QED
      BY <2>2, <2>3, <3>1, <3>2 DEF Promise!Next, Promise!Begin, StatusOf, Over
  <2>4. CASE o # op
    BY <1>2, <2>2, <2>4, SamePromise DEF TypeInv
  <2> QED
    BY <2>3, <2>4
<1>4. CASE Finish(t)
  <2>1. PICK d \in Nat, o \in Op : AtTop(t, d, "Finish", o) /\ One("Finish", o)
    BY <1>4, TopFacts DEF Finish
  <2>2. /\ lifecycle[o] = "Completed" /\ lifecycle' = [lifecycle EXCEPT ![o] = "Ended"]
        /\ UNCHANGED error_
    BY <1>4, <2>1 DEF Finish, AtTop, Transition, EndInv
  <2>3. CASE o = op
    <3>1. lifecycle'[op] = "Ended"
      BY <2>2, <2>3 DEF TypeInv
    <3>2. CallsOf(op)' = CallsOf(op)
      BY <1>2, <2>2, <2>3, <3>1 DEF CallsOf, Over
    <3> QED
      BY <2>2, <2>3, <3>1, <3>2 DEF Promise!Next, Promise!End, Promise!Tell, StatusOf, Over
  <2>4. CASE o # op
    BY <1>2, <2>2, <2>4, SamePromise DEF TypeInv
  <2> QED
    BY <2>3, <2>4
<1>5. CASE TryComplete(t)
  <2>1. PICK d \in Nat, o \in Op : AtTop(t, d, "TryComplete", o)
    BY <1>5, TopFacts DEF TryComplete
  <2>2. /\ \/ lifecycle[o] = "Started" /\ lifecycle' = [lifecycle EXCEPT ![o] = "Completing"]
           \/ lifecycle' = lifecycle
        /\ UNCHANGED error_
    BY <1>5, <2>1 DEF TryComplete, AtTop
  <2>3. CASE lifecycle[o] = "Started" /\ o = op /\ lifecycle' = [lifecycle EXCEPT ![op] = "Completing"]
    <3>1. lifecycle'[op] = "Completing"
      BY <2>3 DEF TypeInv
    <3>2. CallsOf(op)' = CallsOf(op)
      BY <2>3, <3>1 DEF CallsOf, Over
    <3> QED
      BY <2>2, <2>3, <3>1, <3>2 DEF Promise!vars, StatusOf, Over
  <2>4. CASE o # op \/ lifecycle' = lifecycle
    <3>1. lifecycle'[op] = lifecycle[op]
      BY <2>2, <2>4 DEF TypeInv
    <3> QED
      BY <1>2, <2>2, <3>1, SamePromise
  <2> QED
    BY <2>2, <2>3, <2>4
<1>6. CASE UNCHANGED <<lifecycle, error_>>
  BY <1>2, <1>6, SamePromise
<1>7. Start(t) \/ Finish(t) \/ TryComplete(t) \/ UNCHANGED <<lifecycle, error_>>
  BY <1>1 DEF Proceed, AttachChild, AttachPush, OnStart, StartReturns, Begin, Begun, Cleanup, DetachChild,
              Cancel, CancelCollect, CancelChild, CancelSignals, CancelCompletes, word
<1> QED
  BY <1>3, <1>4, <1>5, <1>6, <1>7

\* Work that is done and requests to cancel wait for nobody's callback.
LEMMA EnterKeepsPromise ==
    ASSUME OpInv, NEW op \in Op, NEW t \in Thread, WorkDone(t) \/ CallCancel(t)
    PROVE  UNCHANGED Promise(op)!vars
<1> USE DEF OpInv
<1>1. UNCHANGED <<lifecycle, error_>>
  BY DEF WorkDone, CallCancel, word
<1>2. stack[t] = <<>>
  BY DEF WorkDone, CallCancel, TypeInv
<1>3. PICK f \in Frames : stack' = [stack EXCEPT ![t] = <<f>>] /\ f.at # "Callback"
  <2>1. CASE WorkDone(t)
    <3>1. PICK o \in handedOver, e \in {"Success", "Failure"} :
             stack' = [stack EXCEPT ![t] = <<[Frame("TryComplete", o) EXCEPT !.err = e]>>]
      BY <2>1 DEF WorkDone
    <3>2. o \in Op /\ e \in Error /\ "TryComplete" \in Places
      BY DEF TypeInv, Error, Places
    <3> DEFINE f == [Frame("TryComplete", o) EXCEPT !.err = e]
    <3>3. f \in Frames /\ f.at = "TryComplete"
      BY <3>2, PutError
    <3>4. stack' = [stack EXCEPT ![t] = <<f>>]
      BY <3>1
    <3> HIDE DEF f
    <3> QED
      BY <3>3, <3>4
  <2>2. CASE CallCancel(t)
    <3>1. PICK o \in Targets \cap (onStarted \cup Host), force \in BOOLEAN :
             stack' = [stack EXCEPT ![t] = <<[Frame("Cancel", o) EXCEPT !.force = force]>>]
      BY <2>2 DEF CallCancel
    <3>2. o \in Op /\ "Cancel" \in Places
      BY TreeFacts DEF TypeInv, Places
    <3>3. /\ [Frame("Cancel", o) EXCEPT !.force = force] \in Frames
          /\ [Frame("Cancel", o) EXCEPT !.force = force].at = "Cancel"
      BY <3>2 DEF Frame, Frames, Error
    <3> QED
      BY <3>1, <3>3
  <2> QED
    BY <2>1, <2>2
<1>4. F(t, 1) = NoFrame /\ F(t, 2) = NoFrame /\ Moves(t, 1, f, NoFrame)
  BY <1>2, <1>3, BeginMoves
<1>5. One("Callback", op)' <=> One("Callback", op)
  BY <1>3, <1>4, OneMoves, NoFrameFacts DEF On
<1> QED
  BY <1>1, <1>5, SamePromise

(***************************************************************************)
(* Each operation keeps the promise of an asynchronous operation, in any   *)
(* tree and with any threads that cancel: it is answered once, its         *)
(* callback is called once, when the answer is there, and End tells that   *)
(* answer, which never changes, to the party that calls End.               *)
(***************************************************************************)
THEOREM OperationsKeepPromise == ASSUME NEW op \in Op PROVE Spec => Promise(op)!Spec
<1>1. Init => Promise(op)!Init
  BY DEF Init, InitMembers, Promise!Init, StatusOf, CallsOf, Over
<1>2. OpInv /\ ResultInv /\ [Next]_vars => [Promise(op)!Next]_(Promise(op)!vars)
  <2>1. SUFFICES ASSUME OpInv, [Next]_vars PROVE [Promise(op)!Next]_(Promise(op)!vars)
    OBVIOUS
  <2>2. CASE UNCHANGED vars
    <3>1. One("Callback", op)' <=> One("Callback", op)
      BY <2>2 DEF vars, One, On, F
    <3> QED
      BY <2>2, <3>1, SamePromise DEF vars, word
  <2> QED
    BY <2>1, <2>2, ProceedKeepsPromise, EnterKeepsPromise DEF Next
<1> QED
  BY <1>1, <1>2, OperationInvariant, PTL DEF Spec, Promise!Spec

-----------------------------------------------------------------------------
(***************************************************************************)
(* Children that are refused: only by a parent that was cancelled, since   *)
(* no parent is completed otherwise as long as it has children to begin.   *)
(***************************************************************************)
\* Some Start has learned from AttachChild that its operation was refused.
Turned(f) == f.attached = FALSE
Unattached == \E t \in Thread : \E i \in DOMAIN stack[t] : Turned(stack[t][i])

RefusedInv ==
    /\ \A c \in refused : HasParent(c) /\ cancelRequested[Parent(c)]
    /\ Unattached \/ "attach" \in asserts => refused # {}

LEMMA TopUnattached ==
    ASSUME TypeInv, NEW t \in Thread, stack[t] # <<>>, Turned(Top(t))
    PROVE  Unattached
BY DEF TypeInv, Top, Unattached

LEMMA GotoUnattached ==
    ASSUME TypeInv, NEW t \in Thread, stack[t] # <<>>, NEW f, Goto(t, f), Unattached'
    PROVE  Unattached \/ Turned(f)
<1>1. PICK u \in Thread : \E i \in DOMAIN stack'[u] : Turned(stack'[u][i])
  BY DEF Unattached
<1>2. stack[t] \in Seq(Frames) /\ stack' = [stack EXCEPT ![t] = <<f>> \o Tail(stack[t])]
  BY DEF TypeInv, Goto
<1>3. CASE u # t
  <2>1. stack'[u] = stack[u]
    BY <1>2, <1>3 DEF TypeInv
  <2> QED
    BY <1>1, <2>1 DEF Unattached
<1>4. CASE u = t
  <2>1. stack'[u] = <<f>> \o Tail(stack[t]) /\ Tail(stack[t]) \in Seq(Frames)
    BY <1>2, <1>4 DEF TypeInv
  <2>2. stack'[u][1] = f /\ \A j \in DOMAIN stack'[u] \ {1} : j \in DOMAIN stack[t] /\ stack'[u][j] = stack[t][j]
    BY <1>2, <2>1
  <2> QED
    BY <1>1, <2>2 DEF Unattached
<1> QED
  BY <1>3, <1>4

LEMMA CallUnattached ==
    ASSUME TypeInv, NEW t \in Thread, stack[t] # <<>>, NEW f, NEW g, Call(t, f, g), Unattached'
    PROVE  Unattached \/ Turned(f) \/ Turned(g)
<1>1. PICK u \in Thread : \E i \in DOMAIN stack'[u] : Turned(stack'[u][i])
  BY DEF Unattached
<1>2. stack[t] \in Seq(Frames) /\ stack' = [stack EXCEPT ![t] = <<g, f>> \o Tail(stack[t])]
  BY DEF TypeInv, Call
<1>3. CASE u # t
  <2>1. stack'[u] = stack[u]
    BY <1>2, <1>3 DEF TypeInv
  <2> QED
    BY <1>1, <2>1 DEF Unattached
<1>4. CASE u = t
  <2>1. stack'[u] = <<g, f>> \o Tail(stack[t]) /\ Tail(stack[t]) \in Seq(Frames)
    BY <1>2, <1>4 DEF TypeInv
  <2>2. /\ stack'[u][1] = g /\ stack'[u][2] = f
        /\ \A j \in DOMAIN stack'[u] \ {1, 2} : j - 1 \in DOMAIN stack[t] /\ stack'[u][j] = stack[t][j - 1]
    BY <1>2, <2>1
  <2> QED
    BY <1>1, <2>2 DEF Unattached
<1> QED
  BY <1>3, <1>4

LEMMA ReturnUnattached ==
    ASSUME TypeInv, NEW t \in Thread, stack[t] # <<>>, Return(t), Unattached'
    PROVE  Unattached
<1>1. PICK u \in Thread : \E i \in DOMAIN stack'[u] : Turned(stack'[u][i])
  BY DEF Unattached
<1>2. stack[t] \in Seq(Frames) /\ stack' = [stack EXCEPT ![t] = Tail(stack[t])]
  BY DEF TypeInv, Return
<1>3. CASE u # t
  <2>1. stack'[u] = stack[u]
    BY <1>2, <1>3 DEF TypeInv
  <2> QED
    BY <1>1, <2>1 DEF Unattached
<1>4. CASE u = t
  <2>1. stack'[u] = Tail(stack[t])
    BY <1>2, <1>4 DEF TypeInv
  <2>2. ASSUME NEW j \in DOMAIN stack'[u]
        PROVE  j + 1 \in DOMAIN stack[t] /\ stack'[u][j] = stack[t][j + 1]
    <3>1. Len(stack[t]) \in Nat \ {0} /\ DOMAIN Tail(stack[t]) = 1..(Len(stack[t]) - 1)
      BY <1>2
    <3>2. j \in 1..(Len(stack[t]) - 1)
      BY <2>1, <2>2, <3>1
    <3>3. Tail(stack[t])[j] = stack[t][j + 1]
      BY <1>2, <3>1, <3>2
    <3>4. DOMAIN stack[t] = 1..Len(stack[t])
      BY <1>2
    <3>5. j + 1 \in DOMAIN stack[t]
      BY <3>1, <3>2, <3>4
    <3> QED
      BY <2>1, <3>3, <3>5
  <2> QED
    BY <1>1, <2>2 DEF Unattached
<1> QED
  BY <1>3, <1>4

\* The frames that are put on the stack have the flag of the one they come from.
LEMMA NewFrames ==
    /\ \A at, op : ~Turned(Frame(at, op))
    /\ \A at, op, e : ~Turned([Frame(at, op) EXCEPT !.err = e])
BY DEF Turned, Frame

LEMMA ChangedFrames ==
    ASSUME NEW top \in Frames
    PROVE  /\ \A at : Turned([top EXCEPT !.at = at]) => Turned(top)
           /\ \A at, s : Turned(KidsFrame(top, at, s)) => Turned(top)
           /\ \A s : Turned([top EXCEPT !.kids = s]) => Turned(top)
BY DEF Turned, KidsFrame, Frames

\* All but AttachChild.
LEMMA ProceedUnattached ==
    ASSUME TypeInv, NEW t \in Thread, Proceed(t), ~AttachChild(t), Unattached'
    PROVE  Unattached
<1>1. stack[t] # <<>> /\ Top(t) \in Frames
  <2>1. stack[t] # <<>>
    BY DEF Proceed, Start, AttachPush, OnStart, StartReturns, Begin, Begun, Callback, Finish,
           TryComplete, FinishComplete, Cleanup, DetachChild, Cancel, CancelCollect,
           CancelChild, CancelSignals, CancelCompletes, At
  <2> QED
    BY <2>1 DEF TypeInv, Top
<1>2. Turned(Top(t)) => Unattached
  BY <1>1, TopUnattached
<1>3. CASE StartReturns(t) \/ DetachChild(t)
  <2>1. Return(t)
    BY <1>3 DEF StartReturns, DetachChild
  <2> QED
    BY <1>1, <2>1, ReturnUnattached
<1>4. CASE Start(t) \/ AttachPush(t) \/ Begun(t) \/ Callback(t) \/ Cleanup(t)
  <2>1. Return(t) \/ \E at, op : Goto(t, Frame(at, op))
    BY <1>4 DEF Start, AttachPush, Begun, Callback, Cleanup
  <2> QED
    BY <1>1, <2>1, ReturnUnattached, GotoUnattached, NewFrames
<1>5. CASE CancelSignals(t) \/ CancelCompletes(t)
  <2>1. Return(t) \/ \E at, op, e : Goto(t, [Frame(at, op) EXCEPT !.err = e])
    BY <1>5 DEF CancelSignals, CancelCompletes
  <2> QED
    BY <1>1, <2>1, ReturnUnattached, GotoUnattached, NewFrames
<1>6. CASE TryComplete(t) \/ Cancel(t)
  <2>1. Return(t) \/ \E at : Goto(t, [Top(t) EXCEPT !.at = at])
    BY <1>6 DEF TryComplete, Cancel
  <2> QED
    BY <1>1, <1>2, <2>1, ReturnUnattached, GotoUnattached, ChangedFrames
<1>7. CASE CancelCollect(t)
  <2>1. Goto(t, KidsFrame(Top(t), "CancelChildren", children_[Top(t).op]))
    BY <1>7 DEF CancelCollect, KidsFrame
  <2> QED
    BY <1>1, <1>2, <2>1, GotoUnattached, ChangedFrames
<1>8. CASE CancelChild(t)
  <2>1. PICK kid \in Top(t).kids : Call(t, [Top(t) EXCEPT !.kids = @ \ {kid}], Frame("Cancel", kid))
    BY <1>8 DEF CancelChild
  <2> QED
    BY <1>1, <1>2, <2>1, CallUnattached, ChangedFrames, NewFrames
<1>9. CASE Begin(t)
  <2>1. Call(t, [Top(t) EXCEPT !.at = "Begun"], Frame("Start", Top(t).op))
    BY <1>9 DEF Begin
  <2> QED
    BY <1>1, <1>2, <2>1, CallUnattached, ChangedFrames, NewFrames
<1>10. CASE FinishComplete(t)
  <2>1. \E op : Call(t, Frame("Cleanup", op), Frame("Callback", op))
    BY <1>10 DEF FinishComplete
  <2> QED
    BY <1>1, <2>1, CallUnattached, NewFrames
<1>11. CASE Finish(t)
  <2>1. \/ Return(t)
        \/ \E at, op : Goto(t, Frame(at, op))
        \/ \E at, op, e : Goto(t, [Frame(at, op) EXCEPT !.err = e])
    BY <1>11 DEF Finish
  <2> QED
    BY <1>1, <2>1, ReturnUnattached, GotoUnattached, NewFrames
<1>12. CASE OnStart(t)
  <2> DEFINE f == [Top(t) EXCEPT !.at = "StartReturns"]
  <2>1. Turned(f) => Unattached
    BY <1>1, <1>2, ChangedFrames
  <2>2. \/ Goto(t, f)
        \/ \E at, op : Call(t, f, Frame(at, op))
        \/ \E at, op, e : Call(t, f, [Frame(at, op) EXCEPT !.err = e])
    BY <1>12 DEF OnStart
  <2> HIDE DEF f
  <2> QED
    BY <1>1, <2>1, <2>2, CallUnattached, GotoUnattached, NewFrames
<1> QED
  BY <1>3, <1>4, <1>5, <1>6, <1>7, <1>8, <1>9, <1>10, <1>11, <1>12 DEF Proceed

LEMMA ProceedRefuses ==
    ASSUME OpInv, RefusedInv, NEW t \in Thread, Proceed(t)
    PROVE  RefusedInv'
<1> USE DEF OpInv
<1>1. CASE AttachChild(t)
  <2>1. PICK d \in Nat, op \in Op : AtTop(t, d, "Attach", op) /\ One("Attach", op)
    BY <1>1, TopFacts DEF AttachChild
  <2>2. lifecycle[op] = "Started" /\ HasParent(op) /\ Parent(op) \in Op /\ IsChild(op, Parent(op))
    BY <2>1, TreeFacts DEF StartInv, Attaching
  <2>3. Top(t).op = op /\ stack[t] # <<>>
    BY <2>1 DEF AtTop
  <2>4. CompletingOrCompleted(Parent(op)) => cancelRequested[Parent(op)]
    <3>1. CASE Parent(op) \in Host
      BY <2>2, <3>1 DEF StartInv, CompletingOrCompleted
    <3>2. CASE Parent(op) \notin Host
      <4>1. ~IsLeaf(Parent(op)) /\ ~Fresh(op) /\ lifecycle[op] # "Ended"
        BY <2>2, TreeFacts DEF Fresh
      <4>2. CompletingOrCompleted(Parent(op)) => MayComplete(Parent(op))
        BY <2>2, <3>2 DEF CompleteInv
      <4> QED
        BY <2>2, <4>1, <4>2 DEF MayComplete
    <3> QED
      BY <3>1, <3>2
  <2>5. UNCHANGED <<cancelRequested, asserts>>
    BY <1>1 DEF AttachChild, word
  <2>6. CASE refused' = refused \cup {op}
    BY <1>1, <2>2, <2>3, <2>4, <2>5, <2>6 DEF RefusedInv, AttachChild
  <2>7. CASE refused' = refused /\ Goto(t, Frame("AttachPush", op))
    BY <2>3, <2>5, <2>7, GotoUnattached, NewFrames DEF RefusedInv
  <2> QED
    BY <1>1, <2>3, <2>6, <2>7 DEF AttachChild
<1>2. CASE ~AttachChild(t)
  <2>1. Unattached' => Unattached
    BY <1>2, ProceedUnattached
  <2>2. refused' = refused
    BY <1>2 DEF Proceed, Start, AttachPush, OnStart, StartReturns, Begin, Begun, Callback, Finish,
           TryComplete, FinishComplete, Cleanup, DetachChild, Cancel, CancelCollect,
           CancelChild, CancelSignals, CancelCompletes, history
  <2>3. \A op \in Op : cancelRequested[op] => cancelRequested'[op]
    <3>1. CASE Cancel(t)
      BY <3>1 DEF Cancel, TypeInv
    <3>2. CASE ~Cancel(t)
      BY <1>2, <3>2 DEF Proceed, Start, AttachPush, OnStart, StartReturns, Begin, Begun, Callback,
             Finish, TryComplete, FinishComplete, Cleanup, DetachChild, CancelCollect,
             CancelChild, CancelSignals, CancelCompletes, Transition, word
    <3> QED
      BY <3>1, <3>2
  <2>4. "attach" \in asserts' => "attach" \in asserts \/ Unattached
    <3>1. CASE StartReturns(t)
      <4>1. Top(t).attached \in BOOLEAN /\ stack[t] # <<>>
        BY <3>1, TopFacts DEF StartReturns, AtTop, Frames
      <4>2. Top(t).attached = TRUE => asserts' = asserts
        BY <3>1 DEF StartReturns
      <4>3. Top(t).attached = FALSE => Unattached
        BY <4>1, TopUnattached DEF Turned
      <4> QED
        BY <4>1, <4>2, <4>3
    <3>2. CASE ~StartReturns(t)
      BY <1>2, <3>2 DEF Proceed, Start, AttachPush, OnStart, Begin, Begun, Callback,
             Finish, TryComplete, FinishComplete, Cleanup, DetachChild, Cancel, CancelCollect,
             CancelChild, CancelSignals, CancelCompletes, Transition
    <3> QED
      BY <3>1, <3>2
  <2>5. \A c \in refused : HasParent(c) => Parent(c) \in Op
    BY TreeFacts DEF TypeInv
  <2> QED
    BY <2>1, <2>2, <2>3, <2>4, <2>5 DEF RefusedInv
<1> QED
  BY <1>1, <1>2

\* A thread that has nothing to do puts a frame of its own on its stack.
LEMMA EnterRefuses ==
    ASSUME RefusedInv, NEW t \in Thread, NEW f, stack' = [stack EXCEPT ![t] = <<f>>],
           TypeInv, ~Turned(f), UNCHANGED <<refused, asserts, cancelRequested>>
    PROVE  RefusedInv'
<1>1. Unattached' => Unattached
  BY DEF TypeInv, Unattached
<1> QED
  BY <1>1 DEF RefusedInv

LEMMA NextRefuses ==
    ASSUME OpInv, RefusedInv, [Next]_vars
    PROVE  RefusedInv'
<1> USE DEF OpInv
<1>1. ASSUME NEW t \in Thread, WorkDone(t)
      PROVE  RefusedInv'
  <2>1. PICK op \in handedOver, e \in {"Success", "Failure"} :
           stack' = [stack EXCEPT ![t] = <<[Frame("TryComplete", op) EXCEPT !.err = e]>>]
    BY <1>1 DEF WorkDone
  <2> QED
    BY <1>1, <2>1, EnterRefuses, NewFrames DEF WorkDone, word, history
<1>2. ASSUME NEW t \in Thread, CallCancel(t)
      PROVE  RefusedInv'
  <2>1. PICK op \in Targets, force \in BOOLEAN :
           stack' = [stack EXCEPT ![t] = <<[Frame("Cancel", op) EXCEPT !.force = force]>>]
    BY <1>2 DEF CallCancel
  <2>2. ~Turned([Frame("Cancel", op) EXCEPT !.force = force])
    BY DEF Turned, Frame
  <2> QED
    BY <1>2, <2>1, <2>2, EnterRefuses DEF CallCancel, word, history
<1>3. CASE UNCHANGED vars
  BY <1>3 DEF vars, word, history, RefusedInv, Unattached
<1> QED
  BY <1>1, <1>2, <1>3, ProceedRefuses DEF Next

(***************************************************************************)
(* For any tree: a child is refused, and Start runs into its assert(false),*)
(* only after a Cancel of its parent.                                      *)
(***************************************************************************)
THEOREM RefusedAlwaysAfterCancel == Spec => []RefusedOnlyAfterCancel
<1>1. Init => RefusedInv
  <2>1. Init => ~Unattached
    <3> SUFFICES ASSUME Init PROVE ~Unattached
      OBVIOUS
    <3>1. \A t \in Thread : stack[t] = IF t = User THEN <<Frame("Begin", Root)>> ELSE <<>>
      BY DEF Init, FirstCall
    <3> QED
      BY <3>1, NewFrames DEF Unattached
  <2> QED
    BY <2>1 DEF Init, InitMembers, RefusedInv
<1>2. OpInv /\ RefusedInv /\ [Next]_vars => RefusedInv'
  BY NextRefuses
<1>3. RefusedInv => RefusedOnlyAfterCancel
  BY DEF RefusedInv, RefusedOnlyAfterCancel
<1> QED
  BY <1>1, <1>2, <1>3, OperationInvariant, PTL DEF Spec
=============================================================================
