------------------------ MODULE SfAsyncOperationProofs ------------------------
(***************************************************************************)
(* Proofs about sf::AsyncOperation, for any tree of operations and any     *)
(* number of threads that cancel them.                                     *)
(***************************************************************************)
EXTENDS SfAsyncOperation, TLAPS

States == {"idle", "started", "cancelling", "cancelled", "completed"}
Errors == {"ok", "failure", "canceled"}

\* The places where a thread begins, completes or calls back an operation are the
\* innermost of its stack; those it comes back to are below them.
Tokens == {"Start", "OnStart", "Complete", "Completed", "Callback"}
Deep == {"StartReturns", "CancelledChild", "Cancelling"}
Holders == {"Completed", "CancelledChild"}
Places == Tokens \cup Deep \cup {"Cancel", "OnCancel", "CancelDetach"}
Frames == [at : Places, op : Op, ec : Errors]

TypeInv ==
    /\ state_ \in [Op -> States]
    /\ child_ \in [Op -> Op \cup {Nobody}]
    /\ mtx_ \in [Op -> Thread \cup {Nobody}]
    /\ ec_ \in [Op -> Errors]
    /\ parent_ \subseteq Children
    /\ stack \in [Thread -> Seq(Frames)]
    /\ handedOver \subseteq Children
    /\ fresh \subseteq Cancellers
    /\ \A t \in fresh : stack[t] = <<>>
    /\ callbacks \in [Op -> {0, 1}]

DeepInv == \A t \in Thread : \A i \in 2..Len(stack[t]) : stack[t][i].at \in Deep

\* The frame i of thread t has the lock of op across its steps.
Hold(t, i, op) == stack[t][i].at \in Holders /\ stack[t][i].op = op

HoldInv ==
    \A t \in Thread, op \in Op : \A i \in DOMAIN stack[t] : Hold(t, i, op) =>
        /\ mtx_[op] = t /\ state_[op] = "started"
        /\ \A j \in DOMAIN stack[t] : Hold(t, j, op) => i = j

\* Thread t is at this place of op.
In(t, at, op) == stack[t] # <<>> /\ stack[t][1].at = at /\ stack[t][1].op = op

\* Nobody has begun op, or is about to.
Fresh(op) == state_[op] = "idle" /\ \A t \in Thread : ~In(t, "Start", op)

\* Each operation is begun once and called back once.
TokenInv ==
    /\ \A t \in Thread, op \in Op :
          /\ In(t, "Start", op) => state_[op] = "idle"
          /\ In(t, "OnStart", op) => state_[op] # "idle"
          /\ In(t, "Complete", op) \/ In(t, "Completed", op) => op \in Children
          /\ In(t, "Callback", op) => op \in Children /\ state_[op] = "completed" /\ callbacks[op] = 0
    /\ \A t, u \in Thread, op \in Op :
          /\ In(t, "Start", op) /\ In(u, "Start", op) => t = u
          /\ In(t, "OnStart", op) /\ In(u, "OnStart", op) => t = u
          /\ In(t, "Callback", op) /\ In(u, "Callback", op) => t = u
    /\ \A op \in Op :
          /\ callbacks[op] = 1 => state_[op] = "completed"
          /\ state_[op] = "completed" => callbacks[op] = 1 \/ \E t \in Thread : In(t, "Callback", op)

\* An operation begins its children one after the other, from its OnStart on.
OrderInv ==
    /\ \A p, c \in Op :
          /\ IsChild(c, p)
          /\ state_[p] = "idle" \/ \E t \in Thread : In(t, "OnStart", p)
          => Fresh(c)
    /\ \A p \in Op \ {Root} : \A i, j \in DOMAIN Steps[p] :
          i < j /\ ~Fresh(Steps[p][j]) => callbacks[Steps[p][i]] = 1

\* The user begins the root and its children.
UserInv ==
    /\ state_[Root] = "idle" => In(User, "Start", Root)
    /\ \A t \in Thread : In(t, "OnStart", Root) => t = User
    /\ \A t \in Thread, op \in Op : In(t, "Start", op) /\ IsChild(op, Root) => t = User

SfInv == TypeInv /\ DeepInv /\ HoldInv /\ TokenInv /\ OrderInv /\ UserInv
-----------------------------------------------------------------------------
LEMMA TreeFacts ==
    /\ User \in Thread /\ Worker \in Thread /\ Cancellers \subseteq Thread
    /\ User \notin Cancellers /\ Worker \notin Cancellers
    /\ Nobody \notin Thread /\ Nobody \notin Op
    /\ Root \in Op /\ Children = Op \ {Root} /\ Targets \subseteq Op
    /\ \A p \in Op : Steps[p] \in Seq(Op)
    /\ \A c \in Op : IsLeaf(c) => c \in Children
    /\ \A c \in Children : Parent(c) \in Op /\ IsChild(c, Parent(c))
    /\ \A c, p, q \in Op : IsChild(c, p) /\ IsChild(c, q) => p = q
<1>1. \A c \in Children : Parent(c) \in Op /\ IsChild(c, Parent(c))
  BY DEF Children, Parent
<1>2. \A c \in Op : IsLeaf(c) => c \in Children
  BY OperationsAssumption DEF IsLeaf
<1> QED
  BY <1>1, <1>2, OperationsAssumption, ThreadsAssumption DEF Thread

\* What the moves of a thread do to its stack.
LEMMA GotoStack ==
    ASSUME TypeInv, NEW t \in Thread, stack[t] # <<>>, NEW f \in Frames, Goto(t, f)
    PROVE  /\ stack' \in [Thread -> Seq(Frames)]
           /\ \A u \in Thread \ {t} : stack'[u] = stack[u]
           /\ stack'[t] # <<>> /\ stack'[t][1] = f
           /\ Len(stack'[t]) = Len(stack[t])
           /\ \A i \in 2..Len(stack[t]) : stack'[t][i] = stack[t][i]
<1> DEFINE s == stack[t]
<1>1. s \in Seq(Frames) /\ Tail(s) \in Seq(Frames) /\ Len(s) \in Nat /\ Len(s) >= 1
  BY DEF TypeInv
<1>2. stack' = [stack EXCEPT ![t] = <<f>> \o Tail(s)]
  BY DEF Goto
<1>3. <<f>> \o Tail(s) \in Seq(Frames)
  BY <1>1
<1>4. Len(<<f>> \o Tail(s)) = Len(s) /\ (<<f>> \o Tail(s))[1] = f
  BY <1>1
<1>5. \A i \in 2..Len(s) : (<<f>> \o Tail(s))[i] = s[i]
  BY <1>1
<1> QED
  BY <1>1, <1>2, <1>3, <1>4, <1>5 DEF TypeInv

LEMMA CallStack ==
    ASSUME TypeInv, NEW t \in Thread, stack[t] # <<>>, NEW f \in Frames, NEW callee \in Frames,
           Call(t, f, callee)
    PROVE  /\ stack' \in [Thread -> Seq(Frames)]
           /\ \A u \in Thread \ {t} : stack'[u] = stack[u]
           /\ stack'[t] # <<>> /\ stack'[t][1] = callee /\ stack'[t][2] = f
           /\ Len(stack'[t]) = Len(stack[t]) + 1
           /\ \A i \in 3..(Len(stack[t]) + 1) : stack'[t][i] = stack[t][i - 1]
<1> DEFINE s == stack[t]
<1>1. s \in Seq(Frames) /\ Tail(s) \in Seq(Frames) /\ Len(s) \in Nat /\ Len(s) >= 1
  BY DEF TypeInv
<1>2. stack' = [stack EXCEPT ![t] = <<callee, f>> \o Tail(s)]
  BY DEF Call
<1>3. <<callee, f>> \o Tail(s) \in Seq(Frames)
  BY <1>1
<1>4. /\ Len(<<callee, f>> \o Tail(s)) = Len(s) + 1
      /\ (<<callee, f>> \o Tail(s))[1] = callee /\ (<<callee, f>> \o Tail(s))[2] = f
  BY <1>1
<1>5. \A i \in 3..(Len(s) + 1) : (<<callee, f>> \o Tail(s))[i] = s[i - 1]
  BY <1>1
<1> QED
  BY <1>1, <1>2, <1>3, <1>4, <1>5 DEF TypeInv

LEMMA ReturnStack ==
    ASSUME TypeInv, NEW t \in Thread, stack[t] # <<>>, Return(t)
    PROVE  /\ stack' \in [Thread -> Seq(Frames)]
           /\ \A u \in Thread \ {t} : stack'[u] = stack[u]
           /\ Len(stack'[t]) = Len(stack[t]) - 1
           /\ stack'[t] # <<>> => Len(stack[t]) >= 2
           /\ \A i \in 1..(Len(stack[t]) - 1) : stack'[t][i] = stack[t][i + 1]
<1> DEFINE s == stack[t]
<1>1. s \in Seq(Frames) /\ Tail(s) \in Seq(Frames) /\ Len(s) \in Nat /\ Len(s) >= 1
  BY DEF TypeInv
<1>2. stack' = [stack EXCEPT ![t] = Tail(s)]
  BY DEF Return
<1>3. Len(Tail(s)) = Len(s) - 1 /\ \A i \in 1..(Len(s) - 1) : Tail(s)[i] = s[i + 1]
  BY <1>1
<1>4. Tail(s) # <<>> => Len(s) >= 2
  BY <1>1, <1>3
<1> QED
  BY <1>1, <1>2, <1>3, <1>4 DEF TypeInv
-----------------------------------------------------------------------------
(***************************************************************************)
(* What the moves of a thread do to the locks and to the places.           *)
(***************************************************************************)

\* The locks held in other frames than the innermost of t are left alone.
OthersHold(t) ==
    \A u \in Thread, op \in Op : \A i \in DOMAIN stack[u] :
        Hold(u, i, op) /\ (u # t \/ i # 1) => mtx_'[op] = mtx_[op] /\ state_'[op] = state_[op]

LEMMA GotoKeeps ==
    ASSUME TypeInv, DeepInv, HoldInv, NEW t \in Thread, stack[t] # <<>>, NEW f \in Frames, Goto(t, f),
           f.at \notin Holders, OthersHold(t)
    PROVE  /\ stack' \in [Thread -> Seq(Frames)] /\ DeepInv' /\ HoldInv'
           /\ \A u \in Thread \ {t} : stack'[u] = stack[u]
           /\ \A at, op : In(t, at, op)' <=> at = f.at /\ op = f.op
           /\ \A u \in Thread \ {t} : \A at, op : In(u, at, op)' <=> In(u, at, op)
<1> USE GotoStack
<1>1. \A u \in Thread : stack[u] \in Seq(Frames) /\ stack'[u] \in Seq(Frames) /\ Len(stack[u]) \in Nat
  BY DEF TypeInv
<1>2. DeepInv'
  BY <1>1 DEF DeepInv
<1>3. ASSUME NEW u \in Thread, NEW op \in Op, NEW i \in DOMAIN stack'[u], Hold(u, i, op)'
      PROVE  i \in DOMAIN stack[u] /\ Hold(u, i, op) /\ (u # t \/ i # 1)
  BY <1>1, <1>3 DEF Hold
<1>4. HoldInv'
  BY <1>3 DEF HoldInv, OthersHold
<1> QED
  BY <1>1, <1>2, <1>4 DEF In

LEMMA CallKeeps ==
    ASSUME TypeInv, DeepInv, HoldInv, NEW t \in Thread, stack[t] # <<>>, NEW f \in Frames,
           NEW callee \in Frames, Call(t, f, callee),
           f.at \in Deep \ Holders, callee.at \notin Holders, OthersHold(t)
    PROVE  /\ stack' \in [Thread -> Seq(Frames)] /\ DeepInv' /\ HoldInv'
           /\ \A u \in Thread \ {t} : stack'[u] = stack[u]
           /\ \A at, op : In(t, at, op)' <=> at = callee.at /\ op = callee.op
           /\ \A u \in Thread \ {t} : \A at, op : In(u, at, op)' <=> In(u, at, op)
<1> USE CallStack
<1>1. \A u \in Thread : stack[u] \in Seq(Frames) /\ stack'[u] \in Seq(Frames) /\ Len(stack[u]) \in Nat
  BY DEF TypeInv
<1>2. DeepInv'
  <2>1. ASSUME NEW i \in 2..Len(stack'[t])
        PROVE  stack'[t][i].at \in Deep
    <3>1. i \in Int /\ i >= 2 /\ i <= Len(stack[t]) + 1 /\ Len(stack[t]) \in Nat
      BY <1>1
    <3>2. CASE i = 2
      BY <3>2
    <3>3. CASE i # 2
      <4>1. i \in 3..(Len(stack[t]) + 1) /\ i - 1 \in 2..Len(stack[t])
        BY <3>1, <3>3
      <4> QED
        BY <4>1 DEF DeepInv
    <3> QED
      BY <3>2, <3>3
  <2> QED
    BY <2>1 DEF DeepInv
<1>3. ASSUME NEW u \in Thread \ {t}, NEW op \in Op, NEW i \in DOMAIN stack'[u], Hold(u, i, op)'
      PROVE  i \in DOMAIN stack[u] /\ Hold(u, i, op)
  BY <1>1, <1>3 DEF Hold
<1>4. ASSUME NEW op \in Op, NEW i \in DOMAIN stack'[t], Hold(t, i, op)'
      PROVE  i - 1 \in DOMAIN stack[t] /\ Hold(t, i - 1, op) /\ i - 1 # 1
  <2>1. i \in 1..Len(stack'[t]) /\ stack'[t][i].at \in Holders /\ stack'[t][i].op = op
    BY <1>1, <1>4 DEF Hold
  <2>2. i # 1 /\ i # 2
    BY <2>1
  <2>3. i \in 3..(Len(stack[t]) + 1) /\ i - 1 \in 1..Len(stack[t]) /\ i - 1 # 1
    BY <1>1, <2>1, <2>2
  <2>4. stack'[t][i] = stack[t][i - 1]
    BY <2>3
  <2> QED
    BY <1>1, <2>1, <2>3, <2>4 DEF Hold
<1>5. HoldInv'
  <2>1. ASSUME NEW op \in Op, NEW i \in DOMAIN stack'[t], Hold(t, i, op)'
        PROVE  /\ mtx_'[op] = t /\ state_'[op] = "started"
               /\ \A j \in DOMAIN stack'[t] : Hold(t, j, op)' => i = j
    <3>1. mtx_[op] = t /\ state_[op] = "started" /\ mtx_'[op] = mtx_[op] /\ state_'[op] = state_[op]
      BY <1>4, <2>1 DEF HoldInv, OthersHold
    <3>2. ASSUME NEW j \in DOMAIN stack'[t], Hold(t, j, op)'
          PROVE  i = j
      <4>1. i - 1 = j - 1
        BY <1>4, <2>1, <3>2 DEF HoldInv
      <4>2. i \in Int /\ j \in Int
        BY <1>1
      <4> QED
        BY <4>1, <4>2
    <3> QED
      BY <3>1, <3>2
  <2>2. ASSUME NEW u \in Thread \ {t}, NEW op \in Op, NEW i \in DOMAIN stack'[u], Hold(u, i, op)'
        PROVE  /\ mtx_'[op] = u /\ state_'[op] = "started"
               /\ \A j \in DOMAIN stack'[u] : Hold(u, j, op)' => i = j
    BY <1>3, <2>2 DEF HoldInv, OthersHold
  <2> QED
    BY <2>1, <2>2 DEF HoldInv
<1> QED
  BY <1>1, <1>2, <1>5 DEF In

LEMMA ReturnKeeps ==
    ASSUME TypeInv, DeepInv, HoldInv, NEW t \in Thread, stack[t] # <<>>, Return(t), OthersHold(t)
    PROVE  /\ stack' \in [Thread -> Seq(Frames)] /\ DeepInv' /\ HoldInv'
           /\ \A u \in Thread \ {t} : stack'[u] = stack[u]
           /\ \A at \in Tokens : \A op : ~In(t, at, op)'
           /\ \A u \in Thread \ {t} : \A at, op : In(u, at, op)' <=> In(u, at, op)
<1> USE ReturnStack
<1>1. \A u \in Thread : stack[u] \in Seq(Frames) /\ stack'[u] \in Seq(Frames) /\ Len(stack[u]) \in Nat
  BY DEF TypeInv
<1>2. DeepInv'
  <2>1. ASSUME NEW i \in 2..Len(stack'[t])
        PROVE  stack'[t][i].at \in Deep
    <3>1. i \in 1..(Len(stack[t]) - 1) /\ i + 1 \in 2..Len(stack[t])
      BY <1>1
    <3> QED
      BY <3>1 DEF DeepInv
  <2> QED
    BY <2>1 DEF DeepInv
<1>3. ASSUME NEW u \in Thread \ {t}, NEW op \in Op, NEW i \in DOMAIN stack'[u], Hold(u, i, op)'
      PROVE  i \in DOMAIN stack[u] /\ Hold(u, i, op)
  BY <1>1, <1>3 DEF Hold
<1>4. ASSUME NEW op \in Op, NEW i \in DOMAIN stack'[t], Hold(t, i, op)'
      PROVE  i + 1 \in DOMAIN stack[t] /\ Hold(t, i + 1, op) /\ i + 1 # 1
  <2>1. i \in 1..(Len(stack[t]) - 1) /\ i + 1 \in 1..Len(stack[t]) /\ i + 1 # 1
    BY <1>1, <1>4
  <2> QED
    BY <1>1, <1>4, <2>1 DEF Hold
<1>5. HoldInv'
  <2>1. ASSUME NEW op \in Op, NEW i \in DOMAIN stack'[t], Hold(t, i, op)'
        PROVE  /\ mtx_'[op] = t /\ state_'[op] = "started"
               /\ \A j \in DOMAIN stack'[t] : Hold(t, j, op)' => i = j
    <3>1. mtx_[op] = t /\ state_[op] = "started" /\ mtx_'[op] = mtx_[op] /\ state_'[op] = state_[op]
      BY <1>4, <2>1 DEF HoldInv, OthersHold
    <3>2. ASSUME NEW j \in DOMAIN stack'[t], Hold(t, j, op)'
          PROVE  i = j
      <4>1. i + 1 = j + 1
        BY <1>4, <2>1, <3>2 DEF HoldInv
      <4>2. i \in Int /\ j \in Int
        BY <1>1
      <4> QED
        BY <4>1, <4>2
    <3> QED
      BY <3>1, <3>2
  <2>2. ASSUME NEW u \in Thread \ {t}, NEW op \in Op, NEW i \in DOMAIN stack'[u], Hold(u, i, op)'
        PROVE  /\ mtx_'[op] = u /\ state_'[op] = "started"
               /\ \A j \in DOMAIN stack'[u] : Hold(u, j, op)' => i = j
    BY <1>3, <2>2 DEF HoldInv, OthersHold
  <2> QED
    BY <2>1, <2>2 DEF HoldInv
<1>6. ASSUME stack'[t] # <<>>
      PROVE  stack'[t][1].at \in Deep
  BY <1>1, <1>6 DEF DeepInv
<1> QED
  BY <1>1, <1>2, <1>5, <1>6 DEF In, Tokens, Deep
-----------------------------------------------------------------------------
LEMMA TopFacts ==
    ASSUME TypeInv, NEW t \in Thread, NEW at, At(t, at)
    PROVE  /\ stack[t] # <<>> /\ Top(t) \in Frames /\ Top(t).op \in Op /\ Top(t).at = at
           /\ Top(t) = stack[t][1]
           /\ \A x, op : In(t, x, op) <=> x = at /\ op = Top(t).op
<1>1. stack[t] \in Seq(Frames) /\ stack[t] # <<>>
  BY DEF TypeInv, At
<1>2. Top(t) = stack[t][1] /\ Top(t) \in Frames
  BY <1>1 DEF Top
<1> QED
  BY <1>1, <1>2 DEF At, Top, Frames, In

LEMMA FrameFacts ==
    ASSUME NEW at \in Places, NEW op \in Op
    PROVE  /\ Frame(at, op) \in Frames /\ Frame(at, op).at = at /\ Frame(at, op).op = op
           /\ \A ec \in Errors : LET f == [Frame(at, op) EXCEPT !.ec = ec]
                                 IN  f \in Frames /\ f.at = at /\ f.op = op
BY DEF Frame, Frames, Errors

\* The types, when only t has moved.
LEMMA TypesKeep ==
    ASSUME TypeInv, NEW t \in Thread, stack[t] # <<>>,
           stack' \in [Thread -> Seq(Frames)],
           \A u \in Thread \ {t} : stack'[u] = stack[u],
           state_' \in [Op -> States], child_' \in [Op -> Op \cup {Nobody}],
           mtx_' \in [Op -> Thread \cup {Nobody}], ec_' \in [Op -> Errors], parent_' \subseteq Children,
           handedOver' \subseteq Children, fresh' = fresh, callbacks' \in [Op -> {0, 1}]
    PROVE  TypeInv'
<1>1. ASSUME NEW u \in fresh'
      PROVE  stack'[u] = <<>>
  <2>1. stack[u] = <<>> /\ u \in Thread
    BY TreeFacts DEF TypeInv
  <2> QED
    BY <2>1
<1>2. fresh' \subseteq Cancellers
  BY DEF TypeInv
<1> QED
  BY <1>1, <1>2 DEF TypeInv

\* A step of t that neither begins nor calls back anything.
Quiet(t) ==
    /\ \A u \in Thread \ {t} : \A at, op : In(u, at, op)' <=> In(u, at, op)
    /\ \A at \in {"Start", "Callback"}, op \in Op : ~In(t, at, op) /\ ~In(t, at, op)'
    /\ \A op \in Op : ~In(t, "OnStart", op)'
    /\ \A at \in {"Complete", "Completed"}, op \in Op : In(t, at, op)' => op \in Children
    /\ callbacks' = callbacks
    /\ \A op \in Op : \/ state_'[op] = state_[op]
                      \/ {state_[op], state_'[op]} \subseteq {"started", "cancelling", "cancelled"}

LEMMA QuietKeeps ==
    ASSUME TokenInv, OrderInv, UserInv, NEW t \in Thread, Quiet(t)
    PROVE  TokenInv' /\ OrderInv' /\ UserInv'
<1>1. \A u \in Thread, op \in Op :
        /\ In(u, "Start", op)' <=> In(u, "Start", op)
        /\ In(u, "Callback", op)' <=> In(u, "Callback", op)
        /\ In(u, "OnStart", op)' => In(u, "OnStart", op)
  BY DEF Quiet
<1>2. \A op \in Op : /\ state_'[op] = "idle" <=> state_[op] = "idle"
                     /\ state_'[op] = "completed" <=> state_[op] = "completed"
  BY DEF Quiet
<1>3. \A op \in Op : Fresh(op)' <=> Fresh(op)
  BY <1>1, <1>2 DEF Fresh
<1>4. TokenInv'
  <2>1. \A u \in Thread, op \in Op : In(u, "Complete", op)' \/ In(u, "Completed", op)' => op \in Children
    BY DEF Quiet, TokenInv
  <2>2. callbacks' = callbacks
    BY DEF Quiet
  <2> QED
    BY <1>1, <1>2, <2>1, <2>2 DEF TokenInv
<1>5. OrderInv'
  <2>1. \A p \in Op \ {Root} : \A i \in DOMAIN Steps[p] : Steps[p][i] \in Op
    BY TreeFacts
  <2>2. callbacks' = callbacks
    BY DEF Quiet
  <2> QED
    BY <1>1, <1>2, <1>3, <2>1, <2>2 DEF OrderInv
<1>6. UserInv'
  BY <1>1, <1>2, TreeFacts DEF UserInv
<1> QED
  BY <1>4, <1>5, <1>6

\* With the lock of op free, nobody holds it.
LEMMA FreeIsNotHeld ==
    ASSUME HoldInv, NEW op \in Op, Free(op), NEW t \in Thread, NEW i \in DOMAIN stack[t]
    PROVE  ~Hold(t, i, op)
BY TreeFacts DEF HoldInv, Free
-----------------------------------------------------------------------------
LEMMA StartReturnsKeeps ==
    ASSUME SfInv, NEW t \in Thread, StartReturns(t)
    PROVE  SfInv'
<1> USE DEF SfInv
<1>1. At(t, "StartReturns") /\ Return(t)
      /\ UNCHANGED <<state_, child_, mtx_, ec_, parent_, user, callbacks>>
  BY DEF StartReturns
<1>2. stack[t] # <<>> /\ \A x, op : In(t, x, op) <=> x = "StartReturns" /\ op = Top(t).op
  BY <1>1, TopFacts
<1>3. OthersHold(t)
  BY <1>1 DEF OthersHold
<1>4. /\ stack' \in [Thread -> Seq(Frames)] /\ DeepInv' /\ HoldInv'
      /\ \A u \in Thread \ {t} : stack'[u] = stack[u]
      /\ \A at \in Tokens : \A op : ~In(t, at, op)'
      /\ \A u \in Thread \ {t} : \A at, op : In(u, at, op)' <=> In(u, at, op)
  BY <1>1, <1>2, <1>3, ReturnKeeps
<1>5. TypeInv'
  BY <1>1, <1>2, <1>4, TypesKeep DEF TypeInv, user
<1>6. Quiet(t)
  BY <1>1, <1>2, <1>4 DEF Quiet, Tokens
<1> QED
  BY <1>4, <1>5, <1>6, QuietKeeps

LEMMA CompleteKeeps ==
    ASSUME SfInv, NEW t \in Thread, Complete(t)
    PROVE  SfInv'
<1> USE DEF SfInv
<1> DEFINE op == Top(t).op
           f == [Top(t) EXCEPT !.at = "Completed"]
<1>1. /\ At(t, "Complete") /\ Free(op)
      /\ UNCHANGED <<state_, child_, completedSynchronously_, parent_, user, callbacks>>
  BY DEF Complete
<1>2. /\ stack[t] # <<>> /\ Top(t) \in Frames /\ op \in Op /\ Top(t) = stack[t][1]
      /\ \A x, o : In(t, x, o) <=> x = "Complete" /\ o = op
  BY <1>1, TopFacts
<1>3. op \in Children
  BY <1>2 DEF TokenInv
<1>4. ec_' \in [Op -> Errors]
  BY <1>2 DEF Complete, TypeInv, Frames, Errors
<1>5. CASE Return(t) /\ mtx_' = mtx_
  <2>1. OthersHold(t)
    BY <1>1, <1>5 DEF OthersHold
  <2>2. /\ stack' \in [Thread -> Seq(Frames)] /\ DeepInv' /\ HoldInv'
        /\ \A u \in Thread \ {t} : stack'[u] = stack[u]
        /\ \A at \in Tokens : \A o : ~In(t, at, o)'
        /\ \A u \in Thread \ {t} : \A at, o : In(u, at, o)' <=> In(u, at, o)
    BY <1>2, <1>5, <2>1, ReturnKeeps
  <2>3. TypeInv'
    BY <1>1, <1>2, <1>4, <1>5, <2>2, TypesKeep DEF TypeInv, user
  <2>4. Quiet(t)
    BY <1>1, <1>2, <2>2 DEF Quiet, Tokens
  <2> QED
    BY <2>2, <2>3, <2>4, QuietKeeps
<1>6. CASE state_[op] = "started" /\ mtx_' = [mtx_ EXCEPT ![op] = t] /\ Goto(t, f)
  <2>1. f \in Frames /\ f.at = "Completed" /\ f.op = op
    BY <1>2 DEF Frames, Places, Tokens
  <2>2. /\ stack' \in [Thread -> Seq(Frames)]
        /\ \A u \in Thread \ {t} : stack'[u] = stack[u]
        /\ stack'[t] # <<>> /\ stack'[t][1] = f
        /\ Len(stack'[t]) = Len(stack[t])
        /\ \A i \in 2..Len(stack[t]) : stack'[t][i] = stack[t][i]
    BY <1>2, <1>6, <2>1, GotoStack
  <2>3. \A u \in Thread : stack[u] \in Seq(Frames) /\ stack'[u] \in Seq(Frames) /\ Len(stack[u]) \in Nat
    BY <2>2 DEF TypeInv
  <2>4. DeepInv'
    BY <2>2, <2>3 DEF DeepInv
  <2>5. HoldInv'
    <3>1. ASSUME NEW u \in Thread, NEW o \in Op, NEW i \in DOMAIN stack'[u], Hold(u, i, o)',
                 u # t \/ i # 1
          PROVE  i \in DOMAIN stack[u] /\ Hold(u, i, o) /\ o # op /\ mtx_'[o] = mtx_[o]
      <4>1. i \in DOMAIN stack[u] /\ stack'[u][i] = stack[u][i]
        BY <2>2, <2>3, <3>1
      <4>2. Hold(u, i, o)
        BY <3>1, <4>1 DEF Hold
      <4>3. o # op
        BY <1>1, <1>2, <4>1, <4>2, FreeIsNotHeld
      <4> QED
        BY <1>2, <1>6, <4>1, <4>2, <4>3 DEF TypeInv
    <3>2. ASSUME NEW u \in Thread, NEW o \in Op, NEW i \in DOMAIN stack'[u], Hold(u, i, o)'
          PROVE  /\ mtx_'[o] = u /\ state_'[o] = "started"
                 /\ \A j \in DOMAIN stack'[u] : Hold(u, j, o)' => i = j
      <4>1. CASE u = t /\ i = 1
        <5>1. o = op
          BY <2>1, <2>2, <3>2, <4>1 DEF Hold
        <5>2. mtx_'[o] = t /\ state_'[o] = "started"
          BY <1>1, <1>2, <1>6, <5>1 DEF TypeInv
        <5>3. \A j \in DOMAIN stack'[t] : Hold(t, j, o)' => j = 1
          BY <1>2, <3>1, <5>1
        <5> QED
          BY <4>1, <5>1, <5>2, <5>3
      <4>2. CASE u # t \/ i # 1
        <5>1. i \in DOMAIN stack[u] /\ Hold(u, i, o) /\ o # op /\ mtx_'[o] = mtx_[o]
          BY <3>1, <3>2, <4>2
        <5>2. mtx_'[o] = u /\ state_'[o] = "started"
          BY <1>1, <5>1 DEF HoldInv
        <5>3. ASSUME NEW j \in DOMAIN stack'[u], Hold(u, j, o)'
              PROVE  i = j
          <6>1. u # t \/ j # 1
            BY <2>1, <2>2, <5>1, <5>3 DEF Hold
          <6>2. j \in DOMAIN stack[u] /\ Hold(u, j, o)
            BY <3>1, <5>3, <6>1
          <6> QED
            BY <5>1, <6>2 DEF HoldInv
        <5> QED
          BY <5>2, <5>3
      <4> QED
        BY <4>1, <4>2
    <3> QED
      BY <3>2 DEF HoldInv
  <2>6. TypeInv'
    BY <1>1, <1>2, <1>4, <1>6, <2>2, TypesKeep DEF TypeInv, user
  <2>7. Quiet(t)
    <3>1. \A x, o : In(t, x, o)' <=> x = "Completed" /\ o = op
      BY <2>1, <2>2 DEF In
    <3>2. \A u \in Thread \ {t} : \A at, o : In(u, at, o)' <=> In(u, at, o)
      BY <2>2 DEF In
    <3> QED
      BY <1>1, <1>2, <1>3, <3>1, <3>2 DEF Quiet
  <2> QED
    BY <2>4, <2>5, <2>6, <2>7, QuietKeeps
<1> QED
  BY <1>5, <1>6 DEF Complete

\* A thread with nothing to do begins something.
LEMMA BeginsKeep ==
    ASSUME TypeInv, DeepInv, HoldInv, NEW t \in Thread, stack[t] = <<>>, NEW f \in Frames,
           stack' = [stack EXCEPT ![t] = <<f>>], f.at \notin Holders, UNCHANGED <<mtx_, state_>>
    PROVE  /\ stack' \in [Thread -> Seq(Frames)] /\ DeepInv' /\ HoldInv'
           /\ \A u \in Thread \ {t} : stack'[u] = stack[u]
           /\ \A at, op : ~In(t, at, op)
           /\ \A at, op : In(t, at, op)' <=> at = f.at /\ op = f.op
           /\ \A u \in Thread \ {t} : \A at, op : In(u, at, op)' <=> In(u, at, op)
<1>1. /\ stack' \in [Thread -> Seq(Frames)]
      /\ \A u \in Thread \ {t} : stack'[u] = stack[u]
      /\ stack'[t] = <<f>> /\ stack'[t] # <<>> /\ Len(stack'[t]) = 1 /\ stack'[t][1] = f
  BY DEF TypeInv
<1>2. DeepInv'
  <2>1. \A i \in 2..Len(stack'[t]) : stack'[t][i].at \in Deep
    BY <1>1
  <2> QED
    BY <1>1, <2>1 DEF DeepInv
<1>3. HoldInv'
  <2>1. \A op \in Op, i \in DOMAIN stack'[t] : ~Hold(t, i, op)'
    BY <1>1 DEF Hold
  <2>2. ASSUME NEW u \in Thread \ {t}, NEW op \in Op, NEW i \in DOMAIN stack'[u], Hold(u, i, op)'
        PROVE  /\ mtx_'[op] = u /\ state_'[op] = "started"
               /\ \A j \in DOMAIN stack'[u] : Hold(u, j, op)' => i = j
    BY <1>1, <2>2 DEF Hold, HoldInv
  <2> QED
    BY <2>1, <2>2 DEF HoldInv
<1> QED
  BY <1>1, <1>2, <1>3 DEF In

\* The same for the types.
LEMMA TypesBegin ==
    ASSUME TypeInv, NEW t \in Thread,
           stack' \in [Thread -> Seq(Frames)],
           \A u \in Thread \ {t} : stack'[u] = stack[u],
           UNCHANGED <<members, callbacks>>,
           handedOver' \subseteq Children, fresh' = fresh \ {t}
    PROVE  TypeInv'
<1>1. ASSUME NEW u \in fresh'
      PROVE  stack'[u] = <<>> /\ u \in Cancellers
  <2>1. stack[u] = <<>> /\ u \in Thread /\ u \in Cancellers /\ u # t
    BY TreeFacts DEF TypeInv
  <2> QED
    BY <2>1
<1> QED
  BY <1>1 DEF TypeInv, members

LEMMA WorkDoneKeeps ==
    ASSUME SfInv, NEW t \in Thread, WorkDone(t)
    PROVE  SfInv'
<1> USE DEF SfInv
<1>1. PICK op \in handedOver, ec \in {"ok", "failure"} :
        /\ handedOver' = handedOver \ {op}
        /\ stack' = [stack EXCEPT ![t] = <<[Frame("Complete", op) EXCEPT !.ec = ec]>>]
  BY DEF WorkDone
<1> DEFINE f == [Frame("Complete", op) EXCEPT !.ec = ec]
<1>2. stack[t] = <<>> /\ t = Worker /\ UNCHANGED <<members, fresh, callbacks>>
  BY DEF WorkDone
<1>3. op \in Children /\ op \in Op
  BY TreeFacts DEF TypeInv
<1>4. f \in Frames /\ f.at = "Complete" /\ f.op = op
  BY <1>3 DEF Frame, Frames, Places, Tokens, Errors
<1>5. /\ stack' \in [Thread -> Seq(Frames)] /\ DeepInv' /\ HoldInv'
      /\ \A u \in Thread \ {t} : stack'[u] = stack[u]
      /\ \A at, o : ~In(t, at, o)
      /\ \A at, o : In(t, at, o)' <=> at = f.at /\ o = f.op
      /\ \A u \in Thread \ {t} : \A at, o : In(u, at, o)' <=> In(u, at, o)
  <2>1. f.at \notin Holders
    BY <1>4 DEF Holders
  <2> HIDE DEF f
  <2>2. stack' = [stack EXCEPT ![t] = <<f>>]
    BY <1>1 DEF f
  <2> QED
    BY <1>2, <1>4, <2>1, <2>2, BeginsKeep DEF members
<1>6. t \notin fresh
  BY <1>2, TreeFacts DEF TypeInv
<1>7. TypeInv'
  <2>1. handedOver' \subseteq Children /\ fresh' = fresh \ {t}
    BY <1>1, <1>2, <1>6 DEF TypeInv
  <2> QED
    BY <1>2, <1>5, <2>1, TypesBegin
<1>8. Quiet(t)
  BY <1>2, <1>3, <1>4, <1>5 DEF Quiet, members
<1> QED
  BY <1>5, <1>7, <1>8, QuietKeeps

LEMMA CallCancelKeeps ==
    ASSUME SfInv, NEW t \in Thread, CallCancel(t)
    PROVE  SfInv'
<1> USE DEF SfInv
<1>1. PICK op \in Targets \ cancelled : stack' = [stack EXCEPT ![t] = <<Frame("Cancel", op)>>]
  BY DEF CallCancel
<1>2. stack[t] = <<>> /\ fresh' = fresh \ {t} /\ UNCHANGED <<members, handedOver, callbacks>>
  BY DEF CallCancel, TypeInv
<1>3. op \in Op
  BY TreeFacts
<1> DEFINE f == Frame("Cancel", op)
<1>4. f \in Frames /\ f.at = "Cancel" /\ f.op = op
  BY <1>3, FrameFacts DEF Places
<1>5. /\ stack' \in [Thread -> Seq(Frames)] /\ DeepInv' /\ HoldInv'
      /\ \A u \in Thread \ {t} : stack'[u] = stack[u]
      /\ \A at, o : ~In(t, at, o)
      /\ \A at, o : In(t, at, o)' <=> at = f.at /\ o = f.op
      /\ \A u \in Thread \ {t} : \A at, o : In(u, at, o)' <=> In(u, at, o)
  <2>1. f.at \notin Holders
    BY <1>4 DEF Holders
  <2> HIDE DEF f
  <2>2. stack' = [stack EXCEPT ![t] = <<f>>]
    BY <1>1 DEF f
  <2> QED
    BY <1>2, <1>4, <2>1, <2>2, BeginsKeep DEF members
<1>6. TypeInv'
  <2>1. handedOver' \subseteq Children
    BY <1>2 DEF TypeInv
  <2> QED
    BY <1>2, <1>5, <2>1, TypesBegin
<1>7. Quiet(t)
  BY <1>2, <1>4, <1>5 DEF Quiet, members
<1> QED
  BY <1>5, <1>6, <1>7, QuietKeeps

LEMMA CancelKeeps ==
    ASSUME SfInv, NEW t \in Thread, Cancel(t)
    PROVE  SfInv'
<1> USE DEF SfInv
<1> DEFINE op == Top(t).op
<1>1. /\ At(t, "Cancel") /\ Free(op)
      /\ UNCHANGED <<child_, ec_, completedSynchronously_, parent_, user, callbacks>>
  BY DEF Cancel
<1>2. /\ stack[t] # <<>> /\ Top(t) \in Frames /\ op \in Op /\ Top(t) = stack[t][1]
      /\ \A x, o : In(t, x, o) <=> x = "Cancel" /\ o = op
  BY <1>1, TopFacts
<1>3. \A u \in Thread, o \in Op : \A i \in DOMAIN stack[u] : Hold(u, i, o) => o # op
  BY <1>1, <1>2, FreeIsNotHeld
<1>4. CASE Return(t) /\ UNCHANGED <<state_, mtx_>>
  <2>1. OthersHold(t)
    BY <1>4 DEF OthersHold
  <2>2. /\ stack' \in [Thread -> Seq(Frames)] /\ DeepInv' /\ HoldInv'
        /\ \A u \in Thread \ {t} : stack'[u] = stack[u]
        /\ \A at \in Tokens : \A o : ~In(t, at, o)'
        /\ \A u \in Thread \ {t} : \A at, o : In(u, at, o)' <=> In(u, at, o)
    BY <1>2, <1>4, <2>1, ReturnKeeps
  <2>3. TypeInv'
    BY <1>1, <1>2, <1>4, <2>2, TypesKeep DEF TypeInv, user
  <2>4. Quiet(t)
    BY <1>1, <1>2, <1>4, <2>2 DEF Quiet, Tokens
  <2> QED
    BY <2>2, <2>3, <2>4, QuietKeeps
<1>5. CASE /\ state_[op] = "started" /\ mtx_' = mtx_
           /\ state_' = [state_ EXCEPT ![op] = "cancelling"] /\ Goto(t, Frame("OnCancel", op))
  <2>1. Frame("OnCancel", op) \in Frames /\ Frame("OnCancel", op).at = "OnCancel"
    BY <1>2, FrameFacts DEF Places
  <2>2. OthersHold(t)
    BY <1>3, <1>5 DEF OthersHold, TypeInv
  <2>3. /\ stack' \in [Thread -> Seq(Frames)] /\ DeepInv' /\ HoldInv'
        /\ \A u \in Thread \ {t} : stack'[u] = stack[u]
        /\ \A at, o : In(t, at, o)' => at = "OnCancel"
        /\ \A u \in Thread \ {t} : \A at, o : In(u, at, o)' <=> In(u, at, o)
    BY <1>2, <1>5, <2>1, <2>2, GotoKeeps DEF Holders
  <2>4. state_' \in [Op -> States]
    BY <1>5 DEF TypeInv, States
  <2>5. TypeInv'
    BY <1>1, <1>2, <1>5, <2>3, <2>4, TypesKeep DEF TypeInv, user
  <2>6. Quiet(t)
    BY <1>1, <1>2, <1>5, <2>3 DEF Quiet, TypeInv
  <2> QED
    BY <2>3, <2>5, <2>6, QuietKeeps
<1>6. CASE /\ state_[op] = "started" /\ child_[op] # Nobody /\ state_' = state_
           /\ mtx_' = [mtx_ EXCEPT ![op] = t]
           /\ Call(t, Frame("CancelledChild", op), Frame("Cancel", child_[op]))
  <2> DEFINE f == Frame("CancelledChild", op)
             callee == Frame("Cancel", child_[op])
  <2>1. child_[op] \in Op
    BY <1>2, <1>6 DEF TypeInv
  <2>2. f \in Frames /\ f.at = "CancelledChild" /\ f.op = op /\ callee \in Frames /\ callee.at = "Cancel"
    BY <1>2, <2>1 DEF Frame, Frames, Places, Deep, Errors
  <2>3. /\ stack' \in [Thread -> Seq(Frames)]
        /\ \A u \in Thread \ {t} : stack'[u] = stack[u]
        /\ stack'[t] # <<>> /\ stack'[t][1] = callee /\ stack'[t][2] = f
        /\ Len(stack'[t]) = Len(stack[t]) + 1
        /\ \A i \in 3..(Len(stack[t]) + 1) : stack'[t][i] = stack[t][i - 1]
    <3> HIDE DEF f, callee
    <3>1. Call(t, f, callee)
      BY <1>6 DEF f, callee
    <3> QED
      BY <1>2, <2>2, <3>1, CallStack
  <2>4. \A u \in Thread : stack[u] \in Seq(Frames) /\ stack'[u] \in Seq(Frames) /\ Len(stack[u]) \in Nat
    BY <2>3 DEF TypeInv
  <2>5. DeepInv'
    <3>1. ASSUME NEW i \in 2..Len(stack'[t])
          PROVE  stack'[t][i].at \in Deep
      <4>1. i \in Int /\ i >= 2 /\ i <= Len(stack[t]) + 1 /\ Len(stack[t]) \in Nat
        BY <2>3, <2>4
      <4>2. CASE i = 2
        BY <2>2, <2>3, <4>2 DEF Deep
      <4>3. CASE i # 2
        <5>1. i \in 3..(Len(stack[t]) + 1) /\ i - 1 \in 2..Len(stack[t])
          BY <4>1, <4>3
        <5> QED
          BY <2>3, <5>1 DEF DeepInv
      <4> QED
        BY <4>2, <4>3
    <3> QED
      BY <2>3, <3>1 DEF DeepInv
  <2>6. ASSUME NEW o \in Op, NEW i \in DOMAIN stack'[t], Hold(t, i, o)'
        PROVE  \/ i = 2 /\ o = op
               \/ i - 1 \in DOMAIN stack[t] /\ Hold(t, i - 1, o) /\ o # op
    <3>1. i \in Int /\ i >= 1 /\ i <= Len(stack[t]) + 1 /\ Len(stack[t]) \in Nat
      BY <2>3, <2>4, <2>6
    <3>2. i # 1
      BY <2>2, <2>3, <2>6 DEF Hold, Holders
    <3>3. CASE i = 2
      BY <2>2, <2>3, <2>6, <3>3 DEF Hold
    <3>4. CASE i # 2
      <4>1. i \in 3..(Len(stack[t]) + 1) /\ i - 1 \in 1..Len(stack[t])
        BY <3>1, <3>2, <3>4
      <4>2. Hold(t, i - 1, o)
        BY <2>3, <2>6, <4>1 DEF Hold
      <4>3. i - 1 \in DOMAIN stack[t]
        BY <2>4, <4>1
      <4> QED
        BY <1>3, <4>2, <4>3
    <3> QED
      BY <3>3, <3>4
  <2>7. ASSUME NEW u \in Thread \ {t}, NEW o \in Op, NEW i \in DOMAIN stack'[u], Hold(u, i, o)'
        PROVE  i \in DOMAIN stack[u] /\ Hold(u, i, o) /\ o # op
    <3>1. i \in DOMAIN stack[u] /\ Hold(u, i, o)
      BY <2>3, <2>7 DEF Hold
    <3> QED
      BY <1>3, <3>1
  <2>8. \A o \in Op : mtx_'[o] = IF o = op THEN t ELSE mtx_[o]
    BY <1>6 DEF TypeInv
  <2>9. HoldInv'
    <3>1. ASSUME NEW o \in Op, NEW i \in DOMAIN stack'[t], Hold(t, i, o)'
          PROVE  /\ mtx_'[o] = t /\ state_'[o] = "started"
                 /\ \A j \in DOMAIN stack'[t] : Hold(t, j, o)' => i = j
      <4>1. CASE o = op
        BY <1>6, <2>6, <2>8, <3>1, <4>1
      <4>2. CASE o # op
        <5>1. i - 1 \in DOMAIN stack[t] /\ Hold(t, i - 1, o)
          BY <2>6, <3>1, <4>2
        <5>2. mtx_'[o] = t /\ state_'[o] = "started"
          BY <1>6, <2>8, <4>2, <5>1 DEF HoldInv
        <5>3. ASSUME NEW j \in DOMAIN stack'[t], Hold(t, j, o)'
              PROVE  i = j
          <6>1. j - 1 \in DOMAIN stack[t] /\ Hold(t, j - 1, o)
            BY <2>6, <4>2, <5>3
          <6>2. i - 1 = j - 1 /\ i \in Int /\ j \in Int
            BY <2>4, <5>1, <6>1 DEF HoldInv
          <6> QED
            BY <6>2
        <5> QED
          BY <5>2, <5>3
      <4> QED
        BY <4>1, <4>2
    <3>2. ASSUME NEW u \in Thread \ {t}, NEW o \in Op, NEW i \in DOMAIN stack'[u], Hold(u, i, o)'
          PROVE  /\ mtx_'[o] = u /\ state_'[o] = "started"
                 /\ \A j \in DOMAIN stack'[u] : Hold(u, j, o)' => i = j
      BY <1>6, <2>7, <2>8, <3>2 DEF HoldInv
    <3> QED
      BY <3>1, <3>2 DEF HoldInv
  <2>10. TypeInv'
    BY <1>1, <1>2, <1>6, <2>3, TypesKeep DEF TypeInv, user
  <2>11. Quiet(t)
    <3>1. \A x, o : In(t, x, o)' => x = "Cancel"
      BY <2>2, <2>3 DEF In
    <3>2. \A u \in Thread \ {t} : \A at, o : In(u, at, o)' <=> In(u, at, o)
      BY <2>3 DEF In
    <3> QED
      BY <1>1, <1>2, <1>6, <3>1, <3>2 DEF Quiet
  <2> QED
    BY <2>5, <2>9, <2>10, <2>11, QuietKeeps
<1> QED
  BY <1>4, <1>5, <1>6 DEF Cancel

LEMMA CancelledChildKeeps ==
    ASSUME SfInv, NEW t \in Thread, CancelledChild(t)
    PROVE  SfInv'
<1> USE DEF SfInv
<1> DEFINE op == Top(t).op
           f == Frame("OnCancel", op)
<1>1. /\ At(t, "CancelledChild")
      /\ child_' = [child_ EXCEPT ![op] = Nobody]
      /\ state_' = [state_ EXCEPT ![op] = "cancelling"]
      /\ mtx_' = [mtx_ EXCEPT ![op] = Nobody]
      /\ Goto(t, f)
      /\ UNCHANGED <<ec_, parent_, user, callbacks>>
  BY DEF CancelledChild
<1>2. /\ stack[t] # <<>> /\ Top(t) \in Frames /\ op \in Op /\ Top(t) = stack[t][1]
      /\ \A x, o : In(t, x, o) <=> x = "CancelledChild" /\ o = op
  BY <1>1, TopFacts
<1>3. 1 \in DOMAIN stack[t] /\ Hold(t, 1, op)
  BY <1>1, <1>2, TopFacts DEF Hold, Holders, TypeInv
<1>4. state_[op] = "started" /\ mtx_[op] = t
  BY <1>2, <1>3 DEF HoldInv
<1>5. OthersHold(t)
  BY <1>1, <1>2, <1>3, <1>4 DEF OthersHold, HoldInv, TypeInv
<1>6. f \in Frames /\ f.at = "OnCancel"
  BY <1>2, FrameFacts DEF Places
<1>7. /\ stack' \in [Thread -> Seq(Frames)] /\ DeepInv' /\ HoldInv'
      /\ \A u \in Thread \ {t} : stack'[u] = stack[u]
      /\ \A at, o : In(t, at, o)' => at = "OnCancel"
      /\ \A u \in Thread \ {t} : \A at, o : In(u, at, o)' <=> In(u, at, o)
  BY <1>1, <1>2, <1>5, <1>6, GotoKeeps DEF Holders
<1>8. state_' \in [Op -> States] /\ child_' \in [Op -> Op \cup {Nobody}] /\ mtx_' \in [Op -> Thread \cup {Nobody}]
  BY <1>1 DEF TypeInv, States
<1>9. TypeInv'
  BY <1>1, <1>2, <1>7, <1>8, TypesKeep DEF TypeInv, user
<1>10. Quiet(t)
  BY <1>1, <1>2, <1>4, <1>7 DEF Quiet, TypeInv
<1> QED
  BY <1>7, <1>9, <1>10, QuietKeeps

LEMMA OnCancelKeeps ==
    ASSUME SfInv, NEW t \in Thread, OnCancel(t)
    PROVE  SfInv'
<1> USE DEF SfInv
<1> DEFINE op == Top(t).op
           f == [Top(t) EXCEPT !.at = "Cancelling"]
           callee == [Frame("Complete", op) EXCEPT !.ec = "canceled"]
<1>1. /\ At(t, "OnCancel")
      /\ Goto(t, f) \/ (IsLeaf(op) /\ Call(t, f, callee))
      /\ UNCHANGED <<members, user, callbacks>>
  BY DEF OnCancel
<1>2. /\ stack[t] # <<>> /\ Top(t) \in Frames /\ op \in Op
      /\ \A x, o : In(t, x, o) <=> x = "OnCancel" /\ o = op
  BY <1>1, TopFacts
<1>3. f \in Frames /\ f.at = "Cancelling"
  BY <1>2 DEF Frames, Places, Deep
<1>4. callee \in Frames /\ callee.at = "Complete" /\ callee.op = op
  <2>1. "Complete" \in Places /\ "canceled" \in Errors
    BY DEF Places, Tokens, Errors
  <2> QED
    BY <1>2, <2>1, FrameFacts
<1>5. OthersHold(t)
  BY <1>1 DEF OthersHold, members
<1>6. /\ stack' \in [Thread -> Seq(Frames)] /\ DeepInv' /\ HoldInv'
      /\ \A u \in Thread \ {t} : stack'[u] = stack[u]
      /\ \A at, o : In(t, at, o)' => at = "Cancelling" \/ (at = "Complete" /\ o \in Children)
      /\ \A u \in Thread \ {t} : \A at, o : In(u, at, o)' <=> In(u, at, o)
  <2> HIDE DEF f, callee
  <2>1. CASE Goto(t, f)
    BY <1>2, <1>3, <1>5, <2>1, GotoKeeps DEF Holders
  <2>2. CASE IsLeaf(op) /\ Call(t, f, callee)
    <3>1. op \in Children
      BY <1>2, <2>2, TreeFacts
    <3> QED
      BY <1>2, <1>3, <1>4, <1>5, <2>2, <3>1, CallKeeps DEF Holders, Deep
  <2> QED
    BY <1>1, <2>1, <2>2
<1>7. TypeInv'
  BY <1>1, <1>2, <1>6, TypesKeep DEF TypeInv, user, members
<1>8. Quiet(t)
  <2> HIDE DEF op, f, callee
  <2> QED
    BY <1>1, <1>2, <1>6 DEF Quiet, members
<1> QED
  BY <1>6, <1>7, <1>8, QuietKeeps

LEMMA CancellingKeeps ==
    ASSUME SfInv, NEW t \in Thread, Cancelling(t)
    PROVE  SfInv'
<1> USE DEF SfInv
<1> DEFINE op == Top(t).op
           f == Frame("CancelDetach", op)
<1>1. /\ At(t, "Cancelling") /\ Free(op)
      /\ state_' = IF state_[op] = "cancelling" THEN [state_ EXCEPT ![op] = "cancelled"] ELSE state_
      /\ Goto(t, f)
      /\ UNCHANGED <<child_, mtx_, ec_, parent_, user, callbacks>>
  BY DEF Cancelling
<1>2. /\ stack[t] # <<>> /\ op \in Op
      /\ \A x, o : In(t, x, o) <=> x = "Cancelling" /\ o = op
  BY <1>1, TopFacts
<1>3. f \in Frames /\ f.at = "CancelDetach"
  BY <1>2, FrameFacts DEF Places
<1>4. \A o \in Op : state_'[o] = state_[o] \/ (o = op /\ state_[o] = "cancelling" /\ state_'[o] = "cancelled")
  BY <1>1 DEF TypeInv
<1>5. OthersHold(t)
  <2>1. \A u \in Thread, o \in Op : \A i \in DOMAIN stack[u] : Hold(u, i, o) => o # op
    BY <1>1, <1>2, FreeIsNotHeld
  <2> QED
    BY <1>1, <1>4, <2>1 DEF OthersHold
<1>6. /\ stack' \in [Thread -> Seq(Frames)] /\ DeepInv' /\ HoldInv'
      /\ \A u \in Thread \ {t} : stack'[u] = stack[u]
      /\ \A at, o : In(t, at, o)' => at = "CancelDetach"
      /\ \A u \in Thread \ {t} : \A at, o : In(u, at, o)' <=> In(u, at, o)
  BY <1>1, <1>2, <1>3, <1>5, GotoKeeps DEF Holders
<1>7. state_' \in [Op -> States]
  BY <1>1 DEF TypeInv, States
<1>8. TypeInv'
  BY <1>1, <1>2, <1>6, <1>7, TypesKeep DEF TypeInv, user
<1>9. Quiet(t)
  BY <1>1, <1>2, <1>4, <1>6 DEF Quiet
<1> QED
  BY <1>6, <1>8, <1>9, QuietKeeps

LEMMA CancelDetachKeeps ==
    ASSUME SfInv, NEW t \in Thread, CancelDetach(t)
    PROVE  SfInv'
<1> USE DEF SfInv
<1>1. /\ At(t, "CancelDetach") /\ Return(t) /\ Detach(Top(t).op)
      /\ UNCHANGED <<state_, mtx_, ec_, user, callbacks>>
  BY DEF CancelDetach
<1>2. stack[t] # <<>> /\ \A x, o : In(t, x, o) <=> x = "CancelDetach" /\ o = Top(t).op
  BY <1>1, TopFacts
<1>3. OthersHold(t)
  BY <1>1 DEF OthersHold
<1>4. /\ stack' \in [Thread -> Seq(Frames)] /\ DeepInv' /\ HoldInv'
      /\ \A u \in Thread \ {t} : stack'[u] = stack[u]
      /\ \A at \in Tokens : \A o : ~In(t, at, o)'
      /\ \A u \in Thread \ {t} : \A at, o : In(u, at, o)' <=> In(u, at, o)
  BY <1>1, <1>2, <1>3, ReturnKeeps
<1>5. child_' \in [Op -> Op \cup {Nobody}] /\ parent_' \subseteq Children
  BY <1>1 DEF Detach, TypeInv
<1>6. TypeInv'
  BY <1>1, <1>2, <1>4, <1>5, TypesKeep DEF TypeInv, user
<1>7. Quiet(t)
  BY <1>1, <1>2, <1>4 DEF Quiet, Tokens
<1> QED
  BY <1>4, <1>6, <1>7, QuietKeeps
-----------------------------------------------------------------------------
(***************************************************************************)
(* The steps that begin an operation or call it back.                      *)
(***************************************************************************)
LEMMA StartKeeps ==
    ASSUME SfInv, NEW t \in Thread, Start(t)
    PROVE  SfInv'
<1> USE DEF SfInv
<1> DEFINE f == Frame("OnStart", Top(t).op)
<1>1. PICK op \in Op : /\ op = Top(t).op /\ At(t, "Start") /\ Goto(t, f) /\ stack[t] # <<>>
                       /\ \A x, o : In(t, x, o) <=> x = "Start" /\ o = op
                       /\ f \in Frames /\ f.at = "OnStart" /\ f.op = op
  <2>1. At(t, "Start") /\ Goto(t, f)
    BY DEF Start
  <2>2. Top(t).op \in Op
    BY <2>1, TopFacts
  <2>3. f \in Frames /\ f.at = "OnStart" /\ f.op = Top(t).op
    BY <2>2, FrameFacts DEF Places, Tokens
  <2> QED
    BY <2>1, <2>2, <2>3, TopFacts
<1>2. /\ state_' = [state_ EXCEPT ![op] = "started"]
      /\ child_' = child_ \/ (op \in parent_ /\ child_' = [child_ EXCEPT ![Parent(op)] = op])
      /\ UNCHANGED <<mtx_, ec_, parent_, user, callbacks>>
  BY <1>1 DEF Start
<1>3. state_[op] = "idle"
  BY <1>1 DEF TokenInv
<1>4. \A o \in Op : state_'[o] = IF o = op THEN "started" ELSE state_[o]
  BY <1>2 DEF TypeInv
<1>5. OthersHold(t)
  BY <1>2, <1>3, <1>4 DEF OthersHold, HoldInv
<1>6. /\ stack' \in [Thread -> Seq(Frames)] /\ DeepInv' /\ HoldInv'
      /\ \A u \in Thread \ {t} : stack'[u] = stack[u]
      /\ \A x, o : In(t, x, o)' <=> x = "OnStart" /\ o = op
      /\ \A u \in Thread \ {t} : \A x, o : In(u, x, o)' <=> In(u, x, o)
  <2> HIDE DEF f
  <2>1. f.at \notin Holders
    BY <1>1 DEF Holders
  <2> QED
    BY <1>1, <1>5, <2>1, GotoKeeps
<1>7. TypeInv'
  <2>1. state_' \in [Op -> States] /\ child_' \in [Op -> Op \cup {Nobody}]
    BY <1>2 DEF TypeInv, States
  <2> QED
    BY <1>1, <1>2, <1>6, <2>1, TypesKeep DEF TypeInv, user
<1>8. \A o \in Op : Fresh(o)' <=> Fresh(o)
  BY <1>1, <1>4, <1>6 DEF Fresh
<1>9. TokenInv'
  <2>1. \A u \in Thread, o \in Op :
          /\ In(u, "Start", o)' => u # t /\ o # op /\ In(u, "Start", o)
          /\ In(u, "OnStart", o)' => (u = t /\ o = op) \/ (o # op /\ In(u, "OnStart", o))
          /\ In(u, "Complete", o)' \/ In(u, "Completed", o)' => o \in Children
          /\ In(u, "Callback", o)' <=> In(u, "Callback", o)
    BY <1>1, <1>3, <1>6 DEF TokenInv
  <2>2. \A o \in Op : callbacks'[o] = callbacks[o] /\ (state_'[o] = "completed" <=> state_[o] = "completed")
    BY <1>2, <1>3, <1>4
  <2> QED
    BY <1>4, <2>1, <2>2 DEF TokenInv
<1>10. OrderInv'
  <2>1. ASSUME NEW p \in Op, NEW c \in Op, IsChild(c, p),
               state_'[p] = "idle" \/ \E u \in Thread : In(u, "OnStart", p)'
        PROVE  Fresh(c)'
    <3>1. state_[p] = "idle" \/ \E u \in Thread : In(u, "OnStart", p)
      BY <1>3, <1>4, <1>6, <2>1
    <3> QED
      BY <1>8, <2>1, <3>1 DEF OrderInv
  <2>2. \A p \in Op : \A i \in DOMAIN Steps[p] : Steps[p][i] \in Op
    BY TreeFacts
  <2> QED
    BY <1>2, <1>8, <2>1, <2>2 DEF OrderInv
<1>11. UserInv'
  <2>1. op = Root => t = User
    BY <1>1, <1>3, TreeFacts DEF UserInv, TokenInv
  <2>2. state_'[Root] = "idle" => In(User, "Start", Root)'
    BY <1>1, <1>4, <1>6, TreeFacts DEF UserInv
  <2>3. \A u \in Thread : In(u, "OnStart", Root)' => u = User
    BY <1>6, <2>1 DEF UserInv
  <2>4. \A u \in Thread, o \in Op : In(u, "Start", o)' /\ IsChild(o, Root) => u = User
    BY <1>6 DEF UserInv
  <2> QED
    BY <2>2, <2>3, <2>4 DEF UserInv
<1> QED
  BY <1>6, <1>7, <1>9, <1>10, <1>11

\* OnStart of an operation with children begins the first one.
LEMMA FirstChildKeeps ==
    ASSUME SfInv, NEW t \in Thread, NEW op \in Op \ {Root}, In(t, "OnStart", op), ~IsLeaf(op),
           NEW c, c = Head(Steps[op]),
           \A x, o : In(t, x, o) <=> x = "OnStart" /\ o = op,
           \A x, o : In(t, x, o)' <=> x = "Start" /\ o = c,
           \A u \in Thread \ {t} : \A x, o : In(u, x, o)' <=> In(u, x, o),
           UNCHANGED <<state_, callbacks>>
    PROVE  TokenInv' /\ OrderInv' /\ UserInv'
<1> USE DEF SfInv
<1>1. /\ Steps[op] \in Seq(Op) /\ Steps[op] # <<>> /\ c = Steps[op][1] /\ c \in Op
      /\ 1 \in DOMAIN Steps[op] /\ IsChild(c, op)
  BY TreeFacts DEF IsLeaf, IsChild
<1>2. Fresh(c) /\ state_[op] # "idle"
  BY <1>1 DEF OrderInv, TokenInv
<1>3. \A o \in Op : Fresh(o)' <=> Fresh(o) /\ o # c
  BY DEF Fresh
<1>4. TokenInv'
  <2>1. \A u \in Thread, o \in Op :
          /\ In(u, "Start", o)' => (u = t /\ o = c) \/ (o # c /\ In(u, "Start", o))
          /\ In(u, "OnStart", o)' => In(u, "OnStart", o)
          /\ In(u, "Complete", o)' \/ In(u, "Completed", o)' => o \in Children
          /\ In(u, "Callback", o)' <=> In(u, "Callback", o)
    BY <1>2 DEF TokenInv, Fresh
  <2> QED
    BY <1>2, <2>1 DEF TokenInv, Fresh
<1>5. OrderInv'
  <2>1. ASSUME NEW p \in Op, NEW x \in Op, IsChild(x, p),
               state_'[p] = "idle" \/ \E u \in Thread : In(u, "OnStart", p)'
        PROVE  Fresh(x)'
    <3>1. p # op /\ Fresh(x)
      BY <1>2, <2>1 DEF OrderInv, TokenInv
    <3>2. x # c
      BY <1>1, <2>1, <3>1, TreeFacts
    <3> QED
      BY <1>3, <3>1, <3>2
  <2>2. ASSUME NEW p \in Op \ {Root}, NEW i \in DOMAIN Steps[p], NEW j \in DOMAIN Steps[p],
               i < j, ~Fresh(Steps[p][j])'
        PROVE  callbacks'[Steps[p][i]] = 1
    <3>1. Steps[p][j] \in Op /\ i \in Nat \ {0} /\ j \in Nat
      BY TreeFacts
    <3>2. CASE Steps[p][j] = c
      <4>1. p = op
        BY <1>1, <3>1, <3>2, TreeFacts DEF IsChild
      <4>2. j = 1
        BY <1>1, <3>2, <4>1, OperationsAssumption
      <4> QED
        BY <2>2, <3>1, <4>2
    <3>3. CASE Steps[p][j] # c
      BY <1>3, <2>2, <3>1, <3>3 DEF OrderInv
    <3> QED
      BY <3>2, <3>3
  <2> QED
    BY <2>1, <2>2 DEF OrderInv
<1>6. UserInv'
  <2>1. ~IsChild(c, Root)
    BY <1>1, TreeFacts
  <2> QED
    BY <2>1, TreeFacts DEF UserInv
<1> QED
  BY <1>4, <1>5, <1>6

LEMMA OnStartKeeps ==
    ASSUME SfInv, NEW t \in Thread, OnStart(t)
    PROVE  SfInv'
<1> USE DEF SfInv
<1>1. PICK op \in Op : /\ op = Top(t).op /\ At(t, "OnStart") /\ stack[t] # <<>>
                       /\ \A x, o : In(t, x, o) <=> x = "OnStart" /\ o = op
  BY TopFacts DEF OnStart
<1> DEFINE f == Frame("StartReturns", op)
           first == Frame("Start", Head(Steps[op]))
           done(ec) == [Frame("Complete", op) EXCEPT !.ec = ec]
<1>2. /\ UNCHANGED <<members, fresh, callbacks>>
      /\ \/ Goto(t, f) /\ handedOver' = handedOver
         \/ op # Root /\ ~IsLeaf(op) /\ Call(t, f, first) /\ handedOver' = handedOver
         \/ IsLeaf(op) /\ (\E ec \in {"ok", "failure"} : Call(t, f, done(ec))) /\ handedOver' = handedOver
         \/ IsLeaf(op) /\ Goto(t, f) /\ handedOver' = handedOver \cup {op}
  BY <1>1 DEF OnStart
<1>3. f \in Frames /\ f.at = "StartReturns" /\ f.at \in Deep \ Holders
  BY DEF Frame, Frames, Places, Deep, Holders, Errors
<1>4. OthersHold(t)
  BY <1>2 DEF OthersHold, members
<1>5. IsLeaf(op) => op \in Children
  BY TreeFacts
<1>6. CASE Goto(t, f) /\ handedOver' \subseteq Children
  <2> HIDE DEF f
  <2>1. /\ stack' \in [Thread -> Seq(Frames)] /\ DeepInv' /\ HoldInv'
        /\ \A u \in Thread \ {t} : stack'[u] = stack[u]
        /\ \A x, o : In(t, x, o)' => x = "StartReturns"
        /\ \A u \in Thread \ {t} : \A x, o : In(u, x, o)' <=> In(u, x, o)
    BY <1>1, <1>3, <1>4, <1>6, GotoKeeps
  <2>2. TypeInv'
    BY <1>1, <1>2, <1>6, <2>1, TypesKeep DEF TypeInv, members
  <2>3. Quiet(t)
    BY <1>1, <1>2, <2>1 DEF Quiet, members
  <2> QED
    BY <2>1, <2>2, <2>3, QuietKeeps
<1>7. CASE IsLeaf(op) /\ (\E ec \in {"ok", "failure"} : Call(t, f, done(ec))) /\ handedOver' = handedOver
  <2>1. PICK ec \in {"ok", "failure"} : Call(t, f, done(ec))
    BY <1>7
  <2>2. done(ec) \in Frames /\ done(ec).at = "Complete" /\ done(ec).op = op /\ done(ec).at \notin Holders
    BY DEF Frame, Frames, Places, Tokens, Holders, Errors
  <2> HIDE DEF f, done
  <2>3. /\ stack' \in [Thread -> Seq(Frames)] /\ DeepInv' /\ HoldInv'
        /\ \A u \in Thread \ {t} : stack'[u] = stack[u]
        /\ \A x, o : In(t, x, o)' <=> x = "Complete" /\ o = op
        /\ \A u \in Thread \ {t} : \A x, o : In(u, x, o)' <=> In(u, x, o)
    BY <1>1, <1>3, <1>4, <2>1, <2>2, CallKeeps
  <2>4. TypeInv'
    BY <1>1, <1>2, <1>7, <2>3, TypesKeep DEF TypeInv, members
  <2>5. Quiet(t)
    BY <1>1, <1>2, <1>5, <1>7, <2>3 DEF Quiet, members
  <2> QED
    BY <2>3, <2>4, <2>5, QuietKeeps
<1>8. CASE op # Root /\ ~IsLeaf(op) /\ Call(t, f, first) /\ handedOver' = handedOver
  <2> DEFINE c == Head(Steps[op])
  <2>1. c \in Op
    BY <1>8, TreeFacts DEF IsLeaf
  <2>2. first \in Frames /\ first.at = "Start" /\ first.op = c /\ first.at \notin Holders
    BY <2>1 DEF Frame, Frames, Places, Tokens, Holders, Errors
  <2> HIDE DEF f, first
  <2>3. /\ stack' \in [Thread -> Seq(Frames)] /\ DeepInv' /\ HoldInv'
        /\ \A u \in Thread \ {t} : stack'[u] = stack[u]
        /\ \A x, o : In(t, x, o)' <=> x = "Start" /\ o = c
        /\ \A u \in Thread \ {t} : \A x, o : In(u, x, o)' <=> In(u, x, o)
    BY <1>1, <1>3, <1>4, <1>8, <2>2, CallKeeps
  <2>4. TypeInv'
    BY <1>1, <1>2, <1>8, <2>3, TypesKeep DEF TypeInv, members
  <2>5. UNCHANGED <<state_, callbacks>>
    BY <1>2 DEF members
  <2>6. In(t, "OnStart", op)
    BY <1>1
  <2> HIDE DEF SfInv
  <2>7. TokenInv' /\ OrderInv' /\ UserInv'
    BY <1>1, <1>8, <2>3, <2>5, <2>6, FirstChildKeeps
  <2> QED
    BY <2>3, <2>4, <2>7 DEF SfInv
<1>9. handedOver \subseteq Children /\ (IsLeaf(op) => handedOver \cup {op} \subseteq Children)
  BY <1>5 DEF TypeInv
<1> QED
  BY <1>2, <1>6, <1>7, <1>8, <1>9

LEMMA CompletedKeeps ==
    ASSUME SfInv, NEW t \in Thread, Completed(t)
    PROVE  SfInv'
<1> USE DEF SfInv
<1>1. PICK op \in Op : /\ op = Top(t).op /\ At(t, "Completed") /\ stack[t] # <<>> /\ Top(t) = stack[t][1]
                       /\ Top(t).at = "Completed"
                       /\ \A x, o : In(t, x, o) <=> x = "Completed" /\ o = op
  BY TopFacts DEF Completed
<1> DEFINE f == Frame("Callback", op)
<1>2. /\ Detach(op)
      /\ state_' = [state_ EXCEPT ![op] = "completed"]
      /\ mtx_' = [mtx_ EXCEPT ![op] = Nobody]
      /\ Goto(t, f)
      /\ UNCHANGED <<ec_, user, callbacks>>
  BY <1>1 DEF Completed
<1>3. 1 \in DOMAIN stack[t] /\ Hold(t, 1, op)
  BY <1>1 DEF Hold, Holders, TypeInv
<1>4. op \in Children /\ state_[op] = "started" /\ mtx_[op] = t /\ callbacks[op] = 0
  BY <1>1, <1>3 DEF HoldInv, TokenInv, TypeInv
<1>5. OthersHold(t)
  BY <1>2, <1>3, <1>4 DEF OthersHold, HoldInv, TypeInv
<1>6. f \in Frames /\ f.at = "Callback" /\ f.op = op /\ f.at \notin Holders
  BY DEF Frame, Frames, Places, Tokens, Holders, Errors
<1>7. /\ stack' \in [Thread -> Seq(Frames)] /\ DeepInv' /\ HoldInv'
      /\ \A u \in Thread \ {t} : stack'[u] = stack[u]
      /\ \A x, o : In(t, x, o)' <=> x = "Callback" /\ o = op
      /\ \A u \in Thread \ {t} : \A x, o : In(u, x, o)' <=> In(u, x, o)
  <2> HIDE DEF f
  <2> QED
    BY <1>1, <1>2, <1>5, <1>6, GotoKeeps
<1>8. TypeInv'
  <2>1. /\ state_' \in [Op -> States] /\ mtx_' \in [Op -> Thread \cup {Nobody}]
        /\ child_' \in [Op -> Op \cup {Nobody}] /\ parent_' \subseteq Children
    BY <1>2 DEF TypeInv, States, Detach
  <2> QED
    BY <1>1, <1>2, <1>7, <2>1, TypesKeep DEF TypeInv, user
<1>9. \A o \in Op : state_'[o] = IF o = op THEN "completed" ELSE state_[o]
  BY <1>2 DEF TypeInv
<1>10. \A o \in Op : Fresh(o)' <=> Fresh(o)
  BY <1>1, <1>4, <1>7, <1>9 DEF Fresh
<1>11. TokenInv'
  <2>1. \A u \in Thread, o \in Op :
          /\ In(u, "Start", o)' <=> In(u, "Start", o)
          /\ In(u, "OnStart", o)' <=> In(u, "OnStart", o)
          /\ In(u, "Complete", o)' \/ In(u, "Completed", o)' => o \in Children
          /\ In(u, "Callback", o)' => (u = t /\ o = op) \/ (o # op /\ In(u, "Callback", o))
          /\ In(u, "Callback", o) => In(u, "Callback", o)'
    BY <1>1, <1>4, <1>7 DEF TokenInv
  <2>2. In(t, "Callback", op)'
    BY <1>7
  <2> QED
    BY <1>2, <1>4, <1>9, <2>1, <2>2 DEF TokenInv
<1>12. OrderInv'
  <2>1. \A u \in Thread, o \in Op : In(u, "OnStart", o)' <=> In(u, "OnStart", o)
    BY <1>1, <1>7
  <2>2. \A p \in Op : \A i \in DOMAIN Steps[p] : Steps[p][i] \in Op
    BY TreeFacts
  <2> QED
    BY <1>2, <1>9, <1>10, <2>1, <2>2 DEF OrderInv
<1>13. UserInv'
  <2>1. op # Root
    BY <1>4, TreeFacts
  <2>2. \A u \in Thread, o \in Op :
          /\ In(u, "Start", o)' <=> In(u, "Start", o)
          /\ In(u, "OnStart", o)' <=> In(u, "OnStart", o)
    BY <1>1, <1>7
  <2>3. state_'[Root] = state_[Root]
    BY <1>9, <2>1, TreeFacts
  <2> QED
    BY <2>2, <2>3, TreeFacts DEF UserInv
<1> QED
  BY <1>7, <1>8, <1>11, <1>12, <1>13

\* c is the child that is begun after op.
Follows(c, op) ==
    \E i \in DOMAIN Steps[Parent(op)] :
        /\ Steps[Parent(op)][i] = op /\ i + 1 \in DOMAIN Steps[Parent(op)]
        /\ c = Steps[Parent(op)][i + 1]

LEMMA NextFacts ==
    ASSUME NEW op \in Children, Successors(op) # <<>>
    PROVE  Head(Successors(op)) \in Op /\ Follows(Head(Successors(op)), op)
<1> DEFINE s == Steps[Parent(op)]
           i == CHOOSE j \in DOMAIN s : s[j] = op
<1>1. s \in Seq(Op) /\ Len(s) \in Nat /\ i \in DOMAIN s /\ s[i] = op /\ i \in 1..Len(s)
  BY TreeFacts DEF IsChild
<1> HIDE DEF i
<1>2. Successors(op) = SubSeq(s, i + 1, Len(s))
  BY DEF Successors, i
<1>3. i + 1 <= Len(s)
  BY <1>1, <1>2
<1>4. Head(Successors(op)) = s[i + 1] /\ s[i + 1] \in Op
  BY <1>1, <1>2, <1>3
<1> QED
  BY <1>1, <1>3, <1>4 DEF Follows

\* The callback of op is over, and nothing else is begun.
LEMMA CalledBack ==
    ASSUME SfInv, NEW t \in Thread, NEW op \in Op,
           \A x, o : In(t, x, o) <=> x = "Callback" /\ o = op,
           \A x, o : In(t, x, o)' => (x = "Complete" /\ o \in Children) \/ x \notin Tokens,
           \A u \in Thread \ {t} : \A x, o : In(u, x, o)' <=> In(u, x, o),
           state_' = state_, callbacks' = [callbacks EXCEPT ![op] = 1]
    PROVE  TokenInv' /\ OrderInv' /\ UserInv'
<1> USE DEF SfInv
<1>1. op \in Children /\ state_[op] = "completed" /\ callbacks[op] = 0
  BY DEF TokenInv
<1>2. \A o \in Op : callbacks'[o] = IF o = op THEN 1 ELSE callbacks[o]
  BY DEF TypeInv
<1>3. \A u \in Thread, o \in Op :
        /\ In(u, "Start", o)' <=> In(u, "Start", o)
        /\ In(u, "OnStart", o)' <=> In(u, "OnStart", o)
        /\ In(u, "Complete", o)' \/ In(u, "Completed", o)' => o \in Children
        /\ In(u, "Callback", o)' <=> o # op /\ In(u, "Callback", o)
  BY DEF TokenInv, Tokens
<1>4. \A o \in Op : Fresh(o)' <=> Fresh(o)
  BY <1>3 DEF Fresh
<1>5. TokenInv'
  BY <1>1, <1>2, <1>3 DEF TokenInv
<1>6. OrderInv'
  <2>1. \A p \in Op : \A i \in DOMAIN Steps[p] : Steps[p][i] \in Op
    BY TreeFacts
  <2> QED
    BY <1>2, <1>3, <1>4, <2>1 DEF OrderInv
<1>7. UserInv'
  BY <1>3, TreeFacts DEF UserInv
<1> QED
  BY <1>5, <1>6, <1>7

\* The callback of op begins the child that comes after it.
LEMMA NextChildKeeps ==
    ASSUME SfInv, NEW t \in Thread, NEW op \in Children, Parent(op) # Root,
           NEW c \in Op, Follows(c, op),
           \A x, o : In(t, x, o) <=> x = "Callback" /\ o = op,
           \A x, o : In(t, x, o)' <=> x = "Start" /\ o = c,
           \A u \in Thread \ {t} : \A x, o : In(u, x, o)' <=> In(u, x, o),
           state_' = state_, callbacks' = [callbacks EXCEPT ![op] = 1]
    PROVE  TokenInv' /\ OrderInv' /\ UserInv'
<1> USE DEF SfInv
<1> DEFINE p == Parent(op)
<1>0. PICK i \in DOMAIN Steps[p] :
        Steps[p][i] = op /\ i + 1 \in DOMAIN Steps[p] /\ c = Steps[p][i + 1]
  BY DEF Follows
<1>1. /\ p \in Op \ {Root} /\ op \in Op /\ IsChild(op, p) /\ c \in Op /\ IsChild(c, p)
      /\ i \in Nat /\ i < i + 1
  BY <1>0, TreeFacts DEF IsChild
<1>2. state_[op] = "completed" /\ callbacks[op] = 0
  BY <1>1 DEF TokenInv
<1>3. Fresh(c)
  BY <1>0, <1>1, <1>2 DEF OrderInv
<1>4. state_[p] # "idle" /\ \A u \in Thread : ~In(u, "OnStart", p)
  BY <1>0, <1>1, <1>2 DEF OrderInv, Fresh
<1>5. \A o \in Op : callbacks'[o] = IF o = op THEN 1 ELSE callbacks[o]
  BY <1>1 DEF TypeInv
<1>6. \A u \in Thread, o \in Op :
        /\ In(u, "Start", o)' => (u = t /\ o = c) \/ (o # c /\ In(u, "Start", o))
        /\ In(u, "OnStart", o)' <=> In(u, "OnStart", o)
        /\ In(u, "Complete", o)' \/ In(u, "Completed", o)' => o \in Children
        /\ In(u, "Callback", o)' <=> o # op /\ In(u, "Callback", o)
  BY <1>1, <1>3 DEF TokenInv, Fresh
<1>7. \A o \in Op : Fresh(o)' <=> Fresh(o) /\ o # c
  BY DEF Fresh
<1>8. TokenInv'
  BY <1>2, <1>3, <1>5, <1>6 DEF TokenInv, Fresh
<1>9. OrderInv'
  <2>1. ASSUME NEW q \in Op, NEW x \in Op, IsChild(x, q),
               state_'[q] = "idle" \/ \E u \in Thread : In(u, "OnStart", q)'
        PROVE  Fresh(x)'
    <3>1. q # p /\ Fresh(x)
      BY <1>4, <1>6, <2>1 DEF OrderInv
    <3>2. x # c
      BY <1>1, <2>1, <3>1, TreeFacts
    <3> QED
      BY <1>7, <3>1, <3>2
  <2>2. ASSUME NEW q \in Op \ {Root}, NEW k \in DOMAIN Steps[q], NEW j \in DOMAIN Steps[q],
               k < j, ~Fresh(Steps[q][j])'
        PROVE  callbacks'[Steps[q][k]] = 1
    <3>1. Steps[q][j] \in Op /\ Steps[q][k] \in Op /\ k \in Nat /\ j \in Nat
      BY TreeFacts
    <3>2. CASE Steps[q][j] = c
      <4>1. q = p
        BY <1>1, <3>1, <3>2, TreeFacts DEF IsChild
      <4>2. j = i + 1
        BY <1>0, <3>2, <4>1, OperationsAssumption
      <4>3. CASE k = i
        BY <1>0, <1>5, <3>1, <4>1, <4>3
      <4>4. CASE k < i
        <5>1. ~Fresh(op)
          BY <1>2 DEF Fresh
        <5>2. callbacks[Steps[p][k]] = 1
          BY <1>0, <1>1, <4>1, <4>4, <5>1 DEF OrderInv
        <5> QED
          BY <1>5, <3>1, <4>1, <5>2
      <4> QED
        BY <1>1, <2>2, <3>1, <4>2, <4>3, <4>4
    <3>3. CASE Steps[q][j] # c
      <4>1. callbacks[Steps[q][k]] = 1
        BY <1>7, <2>2, <3>1, <3>3 DEF OrderInv
      <4> QED
        BY <1>5, <3>1, <4>1
    <3> QED
      BY <3>2, <3>3
  <2> QED
    BY <2>1, <2>2 DEF OrderInv
<1>10. UserInv'
  <2>1. ~IsChild(c, Root)
    BY <1>1, TreeFacts
  <2>2. state_[Root] = "idle" => In(User, "Start", Root)'
    BY TreeFacts DEF UserInv
  <2>3. \A u \in Thread : In(u, "OnStart", Root)' => u = User
    BY <1>6, TreeFacts DEF UserInv
  <2>4. \A u \in Thread, o \in Op : In(u, "Start", o)' /\ IsChild(o, Root) => u = User
    BY <1>6, <2>1 DEF UserInv
  <2> QED
    BY <2>2, <2>3, <2>4 DEF UserInv
<1> QED
  BY <1>8, <1>9, <1>10

LEMMA CallbackKeeps ==
    ASSUME SfInv, NEW t \in Thread, Callback(t)
    PROVE  SfInv'
<1> USE DEF SfInv
<1>1. PICK op \in Op : /\ op = Top(t).op /\ At(t, "Callback") /\ stack[t] # <<>>
                       /\ \A x, o : In(t, x, o) <=> x = "Callback" /\ o = op
  BY TopFacts DEF Callback
<1> DEFINE p == Parent(op)
           next == Frame("Start", Head(Successors(op)))
           done == [Frame("Complete", p) EXCEPT !.ec = End(op)]
<1>2. op \in Children /\ state_[op] = "completed" /\ callbacks[op] = 0 /\ p \in Op
  BY <1>1, TreeFacts DEF TokenInv
<1>3. /\ UNCHANGED <<members, user>>
      /\ callbacks' = [callbacks EXCEPT ![op] = callbacks[op] + 1]
      /\ \/ Return(t)
         \/ p # Root /\ Successors(op) # <<>> /\ Goto(t, next)
         \/ p # Root /\ Goto(t, done)
  BY <1>1 DEF Callback
<1>4. callbacks' = [callbacks EXCEPT ![op] = 1] /\ callbacks' \in [Op -> {0, 1}]
  BY <1>2, <1>3 DEF TypeInv
<1>5. OthersHold(t)
  BY <1>3 DEF OthersHold, members
<1>6. CASE Return(t)
  <2>1. /\ stack' \in [Thread -> Seq(Frames)] /\ DeepInv' /\ HoldInv'
        /\ \A u \in Thread \ {t} : stack'[u] = stack[u]
        /\ \A x \in Tokens : \A o : ~In(t, x, o)'
        /\ \A u \in Thread \ {t} : \A x, o : In(u, x, o)' <=> In(u, x, o)
    BY <1>1, <1>5, <1>6, ReturnKeeps
  <2>2. TypeInv'
    BY <1>1, <1>3, <1>4, <2>1, TypesKeep DEF TypeInv, user, members
  <2>3. \A x, o : In(t, x, o)' => (x = "Complete" /\ o \in Children) \/ x \notin Tokens
    BY <2>1
  <2>4. state_' = state_
    BY <1>3 DEF members
  <2> HIDE DEF SfInv
  <2>5. TokenInv' /\ OrderInv' /\ UserInv'
    BY <1>1, <1>4, <2>1, <2>3, <2>4, CalledBack
  <2> QED
    BY <2>1, <2>2, <2>5 DEF SfInv
<1>7. CASE p # Root /\ Goto(t, done)
  <2>1. End(op) \in Errors
    BY <1>2 DEF End, TypeInv, Errors
  <2>2. done \in Frames /\ done.at = "Complete" /\ done.op = p /\ done.at \notin Holders
    BY <1>2, <2>1 DEF Frame, Frames, Places, Tokens, Holders
  <2>3. p \in Children
    BY <1>2, <1>7, TreeFacts
  <2> HIDE DEF done
  <2>4. /\ stack' \in [Thread -> Seq(Frames)] /\ DeepInv' /\ HoldInv'
        /\ \A u \in Thread \ {t} : stack'[u] = stack[u]
        /\ \A x, o : In(t, x, o)' <=> x = "Complete" /\ o = p
        /\ \A u \in Thread \ {t} : \A x, o : In(u, x, o)' <=> In(u, x, o)
    BY <1>1, <1>5, <1>7, <2>2, GotoKeeps
  <2>5. TypeInv'
    BY <1>1, <1>3, <1>4, <2>4, TypesKeep DEF TypeInv, user, members
  <2>6. \A x, o : In(t, x, o)' => (x = "Complete" /\ o \in Children) \/ x \notin Tokens
    BY <2>3, <2>4
  <2>7. state_' = state_
    BY <1>3 DEF members
  <2> HIDE DEF SfInv
  <2>8. TokenInv' /\ OrderInv' /\ UserInv'
    BY <1>1, <1>4, <2>4, <2>6, <2>7, CalledBack
  <2> QED
    BY <2>4, <2>5, <2>8 DEF SfInv
<1>8. CASE p # Root /\ Successors(op) # <<>> /\ Goto(t, next)
  <2>1. PICK c \in Op : c = Head(Successors(op))
    BY <1>2, <1>8, NextFacts
  <2>2. Follows(c, op)
    BY <1>2, <1>8, <2>1, NextFacts
  <2>3. next \in Frames /\ next.at = "Start" /\ next.op = c /\ next.at \notin Holders
    BY <2>1, <2>2 DEF Frame, Frames, Places, Tokens, Holders, Errors
  <2> HIDE DEF next, done
  <2>4. /\ stack' \in [Thread -> Seq(Frames)] /\ DeepInv' /\ HoldInv'
        /\ \A u \in Thread \ {t} : stack'[u] = stack[u]
        /\ \A x, o : In(t, x, o)' <=> x = "Start" /\ o = c
        /\ \A u \in Thread \ {t} : \A x, o : In(u, x, o)' <=> In(u, x, o)
    BY <1>1, <1>5, <1>8, <2>3, GotoKeeps
  <2>5. TypeInv'
    BY <1>1, <1>3, <1>4, <2>4, TypesKeep DEF TypeInv, user, members
  <2>6. state_' = state_
    BY <1>3 DEF members
  <2> HIDE DEF SfInv
  <2>7. TokenInv' /\ OrderInv' /\ UserInv'
    <3>1. Parent(op) # Root
      BY <1>8
    <3>2. \A x, o : In(t, x, o)' <=> x = "Start" /\ o = c
      BY <2>4
    <3>3. \A u \in Thread \ {t} : \A x, o : In(u, x, o)' <=> In(u, x, o)
      BY <2>4
    <3>4. \A x, o : In(t, x, o) <=> x = "Callback" /\ o = op
      BY <1>1
    <3> HIDE DEF p
    <3> QED
      BY <1>2, <1>4, <2>2, <2>6, <3>1, <3>2, <3>3, <3>4, NextChildKeeps
  <2> QED
    BY <2>4, <2>5, <2>7 DEF SfInv
<1> QED
  BY <1>3, <1>6, <1>7, <1>8

LEMMA UserBeginsKeeps ==
    ASSUME SfInv, UserBegins
    PROVE  SfInv'
<1> USE DEF SfInv
<1>1. PICK i \in DOMAIN Steps[Root] :
        /\ state_[Steps[Root][i]] = "idle"
        /\ stack' = [stack EXCEPT ![User] = <<Frame("Start", Steps[Root][i])>>]
  BY DEF UserBegins
<1>2. stack[User] = <<>> /\ UNCHANGED <<members, user, callbacks>>
  BY DEF UserBegins
<1>3. PICK c \in Op : c = Steps[Root][i] /\ IsChild(c, Root) /\ User \in Thread /\ Root \in Op
  BY TreeFacts DEF IsChild
<1> DEFINE f == Frame("Start", c)
<1>4. f \in Frames /\ f.at = "Start" /\ f.op = c /\ f.at \notin Holders
  BY <1>3 DEF Frame, Frames, Places, Tokens, Holders, Errors
<1>5. /\ stack' \in [Thread -> Seq(Frames)] /\ DeepInv' /\ HoldInv'
      /\ \A u \in Thread \ {User} : stack'[u] = stack[u]
      /\ \A x, o : ~In(User, x, o)
      /\ \A x, o : In(User, x, o)' <=> x = "Start" /\ o = c
      /\ \A u \in Thread \ {User} : \A x, o : In(u, x, o)' <=> In(u, x, o)
  <2> HIDE DEF f
  <2>1. stack' = [stack EXCEPT ![User] = <<f>>]
    BY <1>1, <1>3 DEF f
  <2>2. UNCHANGED <<mtx_, state_>>
    BY <1>2 DEF members
  <2>3. TypeInv /\ DeepInv /\ HoldInv
    OBVIOUS
  <2> HIDE DEF SfInv
  <2>4. /\ stack' \in [Thread -> Seq(Frames)] /\ DeepInv' /\ HoldInv'
        /\ \A u \in Thread \ {User} : stack'[u] = stack[u]
        /\ \A x, o : ~In(User, x, o)
        /\ \A x, o : In(User, x, o)' <=> x = f.at /\ o = f.op
        /\ \A u \in Thread \ {User} : \A x, o : In(u, x, o)' <=> In(u, x, o)
    <3>1. stack[User] = <<>> /\ User \in Thread /\ f \in Frames /\ f.at \notin Holders
      BY <1>2, <1>3, <1>4
    <3> QED
      BY <3>1, <2>1, <2>2, <2>3, BeginsKeep
  <2> QED
    BY <1>4, <2>4
<1> HIDE DEF f
<1>6. User \notin fresh
  BY TreeFacts DEF TypeInv
<1>7. TypeInv'
  <2>1. handedOver' \subseteq Children /\ fresh' = fresh \ {User}
    BY <1>2, <1>6 DEF TypeInv, user
  <2> QED
    BY <1>2, <1>3, <1>5, <2>1, TypesBegin
<1>8. Fresh(c)
  BY <1>1, <1>3, <1>5 DEF UserInv, Fresh
<1>9. state_' = state_ /\ callbacks' = callbacks
  BY <1>2 DEF members
<1>10. state_[Root] # "idle" /\ \A u \in Thread : ~In(u, "OnStart", Root)
  BY <1>5 DEF UserInv
<1>11. \A o \in Op : Fresh(o)' <=> Fresh(o) /\ o # c
  BY <1>3, <1>5, <1>9 DEF Fresh
<1>12. \A u \in Thread, o \in Op :
        /\ In(u, "Start", o)' => (u = User /\ o = c) \/ (o # c /\ In(u, "Start", o))
        /\ In(u, "OnStart", o)' <=> In(u, "OnStart", o)
        /\ In(u, "Complete", o)' \/ In(u, "Completed", o)' => o \in Children
        /\ In(u, "Callback", o)' <=> In(u, "Callback", o)
  BY <1>5, <1>8 DEF TokenInv, Fresh
<1>13. TokenInv'
  BY <1>8, <1>9, <1>12 DEF TokenInv, Fresh
<1>14. OrderInv'
  <2>1. ASSUME NEW q \in Op, NEW x \in Op, IsChild(x, q),
               state_'[q] = "idle" \/ \E u \in Thread : In(u, "OnStart", q)'
        PROVE  Fresh(x)'
    <3>1. q # Root /\ Fresh(x)
      BY <1>9, <1>10, <1>12, <2>1 DEF OrderInv
    <3>2. x # c
      BY <1>3, <2>1, <3>1, TreeFacts
    <3> QED
      BY <1>11, <3>1, <3>2
  <2>2. ASSUME NEW q \in Op \ {Root}, NEW k \in DOMAIN Steps[q], NEW j \in DOMAIN Steps[q],
               k < j, ~Fresh(Steps[q][j])'
        PROVE  callbacks'[Steps[q][k]] = 1
    <3>1. Steps[q][j] \in Op /\ IsChild(Steps[q][j], q)
      BY TreeFacts DEF IsChild
    <3>2. Steps[q][j] # c
      BY <1>3, <3>1, TreeFacts
    <3> QED
      BY <1>9, <1>11, <2>2, <3>1, <3>2 DEF OrderInv
  <2> QED
    BY <2>1, <2>2 DEF OrderInv
<1>15. UserInv'
  BY <1>9, <1>10, <1>12, <1>3 DEF UserInv
<1> QED
  BY <1>5, <1>7, <1>13, <1>14, <1>15
-----------------------------------------------------------------------------
LEMMA SfInitially == Init => SfInv
<1> SUFFICES ASSUME Init
             PROVE  SfInv
  OBVIOUS
<1> DEFINE f == Frame("Start", Root)
<1>1. f \in Frames /\ f.at = "Start" /\ f.op = Root /\ f.at \notin Holders
  BY TreeFacts DEF Frame, Frames, Places, Tokens, Holders, Errors
<1>2. \A t \in Thread : stack[t] = IF t = User THEN <<f>> ELSE <<>>
  BY DEF Init
<1>3. stack \in [Thread -> Seq(Frames)]
  <2>1. <<f>> \in Seq(Frames) /\ <<>> \in Seq(Frames)
    BY <1>1
  <2> QED
    BY <2>1 DEF Init
<1> HIDE DEF f
<1>4. /\ Len(<<f>>) = 1 /\ <<f>>[1] = f /\ <<f>> # <<>> /\ DOMAIN <<f>> = {1}
      /\ Len(<<>>) = 0 /\ DOMAIN <<>> = {}
  OBVIOUS
<1>5. TypeInv
  <2>1. \A t \in fresh : stack[t] = <<>> /\ t \in Cancellers
    BY <1>2, TreeFacts DEF Init
  <2> QED
    BY <1>3, <2>1 DEF Init, TypeInv, States, Errors
<1>6. DeepInv
  BY <1>2, <1>4 DEF DeepInv
<1>7. HoldInv
  BY <1>1, <1>2, <1>4 DEF HoldInv, Hold
<1>8. \A t \in Thread : \A x, o : In(t, x, o) <=> t = User /\ x = "Start" /\ o = Root
  BY <1>1, <1>2, <1>4 DEF In
<1>9. \A o \in Op : state_[o] = "idle" /\ callbacks[o] = 0
  BY DEF Init
<1>10. \A o \in Op : Fresh(o) <=> o # Root
  BY <1>8, <1>9, TreeFacts DEF Fresh
<1>11. \A c, p \in Op : IsChild(c, p) => c # Root
  BY OperationsAssumption DEF Children
<1>12. TokenInv
  BY <1>8, <1>9 DEF TokenInv
<1>13. OrderInv
  <2>1. \A p \in Op : \A j \in DOMAIN Steps[p] : Steps[p][j] \in Op /\ IsChild(Steps[p][j], p)
    BY TreeFacts DEF IsChild
  <2> QED
    BY <1>10, <1>11, <2>1 DEF OrderInv
<1>14. UserInv
  BY <1>8, <1>11, TreeFacts DEF UserInv
<1> QED
  BY <1>5, <1>6, <1>7, <1>12, <1>13, <1>14 DEF SfInv

LEMMA StutterKeeps ==
    ASSUME SfInv, UNCHANGED vars
    PROVE  SfInv'
BY DEF vars, members, user, SfInv, TypeInv, DeepInv, HoldInv, Hold, TokenInv, In, OrderInv, Fresh, UserInv

LEMMA SfInvIsInductive == SfInv /\ [Next]_vars => SfInv'
<1> SUFFICES ASSUME SfInv, [Next]_vars
             PROVE  SfInv'
  OBVIOUS
<1>1. ASSUME NEW t \in Thread, Proceed(t)
      PROVE  SfInv'
  BY <1>1, StartKeeps, OnStartKeeps, StartReturnsKeeps, CompleteKeeps, CompletedKeeps, CallbackKeeps,
     CancelKeeps, CancelledChildKeeps, OnCancelKeeps, CancellingKeeps, CancelDetachKeeps DEF Proceed
<1>2. ASSUME NEW t \in Thread, WorkDone(t) \/ CallCancel(t)
      PROVE  SfInv'
  BY <1>2, WorkDoneKeeps, CallCancelKeeps
<1> QED
  BY <1>1, <1>2, UserBeginsKeeps, StutterKeeps DEF Next

(***************************************************************************)
(* In any tree of operations, with any number of cancellers: the callback  *)
(* of an operation is called at most once, only when it has completed, and *)
(* an operation that completed has had its callback or is in it.           *)
(***************************************************************************)
THEOREM CalledBackExactlyOnce == Spec => []CallbackExactlyOnce
<1>1. SfInv => CallbackExactlyOnce
  <2> SUFFICES ASSUME SfInv, NEW op \in Children
               PROVE  /\ callbacks[op] <= 1
                      /\ callbacks[op] = 1 => state_[op] = "completed"
                      /\ state_[op] = "completed" => callbacks[op] = 1 \/ Someone({"Callback"}, op)
    BY DEF CallbackExactlyOnce
  <2>1. op \in Op
    BY TreeFacts
  <2>2. callbacks[op] \in {0, 1}
    BY <2>1 DEF SfInv, TypeInv
  <2>3. ASSUME NEW t \in Thread, In(t, "Callback", op)
        PROVE  Someone({"Callback"}, op)
    <3>1. stack[t] \in Seq(Frames) /\ stack[t] # <<>>
      BY <2>3 DEF SfInv, TypeInv, In
    <3>2. 1 \in DOMAIN stack[t]
      BY <3>1
    <3> QED
      BY <2>3, <3>2 DEF Someone, In
  <2> QED
    BY <2>1, <2>2, <2>3 DEF SfInv, TokenInv
<1> QED
  BY <1>1, SfInitially, SfInvIsInductive, PTL DEF Spec

-----------------------------------------------------------------------------
(***************************************************************************)
(* The link from the parent and the results.  Here frames are counted from *)
(* the bottom of a stack, where a frame stays until it is the innermost.   *)
(***************************************************************************)
NoFrame == Frame("none", Root)
F(t, k) == IF k \in 1..Len(stack[t]) THEN stack[t][Len(stack[t]) - k + 1] ELSE NoFrame

On(t, k, at, op) == F(t, k).at = at /\ F(t, k).op = op
One(at, op) == \E t \in Thread, k \in Nat : On(t, k, at, op)

\* At most one frame is at these places of op.
Unique(places, op) ==
    \A t, u \in Thread, k, j \in Nat :
        /\ F(t, k).at \in places /\ F(t, k).op = op
        /\ F(u, j).at \in places /\ F(u, j).op = op
        => t = u /\ k = j

\* An operation that is cancelled is in one Cancel, which goes on to detach it.
InsideCancel == {"OnCancel", "Cancelling"}
CancelInv ==
    \A op \in Op :
        /\ state_[op] = "cancelling" <=> \E at \in InsideCancel : One(at, op)
        /\ Unique(InsideCancel, op)
        /\ One("CancelDetach", op) => state_[op] = "cancelled"

\* Somebody is going to complete op, or to do what leads to that.
Ending == {"OnStart", "Complete", "Completed"}
Pending(op) == op \in handedOver \/ \E at \in Ending : One(at, op)

\* An operation was begun and its callback was not called, perhaps never will be.
Live(op) == ~Fresh(op) /\ callbacks[op] = 0

\* An operation that is not cancelled is completed once, with no child left.
DoneAt(op) ==
    /\ Pending(op) => state_[op] \notin {"idle", "completed"}
    /\ op \in handedOver => IsLeaf(op)
    /\ state_[op] = "started" =>
          Unique(Ending, op) /\ (op \in handedOver => ~\E at \in Ending : One(at, op))
    /\ state_[op] = "completed" \/ (state_[op] = "started" /\ Pending(op)) =>
          \A c \in Op : IsChild(c, op) => ~Live(c)
DoneInv == \A op \in Children : DoneAt(op)

\* The next child of the root is not begun before the last one is detached.
Gone(op) == state_[op] = "completed" \/ (state_[op] = "cancelled" /\ ~One("CancelDetach", op))
SerialInv ==
    \A i, j \in DOMAIN Steps[Root] : i < j /\ ~Fresh(Steps[Root][j]) => Gone(Steps[Root][i])

\* Who is in child_, and who has to be.
LinkInv ==
    /\ asserts \subseteq {"cancel twice"}
    /\ \A p \in Op, c \in Op : child_[p] = c =>
          /\ IsChild(c, p) /\ c \in parent_
          /\ state_[c] \in {"started", "cancelling"} \/ One("CancelDetach", c)
    /\ \A c \in Children : state_[c] = "idle" => c \in parent_
    /\ \A p, c \in Op :
          /\ IsChild(c, p) /\ state_[c] = "started"
          /\ state_[p] = "started" /\ ~One("CancelledChild", p)
          => child_[p] = c

\* The children of op have completed with success.
Succeeded(c) == callbacks[c] = 1 /\ results[c] = "ok"
ChildrenSucceeded(op) == \A c \in Op : IsChild(c, op) => Succeeded(c)
Claimed(at, op, ec) == \E t \in Thread, k \in Nat : On(t, k, at, op) /\ F(t, k).ec = ec

ResultInv ==
    /\ \A op \in Children :
          /\ Claimed("Complete", op, "ok") => ChildrenSucceeded(op)
          /\ One("Completed", op) \/ state_[op] = "completed" =>
                (ec_[op] = "ok" => ChildrenSucceeded(op))
    /\ \A p \in Op \ {Root} : \A i, j \in DOMAIN Steps[p] :
          i < j /\ ~Fresh(Steps[p][j]) => Succeeded(Steps[p][i])

\* What End returns, and the root, which is never completed.
EndInv == state_[Root] # "completed" /\ results \in [Op -> Errors \cup {"none"}]

ChildInv == CancelInv /\ DoneInv /\ SerialInv /\ LinkInv /\ ResultInv

-----------------------------------------------------------------------------
(***************************************************************************)
(* A step of a thread puts f in the place d of its innermost frame and g   *)
(* on top of it.                                                           *)
(***************************************************************************)
Moves(t, d, f, g) ==
    /\ stack' \in [Thread -> Seq(Frames)]
    /\ \A u \in Thread \ {t} : stack'[u] = stack[u]
    /\ \A u \in Thread, k \in Nat :
          F(u, k)' = IF u = t /\ k = d THEN f ELSE IF u = t /\ k = d + 1 THEN g ELSE F(u, k)

AtTop(t, d, at, op) ==
    /\ stack[t] # <<>> /\ Top(t) \in Frames /\ F(t, d) = Top(t) /\ F(t, d + 1) = NoFrame
    /\ Top(t).at = at /\ Top(t).op = op /\ d = Len(stack[t])

LEMMA NoFrameFacts == NoFrame.at = "none" /\ NoFrame.op = Root /\ NoFrame.ec = "ok"
BY DEF NoFrame, Frame

LEMMA TopPlace ==
    ASSUME TypeInv, NEW t \in Thread, NEW at, At(t, at)
    PROVE  \E d \in Nat, op \in Op : AtTop(t, d, at, op) /\ One(at, op)
<1> DEFINE d == Len(stack[t])
<1>1. stack[t] \in Seq(Frames) /\ stack[t] # <<>> /\ d \in Nat /\ d >= 1
  BY DEF TypeInv, At
<1>2. Top(t) = stack[t][1] /\ Top(t) \in Frames
  BY <1>1 DEF Top
<1>3. F(t, d) = Top(t) /\ F(t, d + 1) = NoFrame
  BY <1>1, <1>2 DEF F
<1>4. Top(t).at = at /\ Top(t).op \in Op
  BY <1>2 DEF At, Top, Frames
<1>5. One(at, Top(t).op)
  BY <1>1, <1>3, <1>4 DEF One, On
<1> QED
  BY <1>1, <1>2, <1>3, <1>4, <1>5 DEF AtTop

LEMMA GotoMoves ==
    ASSUME TypeInv, NEW t \in Thread, NEW d \in Nat, NEW at, NEW op, AtTop(t, d, at, op),
           NEW f \in Frames, Goto(t, f)
    PROVE  Moves(t, d, f, NoFrame)
<1>1. stack[t] \in Seq(Frames) /\ d = Len(stack[t]) /\ d >= 1
  BY DEF TypeInv, AtTop
<1>2. stack' = [stack EXCEPT ![t] = <<f>> \o Tail(stack[t])]
  BY DEF Goto
<1> DEFINE s == <<f>> \o Tail(stack[t])
<1>3. s \in Seq(Frames) /\ Len(s) = d /\ s[1] = f /\ \A i \in 2..d : s[i] = stack[t][i]
  BY <1>1
<1> HIDE DEF s
<1>4. /\ stack' \in [Thread -> Seq(Frames)] /\ stack'[t] = s
      /\ \A u \in Thread \ {t} : stack'[u] = stack[u]
  BY <1>2, <1>3 DEF TypeInv, s
<1>5. ASSUME NEW u \in Thread, NEW k \in Nat
      PROVE  F(u, k)' = IF u = t /\ k = d THEN f ELSE IF u = t /\ k = d + 1 THEN NoFrame ELSE F(u, k)
  <2>1. CASE u # t
    BY <1>4, <2>1 DEF F
  <2>2. CASE u = t
    BY <1>1, <1>3, <1>4, <2>2 DEF F
  <2> QED
    BY <2>1, <2>2
<1> QED
  BY <1>4, <1>5 DEF Moves

LEMMA CallMoves ==
    ASSUME TypeInv, NEW t \in Thread, NEW d \in Nat, NEW at, NEW op, AtTop(t, d, at, op),
           NEW f \in Frames, NEW g \in Frames, Call(t, f, g)
    PROVE  Moves(t, d, f, g)
<1>1. stack[t] \in Seq(Frames) /\ d = Len(stack[t]) /\ d >= 1
  BY DEF TypeInv, AtTop
<1>2. stack' = [stack EXCEPT ![t] = <<g, f>> \o Tail(stack[t])]
  BY DEF Call
<1> DEFINE s == <<g, f>> \o Tail(stack[t])
<1>3. /\ s \in Seq(Frames) /\ Len(s) = d + 1 /\ s[1] = g /\ s[2] = f
      /\ \A i \in 3..(d + 1) : s[i] = stack[t][i - 1]
  BY <1>1
<1> HIDE DEF s
<1>4. /\ stack' \in [Thread -> Seq(Frames)] /\ stack'[t] = s
      /\ \A u \in Thread \ {t} : stack'[u] = stack[u]
  BY <1>2, <1>3 DEF TypeInv, s
<1>5. ASSUME NEW u \in Thread, NEW k \in Nat
      PROVE  F(u, k)' = IF u = t /\ k = d THEN f ELSE IF u = t /\ k = d + 1 THEN g ELSE F(u, k)
  <2>1. CASE u # t
    BY <1>4, <2>1 DEF F
  <2>2. CASE u = t
    <3>1. F(t, k)' = IF k \in 1..(d + 1) THEN s[d + 1 - k + 1] ELSE NoFrame
      BY <1>1, <1>3, <1>4 DEF F
    <3>2. F(t, k) = IF k \in 1..d THEN stack[t][d - k + 1] ELSE NoFrame
      BY <1>1 DEF F
    <3>3. CASE k \in 1..(d - 1)
      <4>1. /\ d + 1 - k + 1 \in 3..(d + 1) /\ (d + 1 - k + 1) - 1 = d - k + 1
            /\ k \in 1..d /\ k \in 1..(d + 1) /\ k # d /\ k # d + 1
        BY <1>1, <3>3
      <4>2. F(t, k)' = stack[t][d - k + 1]
        BY <1>3, <3>1, <4>1
      <4> QED
        BY <2>2, <3>2, <4>1, <4>2
    <3>4. CASE k = d
      <4>1. d + 1 - k + 1 = 2 /\ k \in 1..(d + 1)
        BY <1>1, <3>4
      <4>2. F(t, k)' = f
        BY <1>3, <3>1, <4>1
      <4> QED
        BY <2>2, <3>4, <4>2
    <3>5. CASE k = d + 1
      <4>1. d + 1 - k + 1 = 1 /\ k \in 1..(d + 1) /\ k # d
        BY <1>1, <3>5
      <4>2. F(t, k)' = g
        BY <1>3, <3>1, <4>1
      <4> QED
        BY <2>2, <3>5, <4>1, <4>2
    <3>6. CASE k = 0 \/ k > d + 1
      BY <1>1, <2>2, <3>1, <3>2, <3>6
    <3> QED
      BY <1>1, <3>3, <3>4, <3>5, <3>6
  <2> QED
    BY <2>1, <2>2
<1> QED
  BY <1>4, <1>5 DEF Moves

LEMMA ReturnMoves ==
    ASSUME TypeInv, NEW t \in Thread, NEW d \in Nat, NEW at, NEW op, AtTop(t, d, at, op), Return(t)
    PROVE  Moves(t, d, NoFrame, NoFrame)
<1>1. stack[t] \in Seq(Frames) /\ d = Len(stack[t]) /\ d >= 1
  BY DEF TypeInv, AtTop
<1>2. stack' = [stack EXCEPT ![t] = Tail(stack[t])]
  BY DEF Return
<1> DEFINE s == Tail(stack[t])
<1>3. s \in Seq(Frames) /\ Len(s) = d - 1 /\ \A i \in 1..(d - 1) : s[i] = stack[t][i + 1]
  BY <1>1
<1> HIDE DEF s
<1>4. /\ stack' \in [Thread -> Seq(Frames)] /\ stack'[t] = s
      /\ \A u \in Thread \ {t} : stack'[u] = stack[u]
  BY <1>2, <1>3 DEF TypeInv, s
<1>5. ASSUME NEW u \in Thread, NEW k \in Nat
      PROVE  F(u, k)' = IF u = t /\ k = d THEN NoFrame ELSE IF u = t /\ k = d + 1 THEN NoFrame ELSE F(u, k)
  <2>1. CASE u # t
    BY <1>4, <2>1 DEF F
  <2>2. CASE u = t
    <3>1. F(t, k)' = IF k \in 1..(d - 1) THEN s[d - 1 - k + 1] ELSE NoFrame
      BY <1>1, <1>3, <1>4 DEF F
    <3>2. F(t, k) = IF k \in 1..d THEN stack[t][d - k + 1] ELSE NoFrame
      BY <1>1 DEF F
    <3>3. CASE k \in 1..(d - 1)
      <4>1. d - 1 - k + 1 \in 1..(d - 1) /\ (d - 1 - k + 1) + 1 = d - k + 1
        BY <1>1, <3>3
      <4> QED
        BY <1>1, <1>3, <2>2, <3>1, <3>2, <3>3, <4>1
    <3>4. CASE k = 0 \/ k >= d
      BY <1>1, <2>2, <3>1, <3>2, <3>4
    <3> QED
      BY <1>1, <3>3, <3>4
  <2> QED
    BY <2>1, <2>2
<1> QED
  BY <1>4, <1>5 DEF Moves

\* A thread with nothing to do takes up something.
LEMMA BeginMoves ==
    ASSUME TypeInv, NEW t \in Thread, stack[t] = <<>>, NEW f \in Frames,
           stack' = [stack EXCEPT ![t] = <<f>>]
    PROVE  F(t, 1) = NoFrame /\ F(t, 2) = NoFrame /\ Moves(t, 1, f, NoFrame)
<1>1. /\ stack' \in [Thread -> Seq(Frames)] /\ stack'[t] = <<f>> /\ Len(stack[t]) = 0
      /\ \A u \in Thread \ {t} : stack'[u] = stack[u]
  BY DEF TypeInv
<1>2. F(t, 1) = NoFrame /\ F(t, 2) = NoFrame
  BY <1>1 DEF F
<1>3. ASSUME NEW u \in Thread, NEW k \in Nat
      PROVE  F(u, k)' = IF u = t /\ k = 1 THEN f ELSE IF u = t /\ k = 1 + 1 THEN NoFrame ELSE F(u, k)
  BY <1>1, <1>3 DEF F
<1> QED
  BY <1>1, <1>2, <1>3 DEF Moves

LEMMA OneMoves ==
    ASSUME NEW t \in Thread, NEW d \in Nat, NEW f, NEW g, Moves(t, d, f, g), F(t, d + 1) = NoFrame,
           NEW at, NEW op, at # "none"
    PROVE  /\ One(at, op)' => One(at, op) \/ (at = f.at /\ op = f.op) \/ (at = g.at /\ op = g.op)
           /\ at = f.at /\ op = f.op => One(at, op)'
           /\ at = g.at /\ op = g.op => One(at, op)'
           /\ One(at, op) => One(at, op)' \/ On(t, d, at, op)
<1>1. d + 1 \in Nat /\ d # d + 1
  OBVIOUS
<1>2. One(at, op)' => One(at, op) \/ (at = f.at /\ op = f.op) \/ (at = g.at /\ op = g.op)
  BY DEF One, On, Moves
<1>3. at = f.at /\ op = f.op => One(at, op)'
  BY DEF One, On, Moves
<1>4. at = g.at /\ op = g.op => One(at, op)'
  BY <1>1 DEF One, On, Moves
<1>5. One(at, op) => One(at, op)' \/ On(t, d, at, op)
  <2>1. SUFFICES ASSUME NEW u \in Thread, NEW k \in Nat, On(u, k, at, op), ~On(t, d, at, op)
                 PROVE  On(u, k, at, op)'
    BY DEF One
  <2>2. F(t, d + 1).at = "none"
    BY NoFrameFacts
  <2> QED
    BY <2>1, <2>2 DEF On, Moves
<1> QED
  BY <1>2, <1>3, <1>4, <1>5

\* Frames that are unique stay so, if the new ones are.
LEMMA UniqueMoves ==
    ASSUME NEW t \in Thread, NEW d \in Nat, NEW f, NEW g, Moves(t, d, f, g),
           NEW places, "none" \notin places, NEW op, Unique(places, op),
           f.at \in places /\ f.op = op =>
              (F(t, d).at \in places /\ F(t, d).op = op) \/ \A at \in places : ~One(at, op),
           g.at \in places /\ g.op = op =>
              (F(t, d).at \in places /\ F(t, d).op = op) \/ \A at \in places : ~One(at, op),
           ~(f.at \in places /\ f.op = op /\ g.at \in places /\ g.op = op)
    PROVE  Unique(places, op)'
<1> DEFINE New(u, k) == u = t /\ (k = d \/ k = d + 1)
           Is(h) == h.at \in places /\ h.op = op
<1>1. ASSUME NEW u \in Thread, NEW k \in Nat, NEW v \in Thread, NEW j \in Nat,
             Is(F(u, k)'), Is(F(v, j)')
      PROVE  u = v /\ k = j
  <2>1. CASE ~New(u, k) /\ ~New(v, j)
    BY <1>1, <2>1 DEF Moves, Unique
  <2>2. ASSUME NEW x \in Thread, NEW i \in Nat, ~New(x, i), Is(f) \/ Is(g), Is(F(x, i))
        PROVE  FALSE
    <3>1. On(x, i, F(x, i).at, op)
      BY <2>2 DEF On
    <3>2. ~\A at \in places : ~One(at, op)
      BY <2>2, <3>1 DEF One
    <3>3. Is(F(t, d))
      BY <2>2, <3>2
    <3> QED
      BY <2>2, <3>3 DEF Unique
  <2>3. CASE New(u, k) /\ ~New(v, j)
    <3>1. F(v, j)' = F(v, j) /\ (F(u, k)' = f \/ F(u, k)' = g)
      BY <2>3 DEF Moves
    <3> QED
      BY <1>1, <2>2, <2>3, <3>1
  <2>4. CASE ~New(u, k) /\ New(v, j)
    <3>1. F(u, k)' = F(u, k) /\ (F(v, j)' = f \/ F(v, j)' = g)
      BY <2>4 DEF Moves
    <3> QED
      BY <1>1, <2>2, <2>4, <3>1
  <2>5. CASE New(u, k) /\ New(v, j)
    BY <1>1, <2>5 DEF Moves
  <2> QED
    BY <2>1, <2>3, <2>4, <2>5
<1> QED
  BY <1>1 DEF Unique

\* The only frame at a place is gone after the step.
LEMMA UniqueGone ==
    ASSUME NEW t \in Thread, NEW d \in Nat, NEW f, NEW g, Moves(t, d, f, g),
           NEW places, "none" \notin places, NEW op, Unique(places, op),
           F(t, d).at \in places, F(t, d).op = op,
           ~(f.at \in places /\ f.op = op), ~(g.at \in places /\ g.op = op)
    PROVE  \A at \in places : ~One(at, op)'
<1> SUFFICES ASSUME NEW at \in places, NEW u \in Thread, NEW k \in Nat, On(u, k, at, op)'
             PROVE  FALSE
  BY DEF One
<1>1. ~(u = t /\ (k = d \/ k = d + 1))
  BY DEF On, Moves
<1>2. F(u, k) = F(u, k)'
  BY <1>1 DEF Moves
<1>3. F(u, k).at \in places /\ F(u, k).op = op
  BY <1>2 DEF On
<1> QED
  BY <1>1, <1>3 DEF Unique

LEMMA ClaimedMoves ==
    ASSUME NEW t \in Thread, NEW d \in Nat, NEW f, NEW g, Moves(t, d, f, g),
           NEW at, NEW op, NEW ec, Claimed(at, op, ec)'
    PROVE  \/ Claimed(at, op, ec)
           \/ at = f.at /\ op = f.op /\ ec = f.ec
           \/ at = g.at /\ op = g.op /\ ec = g.ec
BY DEF Claimed, On, Moves

\* A frame at a place that nothing is called from is the innermost.
LEMMA Innermost ==
    ASSUME TypeInv, DeepInv, NEW at \in Places \ Deep, NEW op
    PROVE  One(at, op) <=> \E t \in Thread : In(t, at, op)
<1>1. ASSUME NEW t \in Thread, NEW k \in Nat, On(t, k, at, op)
      PROVE  In(t, at, op)
  <2>1. at # "none"
    BY DEF Places, Tokens, Deep
  <2>2. k \in 1..Len(stack[t]) /\ stack[t] \in Seq(Frames) /\ Len(stack[t]) \in Nat
    BY <1>1, <2>1, NoFrameFacts DEF F, On, TypeInv
  <2> DEFINE i == Len(stack[t]) - k + 1
  <2>3. i \in 1..Len(stack[t])
    BY <2>2
  <2>4. i \in 1..Len(stack[t]) /\ stack[t][i].at = at /\ stack[t][i].op = op
    BY <1>1, <2>2, <2>3 DEF F, On
  <2> HIDE DEF i
  <2>5. ~(i \in 2..Len(stack[t]))
    BY <2>4 DEF DeepInv
  <2>6. i = 1
    BY <2>2, <2>4, <2>5
  <2> QED
    BY <2>2, <2>4, <2>6 DEF In
<1>2. ASSUME NEW t \in Thread, In(t, at, op)
      PROVE  One(at, op)
  <2>1. stack[t] \in Seq(Frames) /\ stack[t] # <<>> /\ Len(stack[t]) \in Nat /\ Len(stack[t]) >= 1
    BY <1>2 DEF TypeInv, In
  <2>2. F(t, Len(stack[t])) = stack[t][1]
    BY <2>1 DEF F
  <2> QED
    BY <1>2, <2>1, <2>2 DEF One, On, In
<1> QED
  BY <1>1, <1>2 DEF One

\* The lock of an operation is held by the one who is at such a place.
LEMMA Holding ==
    ASSUME TypeInv, HoldInv, NEW at \in Holders, NEW op \in Op, One(at, op)
    PROVE  state_[op] = "started" /\ ~Free(op)
<1>1. PICK t \in Thread, k \in Nat : On(t, k, at, op)
  BY DEF One
<1>2. at # "none"
  BY DEF Holders
<1>3. k \in 1..Len(stack[t]) /\ stack[t] \in Seq(Frames) /\ Len(stack[t]) \in Nat
  BY <1>1, <1>2, NoFrameFacts DEF F, On, TypeInv
<1> DEFINE i == Len(stack[t]) - k + 1
<1>4. i \in 1..Len(stack[t])
  BY <1>3
<1>5. i \in DOMAIN stack[t] /\ Hold(t, i, op)
  BY <1>1, <1>3, <1>4 DEF F, On, Hold
<1> QED
  BY <1>5, TreeFacts DEF HoldInv, Free

-----------------------------------------------------------------------------
\* What the invariant above says of frames counted from the bottom.
TokenView ==
    \A op \in Op :
        /\ Fresh(op) <=> state_[op] = "idle" /\ ~One("Start", op)
        /\ One("Start", op) => state_[op] = "idle"
        /\ One("OnStart", op) => state_[op] # "idle" /\ \A c \in Op : IsChild(c, op) => Fresh(c)
        /\ One("Complete", op) \/ One("Completed", op) => op \in Children
        /\ One("Callback", op) => op \in Children /\ state_[op] = "completed" /\ callbacks[op] = 0
        /\ One("Completed", op) \/ One("CancelledChild", op) => state_[op] = "started" /\ ~Free(op)

LEMMA TokenFacts == SfInv => TokenView
<1> SUFFICES ASSUME SfInv PROVE TokenView
  OBVIOUS
<1> USE DEF SfInv
<1>1. ASSUME NEW op \in Op
      PROVE  /\ Fresh(op) <=> state_[op] = "idle" /\ ~One("Start", op)
             /\ One("Start", op) => state_[op] = "idle"
             /\ One("OnStart", op) => state_[op] # "idle" /\ \A c \in Op : IsChild(c, op) => Fresh(c)
             /\ One("Complete", op) \/ One("Completed", op) => op \in Children
             /\ One("Callback", op) => op \in Children /\ state_[op] = "completed" /\ callbacks[op] = 0
  <2>1. {"Start", "OnStart", "Complete", "Completed", "Callback"} \subseteq Places \ Deep
    BY DEF Places, Tokens, Deep
  <2>2. \A at \in {"Start", "OnStart", "Complete", "Completed", "Callback"} :
           One(at, op) <=> \E t \in Thread : In(t, at, op)
    BY <2>1, Innermost
  <2>3. Fresh(op) <=> state_[op] = "idle" /\ ~One("Start", op)
    BY <2>2 DEF Fresh
  <2>4. One("Start", op) => state_[op] = "idle"
    BY <2>2 DEF TokenInv
  <2>5. One("OnStart", op) => state_[op] # "idle" /\ \A c \in Op : IsChild(c, op) => Fresh(c)
    BY <2>2 DEF TokenInv, OrderInv
  <2>6. One("Complete", op) \/ One("Completed", op) => op \in Children
    BY <2>2 DEF TokenInv
  <2>7. One("Callback", op) => op \in Children /\ state_[op] = "completed" /\ callbacks[op] = 0
    BY <2>2 DEF TokenInv
  <2> QED
    BY <2>3, <2>4, <2>5, <2>6, <2>7
<1>2. \A op \in Op : One("Completed", op) \/ One("CancelledChild", op) => state_[op] = "started" /\ ~Free(op)
  <2>1. "Completed" \in Holders /\ "CancelledChild" \in Holders
    BY DEF Holders
  <2> QED
    BY <2>1, Holding
<1> QED
  BY <1>1, <1>2 DEF TokenView

LEMMA TokenFactsNext == SfInv' => TokenView'
BY TokenFacts, PTL

-----------------------------------------------------------------------------
(***************************************************************************)
(* Steps that do not change a part of the invariant.                       *)
(***************************************************************************)
LEMMA FreshStays ==
    ASSUME SfInv, SfInv', NEW t \in Thread, NEW d \in Nat, NEW f, NEW g, Moves(t, d, f, g),
           F(t, d + 1) = NoFrame, "Start" \notin {F(t, d).at, f.at, g.at},
           NEW op \in Op, state_'[op] = "idle" <=> state_[op] = "idle"
    PROVE  Fresh(op)' <=> Fresh(op)
<1>1. One("Start", op)' <=> One("Start", op)
  BY OneMoves DEF On
<1> QED
  BY <1>1, TokenFacts, TokenFactsNext DEF TokenView

LEMMA CancelStays ==
    ASSUME CancelInv, NEW t \in Thread, NEW d \in Nat, NEW f, NEW g, Moves(t, d, f, g),
           F(t, d + 1) = NoFrame, {F(t, d).at, f.at, g.at} \cap InsideCancel = {},
           "CancelDetach" \notin {f.at, g.at},
           \A op \in Op : /\ state_'[op] = "cancelling" <=> state_[op] = "cancelling"
                          /\ state_[op] = "cancelled" => state_'[op] = "cancelled"
    PROVE  CancelInv'
<1>1. "none" \notin InsideCancel
  BY DEF InsideCancel
<1>2. \A op \in Op, at \in InsideCancel : One(at, op)' <=> One(at, op)
  BY <1>1, OneMoves DEF On
<1>3. \A op \in Op : Unique(InsideCancel, op)'
  BY <1>1, UniqueMoves DEF CancelInv
<1>4. \A op \in Op : One("CancelDetach", op)' => One("CancelDetach", op)
  BY OneMoves
<1> QED
  BY <1>2, <1>3, <1>4 DEF CancelInv

LEMMA DoneAtStays ==
    ASSUME NEW op \in Op, DoneAt(op), NEW t \in Thread, NEW d \in Nat, NEW f, NEW g, Moves(t, d, f, g),
           F(t, d + 1) = NoFrame, \A h \in {F(t, d), f, g} : ~(h.at \in Ending /\ h.op = op),
           op \in handedOver' <=> op \in handedOver,
           state_'[op] = state_[op] \/ state_'[op] \in {"cancelling", "cancelled"},
           state_[op] = "idle" <=> state_'[op] = "idle",
           \A c \in Op : IsChild(c, op) /\ Live(c)' => Live(c)
    PROVE  DoneAt(op)'
<1>1. "none" \notin Ending
  BY DEF Ending
<1>2. \A at \in Ending : One(at, op)' <=> One(at, op)
  BY <1>1, OneMoves DEF On
<1>3. Unique(Ending, op) => Unique(Ending, op)'
  BY <1>1, UniqueMoves
<1>4. Pending(op)' <=> Pending(op)
  BY <1>2 DEF Pending
<1> QED
  BY <1>2, <1>3, <1>4 DEF DoneAt

LEMMA DoneStays ==
    ASSUME DoneInv, NEW t \in Thread, NEW d \in Nat, NEW f, NEW g, Moves(t, d, f, g),
           F(t, d + 1) = NoFrame, {F(t, d).at, f.at, g.at} \cap Ending = {},
           handedOver' = handedOver,
           \A op \in Op : /\ Live(op)' => Live(op) \/ IsChild(op, Root)
                          /\ state_'[op] = state_[op] \/ state_'[op] \in {"cancelling", "cancelled"}
                          /\ state_[op] = "idle" <=> state_'[op] = "idle"
    PROVE  DoneInv'
<1>1. \A op \in Children, c \in Op : IsChild(c, op) => op \in Op /\ ~IsChild(c, Root)
  BY TreeFacts
<1>2. Children \subseteq Op
  BY TreeFacts
<1> QED
  BY <1>1, <1>2, DoneAtStays DEF DoneInv

LEMMA SerialStays ==
    ASSUME SerialInv, NEW t \in Thread, NEW d \in Nat, NEW f, NEW g, Moves(t, d, f, g),
           F(t, d + 1) = NoFrame, g.at # "CancelDetach",
           f.at = "CancelDetach" => state_[f.op] = "cancelling",
           \A op \in Op : /\ IsChild(op, Root) /\ Fresh(op) => Fresh(op)'
                          /\ state_[op] \in {"completed", "cancelled"} => state_'[op] = state_[op]
    PROVE  SerialInv'
<1>1. \A i \in DOMAIN Steps[Root] : Steps[Root][i] \in Op /\ IsChild(Steps[Root][i], Root)
  BY TreeFacts DEF IsChild
<1>2. \A op \in Op : One("CancelDetach", op)' => One("CancelDetach", op) \/ state_[op] = "cancelling"
  BY OneMoves
<1>3. \A op \in Op : Gone(op) => Gone(op)'
  BY <1>2 DEF Gone
<1> QED
  BY <1>1, <1>3 DEF SerialInv

LEMMA LinkStays ==
    ASSUME LinkInv, NEW t \in Thread, NEW d \in Nat, NEW f, NEW g, Moves(t, d, f, g),
           F(t, d + 1) = NoFrame, F(t, d).at \notin {"CancelDetach", "CancelledChild"},
           UNCHANGED <<state_, child_, parent_>>, asserts' \subseteq {"cancel twice"}
    PROVE  LinkInv'
<1>1. \A op \in Op : /\ One("CancelDetach", op) => One("CancelDetach", op)'
                     /\ One("CancelledChild", op) => One("CancelledChild", op)'
  BY OneMoves DEF On
<1> QED
  BY <1>1 DEF LinkInv

LEMMA ResultMoves ==
    ASSUME ResultInv, NEW t \in Thread, NEW d \in Nat, NEW f, NEW g, Moves(t, d, f, g),
           F(t, d + 1) = NoFrame, "Completed" \notin {f.at, g.at},
           f.at = "Complete" /\ f.ec = "ok" => ChildrenSucceeded(f.op),
           g.at = "Complete" /\ g.ec = "ok" => ChildrenSucceeded(g.op),
           UNCHANGED <<callbacks, results>>,
           \A op \in Op : /\ state_'[op] = "completed" => state_[op] = "completed"
                          /\ One("Completed", op) \/ state_[op] = "completed" => ec_'[op] = ec_[op],
           \A p \in Op \ {Root} : \A i, j \in DOMAIN Steps[p] :
              i < j /\ Fresh(Steps[p][j]) /\ ~Fresh(Steps[p][j])' => Succeeded(Steps[p][i])
    PROVE  ResultInv'
<1>1. ASSUME NEW op, Claimed("Complete", op, "ok")'
      PROVE  Claimed("Complete", op, "ok") \/ ChildrenSucceeded(op)
  <2>1. \/ Claimed("Complete", op, "ok")
        \/ "Complete" = f.at /\ op = f.op /\ "ok" = f.ec
        \/ "Complete" = g.at /\ op = g.op /\ "ok" = g.ec
    BY <1>1, ClaimedMoves
  <2> QED
    BY <2>1
<1>2. \A op : One("Completed", op)' => One("Completed", op)
  BY OneMoves
<1>3. \A op \in Op : /\ ChildrenSucceeded(op)' <=> ChildrenSucceeded(op)
                     /\ Succeeded(op)' <=> Succeeded(op)
  BY DEF ChildrenSucceeded, Succeeded
<1>4. \A p \in Op \ {Root} : \A i \in DOMAIN Steps[p] : Steps[p][i] \in Op
  BY TreeFacts
<1>5. Children \subseteq Op
  BY TreeFacts
<1> QED
  BY <1>1, <1>2, <1>3, <1>4, <1>5 DEF ResultInv

LEMMA ResultStays ==
    ASSUME ResultInv, NEW t \in Thread, NEW d \in Nat, NEW f, NEW g, Moves(t, d, f, g),
           F(t, d + 1) = NoFrame, "Completed" \notin {f.at, g.at},
           f.at = "Complete" /\ f.ec = "ok" => ChildrenSucceeded(f.op),
           g.at = "Complete" /\ g.ec = "ok" => ChildrenSucceeded(g.op),
           UNCHANGED <<callbacks, results>>,
           \A op \in Op : /\ state_'[op] = "completed" => state_[op] = "completed"
                          /\ One("Completed", op) \/ state_[op] = "completed" => ec_'[op] = ec_[op]
                          /\ Fresh(op) => Fresh(op)' \/ IsChild(op, Root)
    PROVE  ResultInv'
<1>1. \A p \in Op \ {Root} : \A i \in DOMAIN Steps[p] : Steps[p][i] \in Op /\ ~IsChild(Steps[p][i], Root)
  BY TreeFacts DEF IsChild
<1>2. \A p \in Op \ {Root} : \A i, j \in DOMAIN Steps[p] :
         i < j /\ Fresh(Steps[p][j]) /\ ~Fresh(Steps[p][j])' => Succeeded(Steps[p][i])
  BY <1>1
<1> QED
  BY <1>2, ResultMoves

LEMMA PlainFrame ==
    ASSUME NEW at \in Places, NEW op \in Op
    PROVE  \E f \in Frames : f = Frame(at, op) /\ f.at = at /\ f.op = op /\ f.ec = "ok"
<1> DEFINE f == Frame(at, op)
<1>1. f \in Frames /\ f.at = at /\ f.op = op /\ f.ec = "ok"
  BY FrameFacts DEF Frame
<1> HIDE DEF f
<1>2. \E h \in Frames : h = f /\ h.at = at /\ h.op = op /\ h.ec = "ok"
  BY <1>1
<1> QED
  BY <1>2 DEF f

LEMMA ErrorFrame ==
    ASSUME NEW at \in Places, NEW op \in Op, NEW ec \in Errors
    PROVE  \E f \in Frames : f = [Frame(at, op) EXCEPT !.ec = ec] /\ f.at = at /\ f.op = op /\ f.ec = ec
<1> DEFINE f == [Frame(at, op) EXCEPT !.ec = ec]
<1>1. f \in Frames /\ f.at = at /\ f.op = op /\ f.ec = ec
  BY DEF Frame, Frames
<1> HIDE DEF f
<1>2. \E h \in Frames : h = f /\ h.at = at /\ h.op = op /\ h.ec = ec
  BY <1>1
<1> QED
  BY <1>2 DEF f

\* The frames of a step that begins, completes and cancels nothing.
Still == (Places \cup {"none"}) \ ({"Start", "CancelDetach"} \cup Ending \cup InsideCancel)

LEMMA StillKeeps ==
    ASSUME SfInv, SfInv', ChildInv, NEW t \in Thread, NEW d \in Nat, NEW f, NEW g, Moves(t, d, f, g),
           F(t, d + 1) = NoFrame, {F(t, d).at, f.at, g.at} \subseteq Still, F(t, d).at # "CancelledChild",
           UNCHANGED <<state_, child_, ec_, parent_, handedOver, callbacks, results>>,
           asserts' \subseteq {"cancel twice"}
    PROVE  ChildInv'
<1>1. /\ "Start" \notin {F(t, d).at, f.at, g.at} /\ {F(t, d).at, f.at, g.at} \cap InsideCancel = {}
      /\ {F(t, d).at, f.at, g.at} \cap Ending = {} /\ "CancelDetach" \notin {F(t, d).at, f.at, g.at}
      /\ "Complete" \notin {f.at, g.at} /\ "Completed" \notin {f.at, g.at}
  <2>1. \A x \in Still : /\ x \notin InsideCancel /\ x \notin Ending
                         /\ x # "Start" /\ x # "CancelDetach" /\ x # "Complete" /\ x # "Completed"
    BY DEF Still, Ending
  <2> QED
    BY <2>1
<1>2. \A op \in Op : Fresh(op)' <=> Fresh(op)
  BY <1>1, FreshStays
<1>3. \A op \in Op : Live(op)' <=> Live(op)
  BY <1>2 DEF Live
<1>4. CancelInv'
  BY <1>1, CancelStays DEF ChildInv
<1>5. DoneInv'
  BY <1>1, <1>3, DoneStays DEF ChildInv
<1>6. SerialInv'
  BY <1>1, <1>2, SerialStays DEF ChildInv
<1>7. LinkInv'
  BY <1>1, LinkStays DEF ChildInv
<1>8. ResultInv'
  <2>1. \A op \in Op : /\ state_'[op] = "completed" => state_[op] = "completed"
                       /\ One("Completed", op) \/ state_[op] = "completed" => ec_'[op] = ec_[op]
                       /\ Fresh(op) => Fresh(op)' \/ IsChild(op, Root)
    BY <1>2
  <2> QED
    BY <1>1, <2>1, ResultStays DEF ChildInv
<1> QED
  BY <1>4, <1>5, <1>6, <1>7, <1>8 DEF ChildInv

LEMMA StartReturnsLinks ==
    ASSUME SfInv, SfInv', ChildInv, NEW t \in Thread, StartReturns(t)
    PROVE  ChildInv'
<1>1. PICK d \in Nat, op \in Op : AtTop(t, d, "StartReturns", op)
  BY TopPlace DEF StartReturns, SfInv
<1>2. /\ Return(t)
      /\ UNCHANGED <<state_, child_, ec_, parent_, handedOver, callbacks, results, asserts>>
  BY DEF StartReturns, user
<1>3. Moves(t, d, NoFrame, NoFrame)
  BY <1>1, <1>2, ReturnMoves DEF SfInv
<1>4. F(t, d).at = "StartReturns" /\ F(t, d + 1) = NoFrame
  BY <1>1 DEF AtTop
<1>5. {F(t, d).at, NoFrame.at} \subseteq Still
  BY <1>4, NoFrameFacts DEF Still, Places, Tokens, Deep, Ending, InsideCancel
<1>6. asserts' \subseteq {"cancel twice"}
  BY <1>2 DEF ChildInv, LinkInv
<1> QED
  BY <1>2, <1>3, <1>4, <1>5, <1>6, StillKeeps

LEMMA CallCancelLinks ==
    ASSUME SfInv, SfInv', ChildInv, NEW t \in Thread, CallCancel(t)
    PROVE  ChildInv'
<1>1. PICK op \in Op : stack' = [stack EXCEPT ![t] = <<Frame("Cancel", op)>>]
  BY TreeFacts DEF CallCancel
<1>2. /\ stack[t] = <<>>
      /\ UNCHANGED <<state_, child_, ec_, parent_, handedOver, callbacks, results, asserts>>
  BY DEF CallCancel, members, SfInv, TypeInv
<1>3. PICK f \in Frames : f = Frame("Cancel", op) /\ f.at = "Cancel"
  BY FrameFacts DEF Places
<1>4. F(t, 1) = NoFrame /\ F(t, 2) = NoFrame /\ Moves(t, 1, f, NoFrame)
  BY <1>1, <1>2, <1>3, BeginMoves DEF SfInv
<1>5. {F(t, 1).at, f.at, NoFrame.at} \subseteq Still /\ F(t, 1).at # "CancelledChild"
  BY <1>3, <1>4, NoFrameFacts DEF Still, Places, Tokens, Deep, Ending, InsideCancel
<1>6. asserts' \subseteq {"cancel twice"}
  BY <1>2 DEF ChildInv, LinkInv
<1>7. 1 \in Nat /\ 1 + 1 = 2
  OBVIOUS
<1> QED
  BY <1>2, <1>4, <1>5, <1>6, <1>7, StillKeeps

LEMMA WorkDoneLinks ==
    ASSUME SfInv, SfInv', ChildInv, NEW t \in Thread, WorkDone(t)
    PROVE  ChildInv'
<1>1. PICK op \in handedOver, ec \in {"ok", "failure"} :
        /\ handedOver' = handedOver \ {op}
        /\ stack' = [stack EXCEPT ![t] = <<[Frame("Complete", op) EXCEPT !.ec = ec]>>]
  BY DEF WorkDone
<1>2. /\ stack[t] = <<>> /\ op \in Children /\ op \in Op
      /\ UNCHANGED <<state_, child_, ec_, parent_, callbacks, results, asserts>>
  BY TreeFacts DEF WorkDone, members, SfInv, TypeInv
<1>3. PICK f \in Frames : /\ f = [Frame("Complete", op) EXCEPT !.ec = ec]
                         /\ f.at = "Complete" /\ f.op = op /\ f.ec = ec
  <2>1. "Complete" \in Places /\ ec \in Errors
    BY DEF Places, Tokens, Errors
  <2> QED
    BY <1>2, <2>1, ErrorFrame
<1>4. F(t, 1) = NoFrame /\ F(t, 2) = NoFrame /\ Moves(t, 1, f, NoFrame)
  BY <1>1, <1>2, <1>3, BeginMoves DEF SfInv
<1>5. PICK d \in Nat : d = 1 /\ F(t, d) = NoFrame /\ F(t, d + 1) = NoFrame /\ Moves(t, d, f, NoFrame)
  BY <1>4

<1>6. \A o \in Op : (Fresh(o)' <=> Fresh(o)) /\ (Live(o)' <=> Live(o))
  <2>1. \A o \in Op : Fresh(o)' <=> Fresh(o)
    BY <1>2, <1>3, <1>5, NoFrameFacts, FreshStays
  <2> QED
    BY <1>2, <2>1 DEF Live
<1>7. CancelInv'
  BY <1>2, <1>3, <1>5, NoFrameFacts, CancelStays DEF InsideCancel, ChildInv
<1>8. DoneInv'
  <2>1. ASSUME NEW o \in Children, o # op
        PROVE  DoneAt(o)'
    <3>1. o \in Op /\ DoneAt(o) /\ (o \in handedOver' <=> o \in handedOver)
      BY <1>1, <2>1, TreeFacts DEF ChildInv, DoneInv
    <3>2. \A h \in {F(t, d), f, NoFrame} : ~(h.at \in Ending /\ h.op = o)
      BY <1>3, <1>5, <2>1, NoFrameFacts DEF Ending
    <3> QED
      BY <1>2, <1>5, <1>6, <3>1, <3>2, DoneAtStays
  <2>2. DoneAt(op)'
    <3>1. DoneAt(op) /\ Pending(op) /\ op \notin handedOver' /\ "none" \notin Ending
      BY <1>1, <1>2 DEF ChildInv, DoneInv, Pending, Ending
    <3>2. state_[op] = "started" => Unique(Ending, op)'
      BY <1>3, <1>5, <3>1, NoFrameFacts, UniqueMoves DEF DoneAt
    <3> QED
      BY <1>2, <1>6, <3>1, <3>2 DEF DoneAt
  <2> QED
    BY <2>1, <2>2 DEF DoneInv
<1>9. SerialInv'
  BY <1>2, <1>3, <1>5, <1>6, NoFrameFacts, SerialStays DEF ChildInv
<1>10. LinkInv'
  <2>1. asserts' \subseteq {"cancel twice"} /\ F(t, d).at \notin {"CancelDetach", "CancelledChild"}
    BY <1>2, <1>5, NoFrameFacts DEF ChildInv, LinkInv
  <2> QED
    BY <1>2, <1>5, <2>1, LinkStays DEF ChildInv
<1>11. ResultInv'
  <2>1. ChildrenSucceeded(op)
    <3>1. IsLeaf(op)
      BY <1>1, <1>2 DEF ChildInv, DoneInv, DoneAt
    <3> QED
      BY <3>1 DEF IsLeaf, IsChild, ChildrenSucceeded
  <2>2. /\ f.at = "Complete" /\ f.ec = "ok" => ChildrenSucceeded(f.op)
        /\ NoFrame.at # "Complete" /\ "Completed" \notin {f.at, NoFrame.at}
    BY <1>3, <2>1, NoFrameFacts
  <2> QED
    BY <1>2, <1>5, <1>6, <2>2, ResultStays DEF ChildInv
<1> QED
  BY <1>7, <1>8, <1>9, <1>10, <1>11 DEF ChildInv

LEMMA SomeoneIsOne ==
    ASSUME TypeInv, NEW places, "none" \notin places, NEW op
    PROVE  Someone(places, op) <=> \E at \in places : One(at, op)
<1>1. ASSUME NEW t \in Thread, NEW i \in DOMAIN stack[t], stack[t][i].op = op, stack[t][i].at \in places
      PROVE  \E at \in places : One(at, op)
  <2>1. stack[t] \in Seq(Frames) /\ i \in 1..Len(stack[t]) /\ Len(stack[t]) \in Nat
    BY DEF TypeInv
  <2>2. PICK k \in Nat : k = Len(stack[t]) - i + 1
    BY <2>1
  <2>3. k \in 1..Len(stack[t]) /\ Len(stack[t]) - k + 1 = i
    BY <2>1, <2>2
  <2>4. F(t, k) = stack[t][i]
    BY <2>3 DEF F
  <2> QED
    BY <1>1, <2>4 DEF One, On
<1>2. ASSUME NEW at \in places, One(at, op)
      PROVE  Someone(places, op)
  <2>1. PICK t \in Thread, k \in Nat : F(t, k).at = at /\ F(t, k).op = op
    BY <1>2 DEF One, On
  <2>2. k \in 1..Len(stack[t]) /\ stack[t] \in Seq(Frames) /\ Len(stack[t]) \in Nat
    BY <2>1, NoFrameFacts DEF F, TypeInv
  <2>3. Len(stack[t]) - k + 1 \in DOMAIN stack[t] /\ F(t, k) = stack[t][Len(stack[t]) - k + 1]
    BY <2>2 DEF F
  <2> QED
    BY <2>1, <2>3 DEF Someone
<1> QED
  BY <1>1, <1>2 DEF Someone

LEMMA UserBeginsLinks ==
    ASSUME SfInv, SfInv', ChildInv, UserBegins
    PROVE  ChildInv'
<1>1. PICK j \in DOMAIN Steps[Root] :
        /\ state_[Steps[Root][j]] = "idle"
        /\ \A i \in 1..(j - 1) :
              /\ state_[Steps[Root][i]] \in {"cancelling", "cancelled", "completed"}
              /\ ~Someone(InCancel, Steps[Root][i])
        /\ stack' = [stack EXCEPT ![User] = <<Frame("Start", Steps[Root][j])>>]
  BY DEF UserBegins
<1>2. /\ stack[User] = <<>> /\ User \in Thread
      /\ UNCHANGED <<state_, child_, ec_, parent_, handedOver, callbacks, results, asserts>>
  BY TreeFacts DEF UserBegins, members, user
<1>3. PICK c \in Op : c = Steps[Root][j] /\ IsChild(c, Root)
  BY TreeFacts DEF IsChild
<1>4. PICK f \in Frames : f = Frame("Start", c) /\ f.at = "Start" /\ f.op = c
  <2>1. "Start" \in Places
    BY DEF Places, Tokens
  <2> QED
    BY <2>1, PlainFrame
<1>5. PICK t \in Thread, d \in Nat :
        t = User /\ d = 1 /\ F(t, d) = NoFrame /\ F(t, d + 1) = NoFrame /\ Moves(t, d, f, NoFrame)
  <2>1. F(User, 1) = NoFrame /\ F(User, 2) = NoFrame /\ Moves(User, 1, f, NoFrame)
    BY <1>1, <1>2, <1>3, <1>4, BeginMoves DEF SfInv
  <2> QED
    BY <1>2, <2>1
<1>6. \A o \in Op : (o # c => (Fresh(o)' <=> Fresh(o))) /\ (Live(o)' => Live(o) \/ IsChild(o, Root))
  <2>1. ASSUME NEW o \in Op, o # c
        PROVE  Fresh(o)' <=> Fresh(o)
    <3>1. One("Start", o)' <=> One("Start", o)
      BY <1>4, <1>5, <2>1, NoFrameFacts, OneMoves DEF On
    <3> QED
      BY <1>2, <3>1, TokenFacts, TokenFactsNext DEF TokenView
  <2> QED
    BY <1>2, <1>3, <2>1 DEF Live
<1>7. CancelInv'
  BY <1>2, <1>4, <1>5, NoFrameFacts, CancelStays DEF InsideCancel, ChildInv
<1>8. DoneInv'
  <2>1. {F(t, d).at, f.at, NoFrame.at} \cap Ending = {}
    BY <1>4, <1>5, NoFrameFacts DEF Ending
  <2> QED
    BY <1>2, <1>5, <1>6, <2>1, DoneStays DEF ChildInv
<1>9. SerialInv'
  <2>1. \A i \in DOMAIN Steps[Root] : Steps[Root][i] \in Op
    BY TreeFacts
  <2>2. \A o \in Op : One("CancelDetach", o)' <=> One("CancelDetach", o)
    BY <1>4, <1>5, NoFrameFacts, OneMoves DEF On
  <2>3. \A o \in Op : Gone(o)' <=> Gone(o)
    BY <1>2, <2>2 DEF Gone
  <2>4. ASSUME NEW i \in DOMAIN Steps[Root], i < j
        PROVE  Gone(Steps[Root][i])
    <3>1. i \in 1..(j - 1)
      BY <2>4, TreeFacts
    <3>2. /\ state_[Steps[Root][i]] \in {"cancelling", "cancelled", "completed"}
          /\ \A x \in InCancel : ~One(x, Steps[Root][i])
      BY <1>1, <3>1, SomeoneIsOne DEF SfInv, InCancel
    <3>3. state_[Steps[Root][i]] # "cancelling"
      BY <2>1, <3>2 DEF ChildInv, CancelInv, InsideCancel, InCancel
    <3> QED
      BY <3>2, <3>3 DEF Gone, InCancel
  <2>5. ASSUME NEW i \in DOMAIN Steps[Root], NEW k \in DOMAIN Steps[Root], i < k, ~Fresh(Steps[Root][k])'
        PROVE  Gone(Steps[Root][i])
    <3>1. CASE Steps[Root][k] = c
      <4>1. k = j
        BY <1>3, <3>1, TreeFacts, OperationsAssumption
      <4> QED
        BY <2>4, <2>5, <4>1
    <3>2. CASE Steps[Root][k] # c
      BY <1>6, <2>1, <2>5, <3>2 DEF ChildInv, SerialInv
    <3> QED
      BY <3>1, <3>2
  <2> QED
    BY <2>1, <2>3, <2>5 DEF SerialInv
<1>10. LinkInv'
  <2>1. asserts' \subseteq {"cancel twice"} /\ F(t, d).at \notin {"CancelDetach", "CancelledChild"}
    BY <1>2, <1>5, NoFrameFacts DEF ChildInv, LinkInv
  <2> QED
    BY <1>2, <1>5, <2>1, LinkStays DEF ChildInv
<1>11. ResultInv'
  <2>1. "Completed" \notin {f.at, NoFrame.at} /\ "Complete" \notin {f.at, NoFrame.at}
    BY <1>4, NoFrameFacts
  <2>2. \A o \in Op : Fresh(o) => Fresh(o)' \/ IsChild(o, Root)
    BY <1>3, <1>6
  <2> QED
    BY <1>2, <1>5, <2>1, <2>2, ResultStays DEF ChildInv
<1> QED
  BY <1>7, <1>8, <1>9, <1>10, <1>11 DEF ChildInv

-----------------------------------------------------------------------------
(***************************************************************************)
(* The parent begins its children one after the other: when two of them    *)
(* were begun, one of the two is detached.                                 *)
(***************************************************************************)
LEMMA OneAtATime ==
    ASSUME SfInv, ChildInv, NEW p \in Op, NEW b \in Op, NEW c \in Op,
           IsChild(b, p), IsChild(c, p), b # c, ~Fresh(b), ~Fresh(c)
    PROVE  Gone(b) \/ Gone(c)
<1>1. PICK i \in DOMAIN Steps[p], j \in DOMAIN Steps[p] : Steps[p][i] = b /\ Steps[p][j] = c
  BY DEF IsChild
<1>2. i < j \/ j < i
  <2>1. i \in Nat /\ j \in Nat
    BY TreeFacts
  <2> QED
    BY <1>1, <2>1
<1>3. CASE p = Root
  BY <1>1, <1>2, <1>3 DEF ChildInv, SerialInv
<1>4. CASE p # Root
  <2>1. callbacks[b] = 1 \/ callbacks[c] = 1
    BY <1>1, <1>2, <1>4 DEF SfInv, OrderInv
  <2> QED
    BY <2>1 DEF SfInv, TokenInv, Gone
<1> QED
  BY <1>3, <1>4

\* An operation that is not detached yet.
LEMMA NotGone ==
    ASSUME ChildInv, NEW op \in Op,
           state_[op] \in {"idle", "started", "cancelling"} \/ One("CancelDetach", op)
    PROVE  ~Gone(op)
BY DEF ChildInv, CancelInv, Gone

LEMMA StartLinks ==
    ASSUME SfInv, SfInv', ChildInv, NEW t \in Thread, Start(t)
    PROVE  ChildInv'
<1>1. PICK d \in Nat, op \in Op : AtTop(t, d, "Start", op) /\ One("Start", op)
  BY TopPlace DEF Start, SfInv
<1>2. PICK f \in Frames : f = Frame("OnStart", op) /\ f.at = "OnStart" /\ f.op = op
  <2>1. "OnStart" \in Places
    BY DEF Places, Tokens
  <2> QED
    BY <2>1, PlainFrame
<1>3. /\ F(t, d).at = "Start" /\ F(t, d).op = op /\ F(t, d + 1) = NoFrame
      /\ Moves(t, d, f, NoFrame)
  <2>1. Goto(t, f)
    BY <1>1, <1>2 DEF Start, AtTop
  <2> QED
    BY <1>1, <2>1, GotoMoves DEF AtTop, SfInv
<1>4. /\ state_' = [state_ EXCEPT ![op] = "started"]
      /\ UNCHANGED <<mtx_, ec_, parent_, handedOver, callbacks, results>>
  BY <1>1 DEF Start, AtTop, user
<1>5. /\ IF op \in parent_ THEN child_' = [child_ EXCEPT ![Parent(op)] = op] ELSE child_' = child_
      /\ asserts' = asserts \/ (op \in parent_ /\ child_[Parent(op)] # Nobody)
  <2>1. state_[op] = "idle" /\ Top(t).op = op
    BY <1>1, TokenFacts DEF TokenView, AtTop
  <2>2. CASE op \in parent_
    BY <2>1, <2>2 DEF Start, Check
  <2>3. CASE op \notin parent_
    BY <2>1, <2>3 DEF Start, Check
  <2> QED
    BY <2>2, <2>3
<1>6. /\ state_[op] = "idle" /\ ~Fresh(op) /\ \A c \in Op : IsChild(c, op) => Fresh(c)
  BY <1>1, TokenFacts DEF TokenView, SfInv, OrderInv
<1>7. /\ state_'[op] = "started" /\ \A o \in Op \ {op} : state_'[o] = state_[o]
      /\ child_ \in [Op -> Op \cup {Nobody}] /\ parent_ \subseteq Children
  BY <1>4 DEF SfInv, TypeInv
<1>8. \A o \in Op : (Fresh(o)' <=> Fresh(o)) /\ (Live(o)' <=> Live(o))
  <2>1. ASSUME NEW o \in Op
        PROVE  Fresh(o)' <=> Fresh(o)
    <3>1. CASE o = op
      BY <1>6, <1>7, <3>1, TokenFactsNext DEF TokenView
    <3>2. CASE o # op
      <4>1. One("Start", o)' <=> One("Start", o)
        BY <1>2, <1>3, <3>2, NoFrameFacts, OneMoves DEF On
      <4> QED
        BY <1>7, <3>2, <4>1, TokenFacts, TokenFactsNext DEF TokenView
    <3> QED
      BY <3>1, <3>2
  <2> QED
    BY <1>4, <2>1 DEF Live
<1>9. CancelInv'
  <2>1. {F(t, d).at, f.at, NoFrame.at} \cap InsideCancel = {} /\ "CancelDetach" \notin {f.at, NoFrame.at}
    BY <1>2, <1>3, NoFrameFacts DEF InsideCancel
  <2> QED
    BY <1>3, <1>6, <1>7, <2>1, CancelStays DEF ChildInv
<1>10. DoneInv'
  <2>1. ASSUME NEW o \in Children, o # op
        PROVE  DoneAt(o)'
    <3>1. o \in Op /\ DoneAt(o) /\ state_'[o] = state_[o]
      BY <1>7, <2>1, TreeFacts DEF ChildInv, DoneInv
    <3>2. \A h \in {F(t, d), f, NoFrame} : ~(h.at \in Ending /\ h.op = o)
      BY <1>2, <1>3, <2>1, NoFrameFacts DEF Ending
    <3> QED
      BY <1>3, <1>4, <1>8, <3>1, <3>2, DoneAtStays
  <2>2. ASSUME op \in Children
        PROVE  DoneAt(op)'
    <3>1. DoneAt(op) /\ ~Pending(op) /\ op \notin handedOver' /\ "none" \notin Ending
      BY <1>4, <1>6, <2>2 DEF ChildInv, DoneInv, DoneAt, Pending, Ending
    <3>2. \A at \in Ending : ~One(at, op)
      BY <3>1 DEF Pending
    <3>3. Unique(Ending, op)
      BY <3>2 DEF Unique, One, On
    <3>4. Unique(Ending, op)'
      BY <1>2, <1>3, <3>1, <3>2, <3>3, NoFrameFacts, UniqueMoves
    <3>5. \A c \in Op : IsChild(c, op) => ~Live(c)'
      BY <1>6, <1>8 DEF Live
    <3> QED
      BY <1>7, <3>1, <3>4, <3>5 DEF DoneAt
  <2> QED
    BY <2>1, <2>2 DEF DoneInv
<1>11. SerialInv'
  BY <1>2, <1>3, <1>6, <1>7, <1>8, NoFrameFacts, SerialStays DEF ChildInv
<1>12. \A p \in Op, c \in Op : child_[p] = c =>
          /\ IsChild(c, p) /\ c \in parent_
          /\ state_[c] \in {"started", "cancelling"} \/ One("CancelDetach", c)
  BY DEF ChildInv, LinkInv
<1>13. \A p, c \in Op : IsChild(c, p) /\ IsChild(op, p) /\ c # op =>
          ~(state_[c] \in {"started", "cancelling"} \/ One("CancelDetach", c))
  <2>1. \A c \in Op : One("CancelDetach", c) => state_[c] = "cancelled"
    BY DEF ChildInv, CancelInv
  <2>2. \A c \in Op : state_[c] # "idle" => ~Fresh(c)
    BY DEF Fresh
  <2>3. ~Gone(op)
    BY <1>6, NotGone
  <2> QED
    BY <1>6, <2>1, <2>2, <2>3, OneAtATime, NotGone
<1>14. op \in Children => op \in parent_ /\ IsChild(op, Parent(op)) /\ Parent(op) \in Op
  BY <1>6, TreeFacts DEF ChildInv, LinkInv
<1>15. LinkInv'
  <2>1. \A o \in Op : /\ One("CancelDetach", o)' <=> One("CancelDetach", o)
                      /\ One("CancelledChild", o)' <=> One("CancelledChild", o)
    BY <1>2, <1>3, NoFrameFacts, OneMoves DEF On
  <2>2. op \in parent_ => child_[Parent(op)] = Nobody
    <3>1. SUFFICES ASSUME op \in parent_, child_[Parent(op)] # Nobody PROVE FALSE
      OBVIOUS
    <3>2. Parent(op) \in Op /\ IsChild(op, Parent(op))
      BY <1>7, <1>14, <3>1
    <3>3. PICK c \in Op : c = child_[Parent(op)]
      BY <1>7, <3>1, <3>2
    <3>4. c # op
      BY <1>6, <1>12, <3>2, <3>3 DEF ChildInv, CancelInv
    <3> QED
      BY <1>12, <1>13, <3>2, <3>3, <3>4
  <2>3. asserts' \subseteq {"cancel twice"}
    BY <1>5, <2>2 DEF ChildInv, LinkInv
  <2>4. ASSUME NEW p \in Op, NEW c \in Op, child_'[p] = c
        PROVE  /\ IsChild(c, p) /\ c \in parent_'
               /\ state_'[c] \in {"started", "cancelling"} \/ One("CancelDetach", c)'
    <3>1. CASE op \in parent_ /\ p = Parent(op)
      <4>1. c = op
        BY <1>5, <1>7, <2>4, <3>1
      <4> QED
        BY <1>4, <1>7, <1>14, <3>1, <4>1
    <3>2. CASE ~(op \in parent_ /\ p = Parent(op))
      <4>1. child_[p] = c
        BY <1>5, <1>7, <2>4, <3>2
      <4>2. c # op
        BY <1>6, <1>12, <4>1 DEF ChildInv, CancelInv
      <4> QED
        BY <1>4, <1>7, <1>12, <2>1, <4>1, <4>2
    <3> QED
      BY <3>1, <3>2
  <2>5. \A c \in Children : state_'[c] = "idle" => c \in parent_'
    <3>1. \A c \in Children : state_'[c] = "idle" => state_[c] = "idle"
      BY <1>6, <1>7, TreeFacts
    <3> QED
      BY <1>4, <3>1 DEF ChildInv, LinkInv
  <2>6. ASSUME NEW p \in Op, NEW c \in Op, IsChild(c, p), state_'[c] = "started",
               state_'[p] = "started", ~One("CancelledChild", p)'
        PROVE  child_'[p] = c
    <3>1. CASE c = op
      <4>1. op \in Children
        BY <2>6, <3>1 DEF Children
      <4>2. p = Parent(op) /\ op \in parent_
        BY <1>14, <2>6, <3>1, <4>1, TreeFacts
      <4> QED
        BY <1>5, <1>7, <3>1, <4>2
    <3>2. CASE c # op
      <4>1. state_[c] = "started" /\ ~Fresh(c)
        BY <1>7, <2>6, <3>2 DEF Fresh
      <4>2. p # op
        BY <1>6, <2>6, <4>1
      <4>3. ~IsChild(op, p)
        BY <1>13, <2>6, <3>2, <4>1
      <4>4. child_'[p] = child_[p]
        <5>1. op \in parent_ => p # Parent(op)
          BY <1>7, <1>14, <4>3
        <5> QED
          BY <1>5, <1>7, <5>1
      <4>5. child_[p] = c
        BY <1>7, <2>1, <2>6, <4>1, <4>2 DEF ChildInv, LinkInv
      <4> QED
        BY <4>4, <4>5
    <3> QED
      BY <3>1, <3>2
  <2> QED
    BY <2>3, <2>4, <2>5, <2>6 DEF LinkInv
<1>16. ResultInv'
  <2>1. "Completed" \notin {f.at, NoFrame.at} /\ "Complete" \notin {f.at, NoFrame.at}
    BY <1>2, NoFrameFacts
  <2>2. \A o \in Op : state_'[o] = "completed" => state_[o] = "completed"
    BY <1>7
  <2> QED
    BY <1>3, <1>4, <1>8, <2>1, <2>2, ResultStays DEF ChildInv
<1> QED
  BY <1>9, <1>10, <1>11, <1>15, <1>16 DEF ChildInv

\* A step of op by which OnStart, Complete or the work for it goes on.
LEMMA DoneAtElse ==
    ASSUME SfInv, DoneInv, NEW op \in Op, NEW t \in Thread, NEW d \in Nat, NEW f, NEW g, Moves(t, d, f, g),
           F(t, d + 1) = NoFrame, \A h \in {F(t, d), f, g} : h.at \in Ending => h.op = op,
           \A o \in Op \ {op} :
              /\ o \in handedOver' <=> o \in handedOver
              /\ state_'[o] = state_[o]
              /\ \A c \in Op : IsChild(c, o) /\ Live(c)' => Live(c)
    PROVE  \A o \in Children \ {op} : DoneAt(o)'
<1>1. ASSUME NEW o \in Children, o # op
      PROVE  DoneAt(o)'
  <2>1. o \in Op /\ DoneAt(o)
    BY <1>1, TreeFacts DEF DoneInv
  <2>2. \A h \in {F(t, d), f, g} : ~(h.at \in Ending /\ h.op = o)
    BY <1>1
  <2> QED
    BY <1>1, <2>1, <2>2, DoneAtStays
<1> QED
  BY <1>1

LEMMA OnStartLinks ==
    ASSUME SfInv, SfInv', ChildInv, NEW t \in Thread, OnStart(t)
    PROVE  ChildInv'
<1>1. PICK d \in Nat, op \in Op : AtTop(t, d, "OnStart", op) /\ One("OnStart", op)
  BY TopPlace DEF OnStart, SfInv
<1>2. PICK f \in Frames : f = Frame("StartReturns", op) /\ f.at = "StartReturns" /\ f.op = op
  <2>1. "StartReturns" \in Places
    BY DEF Places, Deep
  <2> QED
    BY <2>1, PlainFrame
<1>3. /\ F(t, d).at = "OnStart" /\ F(t, d).op = op /\ F(t, d + 1) = NoFrame /\ Top(t).op = op
      /\ UNCHANGED <<state_, child_, ec_, parent_, callbacks, results, asserts>>
  BY <1>1 DEF AtTop, OnStart, members
<1>4. PICK g \in Frames \cup {NoFrame} :
        /\ Moves(t, d, f, g)
        /\ \/ g = NoFrame /\ op = Root /\ handedOver' = handedOver
           \/ g = NoFrame /\ IsLeaf(op) /\ handedOver' = handedOver \cup {op}
           \/ g.at = "Complete" /\ g.op = op /\ IsLeaf(op) /\ handedOver' = handedOver
           \/ /\ g.at = "Start" /\ op # Root /\ ~IsLeaf(op) /\ g.op = Head(Steps[op])
              /\ handedOver' = handedOver
  <2>1. CASE op = Root /\ Goto(t, f) /\ handedOver' = handedOver
    BY <1>1, <2>1, GotoMoves DEF SfInv
  <2>2. CASE op # Root /\ ~IsLeaf(op) /\ Call(t, f, Frame("Start", Head(Steps[op])))
             /\ handedOver' = handedOver
    <3>1. Head(Steps[op]) \in Op /\ "Start" \in Places
      BY <2>2, TreeFacts DEF IsLeaf, Places, Tokens
    <3>2. PICK g \in Frames : g = Frame("Start", Head(Steps[op])) /\ g.at = "Start" /\ g.op = Head(Steps[op])
      BY <3>1, PlainFrame
    <3>3. Call(t, f, g)
      BY <2>2, <3>2
    <3>4. Moves(t, d, f, g)
      BY <1>1, <3>3, CallMoves DEF SfInv
    <3> QED
      BY <2>2, <3>2, <3>4
  <2>3. ASSUME IsLeaf(op), NEW ec \in {"ok", "failure"},
               Call(t, f, [Frame("Complete", op) EXCEPT !.ec = ec]), handedOver' = handedOver
        PROVE  \E g \in Frames : /\ Moves(t, d, f, g)
                                 /\ g.at = "Complete" /\ g.op = op
    <3>1. "Complete" \in Places /\ ec \in Errors
      BY DEF Places, Tokens, Errors
    <3>2. PICK g \in Frames : g = [Frame("Complete", op) EXCEPT !.ec = ec] /\ g.at = "Complete" /\ g.op = op
      BY <3>1, ErrorFrame
    <3>3. Call(t, f, g)
      BY <2>3, <3>2
    <3>4. Moves(t, d, f, g)
      BY <1>1, <3>3, CallMoves DEF SfInv
    <3> QED
      BY <3>2, <3>4
  <2>4. CASE IsLeaf(op) /\ Goto(t, f) /\ handedOver' = handedOver \cup {op}
    BY <1>1, <2>4, GotoMoves DEF SfInv
  <2> QED
    BY <1>2, <1>3, <2>1, <2>2, <2>3, <2>4 DEF OnStart
<1>5. /\ \A o \in Op : Fresh(o) => Fresh(o)' \/ (g.at = "Start" /\ o = g.op)
      /\ \A o \in Op : Live(o)' => Live(o) \/ (g.at = "Start" /\ o = g.op)
  <2>1. \A o \in Op : One("Start", o)' => One("Start", o) \/ (g.at = "Start" /\ o = g.op)
    BY <1>2, <1>3, <1>4, NoFrameFacts, OneMoves
  <2>2. \A o \in Op : Fresh(o) => Fresh(o)' \/ (g.at = "Start" /\ o = g.op)
    BY <1>3, <2>1, TokenFacts, TokenFactsNext DEF TokenView
  <2> QED
    BY <1>3, <2>2 DEF Live
<1>6. g.at = "Start" =>
        /\ op # Root /\ g.op \in Op /\ IsChild(g.op, op)
        /\ \A i, j \in DOMAIN Steps[op] : i < j => Steps[op][j] # g.op
  <2>1. SUFFICES ASSUME g.at = "Start"
                 PROVE  /\ op # Root /\ g.op \in Op /\ IsChild(g.op, op)
                        /\ \A i, j \in DOMAIN Steps[op] : i < j => Steps[op][j] # g.op
    OBVIOUS
  <2>2. op # Root /\ ~IsLeaf(op) /\ g.op = Head(Steps[op]) /\ Steps[op] \in Seq(Op)
    BY <1>4, <2>1, NoFrameFacts, TreeFacts
  <2>3. 1 \in DOMAIN Steps[op] /\ Steps[op][1] = g.op
    BY <2>2 DEF IsLeaf
  <2>4. \A i, j \in DOMAIN Steps[op] : i < j => j # 1
    BY <2>2
  <2> QED
    BY <2>2, <2>3, <2>4, OperationsAssumption DEF IsChild
<1>7. /\ g.at \in {"none", "Start", "Complete"} /\ (g.at = "Complete" => g.op = op /\ IsLeaf(op))
      /\ (g.at = "Complete" => handedOver' = handedOver)
      /\ handedOver' = handedOver \/ (handedOver' = handedOver \cup {op} /\ g.at = "none" /\ IsLeaf(op))
  BY <1>4, NoFrameFacts
<1>8. CancelInv'
  <2>1. {F(t, d).at, f.at, g.at} \cap InsideCancel = {} /\ "CancelDetach" \notin {f.at, g.at}
    BY <1>2, <1>3, <1>7 DEF InsideCancel
  <2> QED
    BY <1>3, <1>4, <2>1, CancelStays DEF ChildInv
<1>9. DoneInv'
  <2>1. \A o \in Children \ {op} : DoneAt(o)'
    <3>1. \A h \in {F(t, d), f, g} : h.at \in Ending => h.op = op
      BY <1>2, <1>3, <1>7 DEF Ending
    <3>2. \A o \in Op \ {op}, c \in Op : IsChild(c, o) /\ Live(c)' => Live(c)
      BY <1>5, <1>6, TreeFacts
    <3>3. DoneInv
      BY DEF ChildInv
    <3> QED
      BY <1>3, <1>4, <1>7, <3>1, <3>2, <3>3, DoneAtElse
  <2>2. ASSUME op \in Children
        PROVE  DoneAt(op)'
    <3>1. DoneAt(op) /\ Pending(op) /\ state_[op] \notin {"idle", "completed"} /\ "none" \notin Ending
      BY <1>1, <2>2 DEF ChildInv, DoneInv, DoneAt, Pending, Ending
    <3>2. state_[op] = "started" => Unique(Ending, op) /\ op \notin handedOver
      BY <1>1, <3>1 DEF DoneAt, Ending
    <3>3. F(t, d).at \in Ending /\ f.at \notin Ending /\ (g.at \in Ending => g.at = "Complete")
      BY <1>2, <1>3, <1>7 DEF Ending
    <3>4. state_[op] = "started" => Unique(Ending, op)'
      BY <1>2, <1>3, <1>4, <3>1, <3>2, <3>3, UniqueMoves
    <3>5. state_[op] = "started" /\ g.at # "Complete" => \A at \in Ending : ~One(at, op)'
      BY <1>2, <1>3, <1>4, <3>1, <3>2, <3>3, UniqueGone
    <3>6. state_[op] = "started" => (op \in handedOver' => ~\E at \in Ending : One(at, op)')
      BY <1>7, <3>2, <3>5
    <3>7. state_[op] = "started" /\ Pending(op)' => IsLeaf(op)
      BY <1>7, <3>2, <3>5 DEF Pending
    <3>8. IsLeaf(op) => \A c \in Op : ~IsChild(c, op)
      BY DEF IsLeaf, IsChild
    <3>9. op \in handedOver' => IsLeaf(op)
      BY <1>7, <3>1 DEF DoneAt
    <3> QED
      BY <1>3, <3>1, <3>4, <3>6, <3>7, <3>8, <3>9 DEF DoneAt
  <2> QED
    BY <2>1, <2>2 DEF DoneInv
<1>10. SerialInv'
  <2>1. \A o \in Op : IsChild(o, Root) /\ Fresh(o) => Fresh(o)'
    BY <1>5, <1>6, TreeFacts
  <2>2. g.at # "CancelDetach" /\ f.at # "CancelDetach"
    BY <1>2, <1>7
  <2> QED
    BY <1>3, <1>4, <2>1, <2>2, SerialStays DEF ChildInv
<1>11. LinkInv'
  BY <1>3, <1>4, LinkStays DEF ChildInv, LinkInv
<1>12. ResultInv'
  <2>1. g.at = "Complete" => ChildrenSucceeded(g.op)
    BY <1>7 DEF ChildrenSucceeded, IsLeaf, IsChild
  <2>2. "Completed" \notin {f.at, g.at} /\ f.at # "Complete"
    BY <1>2, <1>7
  <2>3. ASSUME NEW p \in Op \ {Root}, NEW i \in DOMAIN Steps[p], NEW j \in DOMAIN Steps[p],
               i < j, Fresh(Steps[p][j]), ~Fresh(Steps[p][j])'
        PROVE  FALSE
    <3>1. Steps[p][j] \in Op /\ IsChild(Steps[p][j], p)
      BY TreeFacts DEF IsChild
    <3>2. g.at = "Start" /\ Steps[p][j] = g.op
      BY <1>5, <2>3, <3>1
    <3>3. p = op
      BY <1>6, <3>1, <3>2, TreeFacts
    <3> QED
      BY <1>6, <2>3, <3>2, <3>3
  <2> QED
    BY <1>3, <1>4, <2>1, <2>2, <2>3, ResultMoves DEF ChildInv
<1> QED
  BY <1>8, <1>9, <1>10, <1>11, <1>12 DEF ChildInv

\* An operation in child_ is not over, as far as its parent can tell.
LEMMA LinkedIsLive ==
    ASSUME SfInv, ChildInv, NEW p \in Op, child_[p] # Nobody
    PROVE  child_[p] \in Op /\ IsChild(child_[p], p) /\ Live(child_[p])
<1>1. PICK c \in Op : c = child_[p]
  BY DEF SfInv, TypeInv
<1>2. IsChild(c, p) /\ state_[c] \in {"started", "cancelling", "cancelled"}
  BY <1>1 DEF ChildInv, CancelInv, LinkInv
<1>3. callbacks[c] = 0
  BY <1>2 DEF SfInv, TypeInv, TokenInv
<1> QED
  BY <1>1, <1>2, <1>3 DEF Live, Fresh

LEMMA CompleteLinks ==
    ASSUME SfInv, SfInv', ChildInv, NEW t \in Thread, Complete(t)
    PROVE  ChildInv'
<1>1. PICK d \in Nat, op \in Op : AtTop(t, d, "Complete", op) /\ One("Complete", op)
  BY TopPlace DEF Complete, SfInv
<1>2. /\ F(t, d).at = "Complete" /\ F(t, d).op = op /\ F(t, d + 1) = NoFrame
      /\ F(t, d) = Top(t) /\ Top(t).op = op /\ Top(t) \in Frames
      /\ UNCHANGED <<state_, child_, parent_, handedOver, callbacks, results>>
  BY <1>1 DEF AtTop, Complete, user
<1>3. op \in Children /\ Pending(op) /\ DoneAt(op) /\ state_[op] \notin {"idle", "completed"}
  <2>1. op \in Children /\ Pending(op)
    BY <1>1, TokenFacts DEF TokenView, Pending, Ending
  <2> QED
    BY <2>1 DEF ChildInv, DoneInv, DoneAt
<1>4. PICK f \in Frames \cup {NoFrame} :
        /\ Moves(t, d, f, NoFrame)
        /\ \/ /\ f.at = "Completed" /\ f.op = op /\ state_[op] = "started"
              /\ ec_' = [ec_ EXCEPT ![op] = Top(t).ec]
              /\ Check(child_[op] = Nobody, "child not finished")
           \/ /\ f = NoFrame /\ state_[op] \in {"cancelling", "cancelled"}
              /\ ec_' = [ec_ EXCEPT ![op] = IF @ = "ok" THEN "canceled" ELSE @]
              /\ asserts' = asserts
  <2>1. CASE state_[op] = "started"
    <3>1. /\ Goto(t, [Top(t) EXCEPT !.at = "Completed"])
          /\ ec_' = [ec_ EXCEPT ![op] = Top(t).ec]
          /\ Check(child_[op] = Nobody, "child not finished")
      BY <1>2, <2>1 DEF Complete
    <3> DEFINE h == [Top(t) EXCEPT !.at = "Completed"]
    <3>2. h \in Frames /\ h.at = "Completed" /\ h.op = op
      BY <1>2 DEF Frames, Places, Tokens
    <3> HIDE DEF h
    <3>3. Moves(t, d, h, NoFrame)
      BY <1>1, <3>1, <3>2, GotoMoves DEF SfInv, h
    <3> QED
      BY <2>1, <3>1, <3>2, <3>3
  <2>2. CASE state_[op] # "started"
    <3>1. /\ Return(t) /\ state_[op] \in {"cancelling", "cancelled"} /\ asserts' = asserts
          /\ ec_' = [ec_ EXCEPT ![op] = IF @ = "ok" THEN "canceled" ELSE @]
      BY <1>2, <1>3, <2>2 DEF Complete
    <3>2. Moves(t, d, NoFrame, NoFrame)
      BY <1>1, <3>1, ReturnMoves DEF SfInv
    <3> QED
      BY <3>1, <3>2
  <2> QED
    BY <2>1, <2>2
<1>5. f.at \in {"Completed", "none"} /\ NoFrame.at = "none" /\ (f.at = "Completed" => f.op = op)
  BY <1>4, NoFrameFacts
<1>12. Moves(t, d, f, NoFrame)
  BY <1>4
<1>6. \A o \in Op : (Fresh(o)' <=> Fresh(o)) /\ (Live(o)' <=> Live(o))
  <2>1. \A o \in Op : Fresh(o)' <=> Fresh(o)
    BY <1>2, <1>4, <1>5, FreshStays
  <2> QED
    BY <1>2, <2>1 DEF Live
<1>7. CancelInv'
  BY <1>2, <1>4, <1>5, CancelStays DEF InsideCancel, ChildInv
<1>8. DoneInv'
  <2>1. \A o \in Children \ {op} : DoneAt(o)'
    <3>1. \A h \in {F(t, d), f, NoFrame} : h.at \in Ending => h.op = op
      BY <1>2, <1>5 DEF Ending
    <3>2. DoneInv
      BY DEF ChildInv
    <3> QED
      BY <1>2, <1>4, <1>6, <3>1, <3>2, DoneAtElse
  <2>2. DoneAt(op)'
    <3>1. "none" \notin Ending /\ F(t, d).at \in Ending
      BY <1>2 DEF Ending
    <3>2. state_[op] = "started" => Unique(Ending, op)' /\ op \notin handedOver
      <4>1. SUFFICES ASSUME state_[op] = "started" PROVE Unique(Ending, op)' /\ op \notin handedOver
        OBVIOUS
      <4>2. Unique(Ending, op) /\ op \notin handedOver
        BY <1>1, <1>3, <4>1 DEF DoneAt, Ending
      <4> QED
        BY <1>2, <1>5, <1>12, <3>1, <4>2, UniqueMoves
    <3> QED
      BY <1>2, <1>3, <1>6, <3>2 DEF DoneAt
  <2> QED
    BY <2>1, <2>2 DEF DoneInv
<1>9. SerialInv'
  BY <1>2, <1>4, <1>5, <1>6, SerialStays DEF ChildInv
<1>10. LinkInv'
  <2>1. asserts' \subseteq {"cancel twice"}
    <3>1. state_[op] = "started" => child_[op] = Nobody
      BY <1>3, LinkedIsLive DEF DoneAt
    <3> QED
      BY <1>4, <3>1 DEF ChildInv, LinkInv, Check
  <2> QED
    BY <1>2, <1>4, <2>1, LinkStays DEF ChildInv
<1>11. ResultInv'
  <2>1. ASSUME NEW o, Claimed("Complete", o, "ok")'
        PROVE  Claimed("Complete", o, "ok")
    BY <1>5, <1>12, <2>1, ClaimedMoves
  <2>2. \A o \in Op : /\ ChildrenSucceeded(o)' <=> ChildrenSucceeded(o)
                      /\ Succeeded(o)' <=> Succeeded(o)
    BY <1>2 DEF ChildrenSucceeded, Succeeded
  <2>3. \A p \in Op \ {Root} : \A i \in DOMAIN Steps[p] : Steps[p][i] \in Op
    BY TreeFacts
  <2>4. ASSUME NEW o \in Children, One("Completed", o)' \/ state_'[o] = "completed", ec_'[o] = "ok"
        PROVE  ChildrenSucceeded(o)
    <3>1. o \in Op /\ ec_ \in [Op -> Errors]
      BY TreeFacts DEF SfInv, TypeInv
    <3>2. CASE o # op
      <4>1. One("Completed", o)' => One("Completed", o)
        BY <1>2, <1>5, <1>12, <3>2, OneMoves
      <4> QED
        BY <1>2, <1>4, <2>4, <3>1, <3>2, <4>1 DEF ChildInv, ResultInv
    <3>3. CASE o = op /\ state_[op] = "started"
      <4>1. Top(t).ec = "ok"
        BY <1>4, <2>4, <3>1, <3>3, NoFrameFacts
      <4>2. Claimed("Complete", op, "ok")
        BY <1>2, <4>1 DEF Claimed, On
      <4> QED
        BY <3>3, <4>2 DEF ChildInv, ResultInv
    <3>4. CASE o = op /\ state_[op] # "started"
      BY <1>2, <1>3, <2>4, <3>4, TokenFactsNext DEF TokenView
    <3> QED
      BY <3>2, <3>3, <3>4
  <2>5. \A o \in Children : Claimed("Complete", o, "ok")' => ChildrenSucceeded(o)'
    BY <2>1, <2>2, TreeFacts DEF ChildInv, ResultInv
  <2>6. \A o \in Children : One("Completed", o)' \/ state_'[o] = "completed" =>
           (ec_'[o] = "ok" => ChildrenSucceeded(o)')
    BY <2>2, <2>4, TreeFacts
  <2>7. \A p \in Op \ {Root} : \A i, j \in DOMAIN Steps[p] :
           i < j /\ ~Fresh(Steps[p][j])' => Succeeded(Steps[p][i])'
    BY <1>6, <2>2, <2>3 DEF ChildInv, ResultInv
  <2> QED
    BY <2>5, <2>6, <2>7 DEF ResultInv
<1> QED
  BY <1>7, <1>8, <1>9, <1>10, <1>11 DEF ChildInv

\* op is taken out of child_ of its parent, where no other child is.
LEMMA DetachLinks ==
    ASSUME SfInv, ChildInv, NEW t \in Thread, NEW d \in Nat, NEW f, NEW g, Moves(t, d, f, g),
           F(t, d + 1) = NoFrame, NEW op \in Op, Detach(op), asserts' = asserts,
           F(t, d).at # "CancelledChild", F(t, d).at = "CancelDetach" => F(t, d).op = op,
           ~Fresh(op), ~Gone(op), state_'[op] \notin {"idle", "started"},
           \A o \in Op \ {op} : state_'[o] = state_[o]
    PROVE  LinkInv'
<1>1. \A o \in Op : One("CancelledChild", o) => One("CancelledChild", o)'
  BY OneMoves DEF On
<1>2. \A o \in Op \ {op} : One("CancelDetach", o) => One("CancelDetach", o)'
  BY OneMoves DEF On
<1>3. asserts' \subseteq {"cancel twice"}
  BY DEF ChildInv, LinkInv
<1>4. /\ child_' = IF op \in parent_ THEN [child_ EXCEPT ![Parent(op)] = Nobody] ELSE child_
      /\ parent_' = parent_ \ {op} /\ child_ \in [Op -> Op \cup {Nobody}] /\ Nobody \notin Op
      /\ (op \in parent_ => Parent(op) \in Op /\ IsChild(op, Parent(op)))
  BY TreeFacts DEF Detach, SfInv, TypeInv
<1>5. ASSUME NEW p \in Op, NEW c \in Op, child_'[p] = c
      PROVE  /\ IsChild(c, p) /\ c \in parent_'
             /\ state_'[c] \in {"started", "cancelling"} \/ One("CancelDetach", c)'
  <2>1. child_[p] = c /\ (op \in parent_ => p # Parent(op))
    BY <1>4, <1>5
  <2>2. /\ IsChild(c, p) /\ c \in parent_
        /\ state_[c] \in {"started", "cancelling"} \/ One("CancelDetach", c)
    BY <2>1 DEF ChildInv, LinkInv
  <2>3. c # op
    BY <1>4, <2>1, <2>2, TreeFacts
  <2> QED
    BY <1>2, <1>4, <2>2, <2>3
<1>6. \A c \in Children : state_'[c] = "idle" => c \in parent_'
  <2>1. \A c \in Children : state_[c] = "idle" => c \in parent_
    BY DEF ChildInv, LinkInv
  <2> QED
    BY <1>4, <2>1, TreeFacts
<1>7. ASSUME NEW p \in Op, NEW c \in Op, IsChild(c, p), state_'[c] = "started",
             state_'[p] = "started", ~One("CancelledChild", p)'
      PROVE  child_'[p] = c
  <2>1. c # op /\ p # op /\ state_[c] = "started" /\ state_[p] = "started"
    BY <1>7
  <2>2. child_[p] = c
    BY <1>1, <1>7, <2>1 DEF ChildInv, LinkInv
  <2>3. ~(op \in parent_ /\ p = Parent(op))
    <3>1. ~Fresh(c) /\ ~Gone(c)
      BY <2>1, NotGone DEF Fresh
    <3> QED
      BY <1>4, <1>7, <2>1, <3>1, OneAtATime
  <2> QED
    BY <1>4, <2>2, <2>3
<1> QED
  BY <1>3, <1>5, <1>6, <1>7 DEF LinkInv

LEMMA CompletedLinks ==
    ASSUME SfInv, SfInv', ChildInv, NEW t \in Thread, Completed(t)
    PROVE  ChildInv'
<1>1. PICK d \in Nat, op \in Op : AtTop(t, d, "Completed", op) /\ One("Completed", op)
  BY TopPlace DEF Completed, SfInv
<1>2. /\ F(t, d).at = "Completed" /\ F(t, d).op = op /\ F(t, d + 1) = NoFrame /\ Top(t).op = op
      /\ UNCHANGED <<ec_, handedOver, callbacks, results, asserts>> /\ Detach(op)
      /\ state_' = [state_ EXCEPT ![op] = "completed"]
  BY <1>1 DEF AtTop, Completed, user
<1>3. PICK f \in Frames : f = Frame("Callback", op) /\ f.at = "Callback" /\ f.op = op
  <2>1. "Callback" \in Places
    BY DEF Places, Tokens
  <2> QED
    BY <2>1, PlainFrame
<1>4. Moves(t, d, f, NoFrame)
  <2>1. Goto(t, f)
    BY <1>2, <1>3 DEF Completed
  <2> QED
    BY <1>1, <2>1, GotoMoves DEF SfInv
<1>5. /\ op \in Children /\ Pending(op) /\ state_[op] = "started" /\ DoneAt(op)
      /\ ~Fresh(op) /\ ~Gone(op)
  <2>1. op \in Children /\ Pending(op) /\ state_[op] = "started"
    BY <1>1, TokenFacts DEF TokenView, Pending, Ending
  <2> QED
    BY <2>1 DEF ChildInv, DoneInv, Gone, Fresh
<1>6. state_'[op] = "completed" /\ \A o \in Op \ {op} : state_'[o] = state_[o]
  BY <1>2 DEF SfInv, TypeInv
<1>7. \A o \in Op : (Fresh(o)' <=> Fresh(o)) /\ (Live(o)' <=> Live(o))
  <2>1. \A o \in Op : state_'[o] = "idle" <=> state_[o] = "idle"
    BY <1>5, <1>6
  <2>2. \A o \in Op : Fresh(o)' <=> Fresh(o)
    BY <1>2, <1>3, <1>4, <2>1, NoFrameFacts, FreshStays
  <2> QED
    BY <1>2, <2>2 DEF Live
<1>8. CancelInv'
  <2>1. {F(t, d).at, f.at, NoFrame.at} \cap InsideCancel = {} /\ "CancelDetach" \notin {f.at, NoFrame.at}
    BY <1>2, <1>3, NoFrameFacts DEF InsideCancel
  <2> QED
    BY <1>2, <1>4, <1>5, <1>6, <2>1, CancelStays DEF ChildInv
<1>9. DoneInv'
  <2>1. \A o \in Children \ {op} : DoneAt(o)'
    <3>1. \A h \in {F(t, d), f, NoFrame} : h.at \in Ending => h.op = op
      BY <1>2, <1>3, NoFrameFacts DEF Ending
    <3>2. DoneInv
      BY DEF ChildInv
    <3> QED
      BY <1>2, <1>4, <1>6, <1>7, <3>1, <3>2, DoneAtElse
  <2>2. DoneAt(op)'
    <3>1. "none" \notin Ending /\ F(t, d).at \in Ending /\ f.at \notin Ending
      BY <1>2, <1>3 DEF Ending
    <3>2. Unique(Ending, op) /\ op \notin handedOver
      BY <1>1, <1>5 DEF DoneAt, Ending
    <3>3. \A at \in Ending : ~One(at, op)'
      BY <1>2, <1>4, <3>1, <3>2, NoFrameFacts, UniqueGone
    <3>4. ~Pending(op)'
      BY <1>2, <3>2, <3>3 DEF Pending
    <3>5. \A c \in Op : IsChild(c, op) => ~Live(c)'
      BY <1>5, <1>7 DEF DoneAt
    <3> QED
      BY <1>2, <1>6, <3>2, <3>4, <3>5 DEF DoneAt
  <2> QED
    BY <2>1, <2>2 DEF DoneInv
<1>10. SerialInv'
  <2>1. \A o \in Op : state_[o] \in {"completed", "cancelled"} => state_'[o] = state_[o]
    BY <1>5, <1>6
  <2> QED
    BY <1>2, <1>3, <1>4, <1>7, <2>1, NoFrameFacts, SerialStays DEF ChildInv
<1>11. LinkInv'
  BY <1>2, <1>4, <1>5, <1>6, DetachLinks
<1>12. ResultInv'
  <2>1. ASSUME NEW o, Claimed("Complete", o, "ok")'
        PROVE  Claimed("Complete", o, "ok")
    BY <1>3, <1>4, <2>1, NoFrameFacts, ClaimedMoves
  <2>2. \A o \in Op : /\ ChildrenSucceeded(o)' <=> ChildrenSucceeded(o)
                      /\ Succeeded(o)' <=> Succeeded(o)
    BY <1>2 DEF ChildrenSucceeded, Succeeded
  <2>3. \A p \in Op \ {Root} : \A i \in DOMAIN Steps[p] : Steps[p][i] \in Op
    BY TreeFacts
  <2>4. \A o \in Op : One("Completed", o)' \/ state_'[o] = "completed" =>
           One("Completed", o) \/ state_[o] = "completed"
    <3>1. \A o \in Op : One("Completed", o)' => One("Completed", o)
      BY <1>2, <1>3, <1>4, NoFrameFacts, OneMoves
    <3> QED
      BY <1>1, <1>6, <3>1
  <2>5. \A o \in Children : Claimed("Complete", o, "ok")' => ChildrenSucceeded(o)'
    BY <2>1, <2>2, TreeFacts DEF ChildInv, ResultInv
  <2>6. \A o \in Children : One("Completed", o)' \/ state_'[o] = "completed" =>
           (ec_'[o] = "ok" => ChildrenSucceeded(o)')
    BY <1>2, <2>2, <2>4, TreeFacts DEF ChildInv, ResultInv
  <2>7. \A p \in Op \ {Root} : \A i, j \in DOMAIN Steps[p] :
           i < j /\ ~Fresh(Steps[p][j])' => Succeeded(Steps[p][i])'
    BY <1>7, <2>2, <2>3 DEF ChildInv, ResultInv
  <2> QED
    BY <2>5, <2>6, <2>7 DEF ResultInv
<1> QED
  BY <1>8, <1>9, <1>10, <1>11, <1>12 DEF ChildInv

LEMMA CancelDetachLinks ==
    ASSUME SfInv, SfInv', ChildInv, NEW t \in Thread, CancelDetach(t)
    PROVE  ChildInv'
<1>1. PICK d \in Nat, op \in Op : AtTop(t, d, "CancelDetach", op) /\ One("CancelDetach", op)
  BY TopPlace DEF CancelDetach, SfInv
<1>2. /\ F(t, d).at = "CancelDetach" /\ F(t, d).op = op /\ F(t, d + 1) = NoFrame /\ Top(t).op = op
      /\ UNCHANGED <<state_, ec_, handedOver, callbacks, results, asserts>> /\ Detach(op) /\ Return(t)
  BY <1>1 DEF AtTop, CancelDetach, user
<1>3. Moves(t, d, NoFrame, NoFrame)
  BY <1>1, <1>2, ReturnMoves DEF SfInv
<1>4. state_[op] = "cancelled" /\ ~Fresh(op) /\ ~Gone(op)
  BY <1>1 DEF ChildInv, CancelInv, Gone, Fresh
<1>5. \A o \in Op : (Fresh(o)' <=> Fresh(o)) /\ (Live(o)' <=> Live(o))
  <2>1. \A o \in Op : Fresh(o)' <=> Fresh(o)
    BY <1>2, <1>3, NoFrameFacts, FreshStays
  <2> QED
    BY <1>2, <2>1 DEF Live
<1>6. CancelInv'
  BY <1>2, <1>3, NoFrameFacts, CancelStays DEF InsideCancel, ChildInv
<1>7. DoneInv'
  <2>1. {F(t, d).at, NoFrame.at} \cap Ending = {}
    BY <1>2, NoFrameFacts DEF Ending
  <2> QED
    BY <1>2, <1>3, <1>5, <2>1, DoneStays DEF ChildInv
<1>8. SerialInv'
  BY <1>2, <1>3, <1>5, NoFrameFacts, SerialStays DEF ChildInv
<1>9. LinkInv'
  BY <1>2, <1>3, <1>4, DetachLinks
<1>10. ResultInv'
  BY <1>2, <1>3, <1>5, NoFrameFacts, ResultStays DEF ChildInv
<1> QED
  BY <1>6, <1>7, <1>8, <1>9, <1>10 DEF ChildInv

-----------------------------------------------------------------------------
(***************************************************************************)
(* Cancel.                                                                 *)
(***************************************************************************)
\* The first critical section ends: op is cancelling, and no child is linked.
LEMMA CancelBegins ==
    ASSUME SfInv, SfInv', ChildInv, NEW t \in Thread, NEW d \in Nat, NEW op \in Op,
           F(t, d).at \in {"Cancel", "CancelledChild"}, F(t, d).op = op, F(t, d + 1) = NoFrame,
           NEW f, f.at = "OnCancel", f.op = op, Moves(t, d, f, NoFrame),
           state_[op] = "started", state_' = [state_ EXCEPT ![op] = "cancelling"],
           child_' = [child_ EXCEPT ![op] = Nobody],
           UNCHANGED <<ec_, parent_, handedOver, callbacks, results, asserts>>
    PROVE  ChildInv'
<1>1. /\ state_'[op] = "cancelling" /\ \A o \in Op \ {op} : state_'[o] = state_[o]
      /\ child_'[op] = Nobody /\ \A o \in Op \ {op} : child_'[o] = child_[o]
      /\ Nobody \notin Op
  BY TreeFacts DEF SfInv, TypeInv
<1>2. \A o \in Op : (Fresh(o)' <=> Fresh(o)) /\ (Live(o)' <=> Live(o))
  <2>1. \A o \in Op : state_'[o] = "idle" <=> state_[o] = "idle"
    BY <1>1
  <2>2. \A o \in Op : Fresh(o)' <=> Fresh(o)
    BY <2>1, NoFrameFacts, FreshStays
  <2> QED
    BY <2>2 DEF Live
<1>3. CancelInv'
  <2>1. "none" \notin InsideCancel /\ f.at \in InsideCancel /\ F(t, d).at \notin InsideCancel
    BY DEF InsideCancel
  <2>2. \A at \in InsideCancel : ~One(at, op)
    BY DEF ChildInv, CancelInv
  <2>3. \A o \in Op : Unique(InsideCancel, o)'
    BY <2>1, <2>2, NoFrameFacts, UniqueMoves DEF ChildInv, CancelInv
  <2>4. \A o \in Op \ {op} : \A at \in InsideCancel : One(at, o)' <=> One(at, o)
    BY <2>1, NoFrameFacts, OneMoves DEF On
  <2>5. \A o \in Op : One("CancelDetach", o)' => One("CancelDetach", o)
    BY NoFrameFacts, OneMoves
  <2>6. \E at \in InsideCancel : One(at, op)'
    BY <2>1, OneMoves
  <2> QED
    BY <1>1, <2>3, <2>4, <2>5, <2>6 DEF ChildInv, CancelInv
<1>4. DoneInv'
  <2>1. {F(t, d).at, f.at, NoFrame.at} \cap Ending = {}
    BY NoFrameFacts DEF Ending
  <2>2. \A o \in Op : /\ Live(o)' => Live(o) \/ IsChild(o, Root)
                      /\ state_'[o] = state_[o] \/ state_'[o] \in {"cancelling", "cancelled"}
                      /\ state_[o] = "idle" <=> state_'[o] = "idle"
    BY <1>1, <1>2
  <2> QED
    BY <2>1, <2>2, DoneStays DEF ChildInv
<1>5. SerialInv'
  <2>1. \A o \in Op : /\ IsChild(o, Root) /\ Fresh(o) => Fresh(o)'
                      /\ state_[o] \in {"completed", "cancelled"} => state_'[o] = state_[o]
    BY <1>1, <1>2
  <2> QED
    BY <2>1, NoFrameFacts, SerialStays DEF ChildInv
<1>6. LinkInv'
  <2>1. \A o \in Op : /\ One("CancelDetach", o) => One("CancelDetach", o)'
                      /\ o # op /\ One("CancelledChild", o) => One("CancelledChild", o)'
    BY OneMoves DEF On
  <2>2. \A p \in Op, c \in Op : child_'[p] = c => child_[p] = c
    BY <1>1
  <2>3. ASSUME NEW p \in Op, NEW c \in Op, child_'[p] = c
        PROVE  /\ IsChild(c, p) /\ c \in parent_'
               /\ state_'[c] \in {"started", "cancelling"} \/ One("CancelDetach", c)'
    <3>1. /\ IsChild(c, p) /\ c \in parent_
          /\ state_[c] \in {"started", "cancelling"} \/ One("CancelDetach", c)
      BY <2>2, <2>3 DEF ChildInv, LinkInv
    <3>2. state_'[c] \in {"started", "cancelling"} \/ One("CancelDetach", c)'
      BY <1>1, <2>1, <3>1
    <3> QED
      BY <3>1, <3>2
  <2>4. \A c \in Children : state_'[c] = "idle" => c \in parent_'
    BY <1>1, TreeFacts DEF ChildInv, LinkInv
  <2>5. \A p, c \in Op :
          /\ IsChild(c, p) /\ state_'[c] = "started"
          /\ state_'[p] = "started" /\ ~One("CancelledChild", p)'
          => child_'[p] = c
    BY <1>1, <2>1 DEF ChildInv, LinkInv
  <2> QED
    BY <2>3, <2>4, <2>5 DEF ChildInv, LinkInv
<1>7. ResultInv'
  <2>1. \A o \in Op : /\ state_'[o] = "completed" => state_[o] = "completed"
                      /\ One("Completed", o) \/ state_[o] = "completed" => ec_'[o] = ec_[o]
                      /\ Fresh(o) => Fresh(o)' \/ IsChild(o, Root)
    BY <1>1, <1>2
  <2> QED
    BY <2>1, NoFrameFacts, ResultStays DEF ChildInv
<1> QED
  BY <1>3, <1>4, <1>5, <1>6, <1>7 DEF ChildInv

LEMMA CancelledChildLinks ==
    ASSUME SfInv, SfInv', ChildInv, NEW t \in Thread, CancelledChild(t)
    PROVE  ChildInv'
<1>1. PICK d \in Nat, op \in Op : AtTop(t, d, "CancelledChild", op) /\ One("CancelledChild", op)
  BY TopPlace DEF CancelledChild, SfInv
<1>2. /\ F(t, d).at = "CancelledChild" /\ F(t, d).op = op /\ F(t, d + 1) = NoFrame /\ Top(t).op = op
      /\ state_' = [state_ EXCEPT ![op] = "cancelling"]
      /\ child_' = [child_ EXCEPT ![op] = Nobody]
      /\ UNCHANGED <<ec_, parent_, handedOver, callbacks, results, asserts>>
  BY <1>1 DEF AtTop, CancelledChild, user
<1>3. state_[op] = "started"
  BY <1>1, TokenFacts DEF TokenView
<1>4. PICK f \in Frames : f = Frame("OnCancel", op) /\ f.at = "OnCancel" /\ f.op = op
  <2>1. "OnCancel" \in Places
    BY DEF Places
  <2> QED
    BY <2>1, PlainFrame
<1>5. Moves(t, d, f, NoFrame)
  <2>1. Goto(t, f)
    BY <1>2, <1>4 DEF CancelledChild
  <2> QED
    BY <1>1, <2>1, GotoMoves DEF SfInv
<1> QED
  BY <1>2, <1>3, <1>4, <1>5, CancelBegins

LEMMA CancelLinks ==
    ASSUME SfInv, SfInv', EndInv, ChildInv, NEW t \in Thread, Cancel(t)
    PROVE  ChildInv'
<1>1. PICK d \in Nat, op \in Op : AtTop(t, d, "Cancel", op)
  BY TopPlace DEF Cancel, SfInv
<1>2. /\ F(t, d).at = "Cancel" /\ F(t, d).op = op /\ F(t, d + 1) = NoFrame /\ Top(t).op = op
      /\ UNCHANGED <<child_, ec_, parent_, handedOver, callbacks, results>>
  BY <1>1 DEF AtTop, Cancel, user
<1>3. "Cancel" \in Still /\ "CancelledChild" \in Still /\ NoFrame.at \in Still
  BY NoFrameFacts DEF Still, Places, Tokens, Deep, Ending, InsideCancel
<1>4. asserts \subseteq {"cancel twice"}
  BY DEF ChildInv, LinkInv
<1>5. CASE state_[op] = "started" /\ child_[op] # Nobody
  <2>1. /\ Call(t, Frame("CancelledChild", op), Frame("Cancel", child_[op]))
        /\ state_' = state_ /\ asserts' = asserts
    BY <1>2, <1>5 DEF Cancel
  <2>2. "Cancel" \in Places /\ "CancelledChild" \in Places /\ child_[op] \in Op
    BY <1>5, LinkedIsLive DEF Places, Deep
  <2>3. PICK f \in Frames : f = Frame("CancelledChild", op) /\ f.at = "CancelledChild"
    BY <2>2, PlainFrame
  <2>4. PICK g \in Frames : g = Frame("Cancel", child_[op]) /\ g.at = "Cancel"
    BY <2>2, PlainFrame
  <2>5. Moves(t, d, f, g)
    BY <1>1, <2>1, <2>3, <2>4, CallMoves DEF SfInv
  <2>6. {F(t, d).at, f.at, g.at} \subseteq Still
    BY <1>2, <1>3, <2>3, <2>4
  <2> QED
    BY <1>2, <1>4, <2>1, <2>5, <2>6, StillKeeps
<1>6. CASE state_[op] = "started" /\ child_[op] = Nobody
  <2>1. /\ Goto(t, Frame("OnCancel", op)) /\ asserts' = asserts
        /\ state_' = [state_ EXCEPT ![op] = "cancelling"]
    BY <1>2, <1>6 DEF Cancel
  <2>2. "OnCancel" \in Places
    BY DEF Places
  <2>3. PICK f \in Frames : f = Frame("OnCancel", op) /\ f.at = "OnCancel" /\ f.op = op
    BY <2>2, PlainFrame
  <2>4. Moves(t, d, f, NoFrame)
    BY <1>1, <2>1, <2>3, GotoMoves DEF SfInv
  <2>5. child_' = [child_ EXCEPT ![op] = Nobody]
    BY <1>2, <1>6 DEF SfInv, TypeInv
  <2> QED
    BY <1>2, <1>6, <2>1, <2>3, <2>4, <2>5, CancelBegins
<1>7. CASE state_[op] # "started"
  <2>1. Return(t) /\ state_' = state_
    BY <1>2, <1>7 DEF Cancel
  <2>2. Moves(t, d, NoFrame, NoFrame)
    BY <1>1, <2>1, ReturnMoves DEF SfInv
  <2>3. asserts' \subseteq {"cancel twice"}
    <3>1. state_[op] = "completed" => child_[op] = Nobody
      <4>1. SUFFICES ASSUME state_[op] = "completed", child_[op] # Nobody PROVE FALSE
        OBVIOUS
      <4>2. op \in Children
        BY <4>1, TreeFacts DEF EndInv
      <4>3. \A c \in Op : IsChild(c, op) => ~Live(c)
        BY <4>1, <4>2 DEF ChildInv, DoneInv, DoneAt
      <4> QED
        BY <4>1, <4>3, LinkedIsLive
    <3>2. CASE state_[op] = "completed"
      BY <1>2, <1>4, <3>1, <3>2 DEF Cancel, Check
    <3>3. CASE state_[op] # "completed"
      BY <1>2, <1>4, <1>7, <3>3 DEF Cancel, Check
    <3> QED
      BY <3>2, <3>3
  <2>4. {F(t, d).at, NoFrame.at} \subseteq Still
    BY <1>2, <1>3
  <2> QED
    BY <1>2, <2>1, <2>2, <2>3, <2>4, StillKeeps
<1> QED
  BY <1>5, <1>6, <1>7

LEMMA OnCancelLinks ==
    ASSUME SfInv, SfInv', ChildInv, NEW t \in Thread, OnCancel(t)
    PROVE  ChildInv'
<1>1. PICK d \in Nat, op \in Op : AtTop(t, d, "OnCancel", op) /\ One("OnCancel", op)
  BY TopPlace DEF OnCancel, SfInv
<1>2. /\ F(t, d).at = "OnCancel" /\ F(t, d).op = op /\ F(t, d + 1) = NoFrame /\ Top(t).op = op
      /\ Top(t) \in Frames
      /\ UNCHANGED <<state_, child_, ec_, parent_, handedOver, callbacks, results, asserts>>
  BY <1>1 DEF AtTop, OnCancel, members, user
<1>3. PICK f \in Frames : f = [Top(t) EXCEPT !.at = "Cancelling"] /\ f.at = "Cancelling" /\ f.op = op
  <2> DEFINE h == [Top(t) EXCEPT !.at = "Cancelling"]
  <2>1. h \in Frames /\ h.at = "Cancelling" /\ h.op = op
    BY <1>2 DEF Frames, Places, Deep
  <2> HIDE DEF h
  <2>2. \E f \in Frames : f = h /\ f.at = "Cancelling" /\ f.op = op
    BY <2>1
  <2> QED
    BY <2>2 DEF h
<1>4. PICK g \in Frames \cup {NoFrame} :
        /\ Moves(t, d, f, g)
        /\ g = NoFrame \/ (g.at = "Complete" /\ g.op = op /\ g.ec = "canceled")
  <2>1. CASE Goto(t, f)
    BY <1>1, <2>1, GotoMoves DEF SfInv
  <2>2. CASE Call(t, f, [Frame("Complete", op) EXCEPT !.ec = "canceled"])
    <3>1. "Complete" \in Places /\ "canceled" \in Errors
      BY DEF Places, Tokens, Errors
    <3>2. PICK g \in Frames : /\ g = [Frame("Complete", op) EXCEPT !.ec = "canceled"]
                              /\ g.at = "Complete" /\ g.op = op /\ g.ec = "canceled"
      BY <3>1, ErrorFrame
    <3>3. Moves(t, d, f, g)
      BY <1>1, <2>2, <3>2, CallMoves DEF SfInv
    <3> QED
      BY <3>2, <3>3
  <2> QED
    BY <1>2, <1>3, <2>1, <2>2 DEF OnCancel
<1>5. /\ g.at \in {"none", "Complete"} /\ (g.at = "Complete" => g.op = op /\ g.ec = "canceled")
      /\ Moves(t, d, f, g)
  BY <1>4, NoFrameFacts
<1>13. /\ F(t, d).at = "OnCancel" /\ F(t, d).op = op /\ F(t, d + 1) = NoFrame
       /\ f.at = "Cancelling" /\ f.op = op /\ g.at # "CancelDetach" /\ g.at \notin InsideCancel
  BY <1>2, <1>3, <1>5 DEF InsideCancel
<1>14. Moves(t, d, f, g)
  BY <1>5
<1>6. state_[op] = "cancelling"
  BY <1>1 DEF ChildInv, CancelInv, InsideCancel
<1>7. \A o \in Op : (Fresh(o)' <=> Fresh(o)) /\ (Live(o)' <=> Live(o))
  <2>1. \A o \in Op : Fresh(o)' <=> Fresh(o)
    BY <1>2, <1>3, <1>5, FreshStays
  <2> QED
    BY <1>2, <2>1 DEF Live
<1>8. CancelInv'
  <2>1. "none" \notin InsideCancel /\ F(t, d).at \in InsideCancel /\ f.at \in InsideCancel
    BY <1>13 DEF InsideCancel
  <2>2. \A o \in Op : Unique(InsideCancel, o)'
    BY <1>13, <1>14, <2>1, UniqueMoves DEF ChildInv, CancelInv
  <2>3. \A o \in Op \ {op}, at \in InsideCancel : One(at, o)' <=> One(at, o)
    BY <1>13, <1>14, <2>1, OneMoves DEF On
  <2>4. \E at \in InsideCancel : One(at, op)'
    BY <1>13, <1>14, <2>1, OneMoves
  <2>5. \A o \in Op : One("CancelDetach", o)' => One("CancelDetach", o)
    BY <1>13, <1>14, OneMoves
  <2> QED
    BY <1>2, <1>6, <2>2, <2>3, <2>4, <2>5 DEF ChildInv, CancelInv
<1>9. DoneInv'
  <2>1. \A o \in Children \ {op} : DoneAt(o)'
    <3>1. \A h \in {F(t, d), f, g} : h.at \in Ending => h.op = op
      BY <1>2, <1>3, <1>5 DEF Ending
    <3>2. DoneInv
      BY DEF ChildInv
    <3> QED
      BY <1>2, <1>5, <1>7, <3>1, <3>2, DoneAtElse
  <2>2. op \in Children => DoneAt(op)'
    BY <1>2, <1>6 DEF ChildInv, DoneInv, DoneAt
  <2> QED
    BY <2>1, <2>2 DEF DoneInv
<1>10. SerialInv'
  BY <1>2, <1>3, <1>5, <1>7, SerialStays DEF ChildInv
<1>11. LinkInv'
  <2>1. asserts' \subseteq {"cancel twice"}
    BY <1>2 DEF ChildInv, LinkInv
  <2> QED
    BY <1>2, <1>5, <2>1, LinkStays DEF ChildInv
<1>12. ResultInv'
  BY <1>2, <1>3, <1>5, <1>7, ResultStays DEF ChildInv
<1> QED
  BY <1>8, <1>9, <1>10, <1>11, <1>12 DEF ChildInv

LEMMA CancellingLinks ==
    ASSUME SfInv, SfInv', ChildInv, NEW t \in Thread, Cancelling(t)
    PROVE  ChildInv'
<1>1. PICK d \in Nat, op \in Op : AtTop(t, d, "Cancelling", op) /\ One("Cancelling", op)
  BY TopPlace DEF Cancelling, SfInv
<1>2. state_[op] = "cancelling" /\ Unique(InsideCancel, op)
  BY <1>1 DEF ChildInv, CancelInv, InsideCancel
<1>3. /\ F(t, d).at = "Cancelling" /\ F(t, d).op = op /\ F(t, d + 1) = NoFrame /\ Top(t).op = op
      /\ UNCHANGED <<child_, ec_, parent_, handedOver, callbacks, results>>
  BY <1>1 DEF AtTop, Cancelling, user
<1>4. /\ state_' = [state_ EXCEPT ![op] = "cancelled"] /\ asserts' = asserts
      /\ Goto(t, Frame("CancelDetach", op))
  BY <1>2, <1>3 DEF Cancelling, Check
<1>5. PICK f \in Frames : f = Frame("CancelDetach", op) /\ f.at = "CancelDetach" /\ f.op = op
  <2>1. "CancelDetach" \in Places
    BY DEF Places
  <2> QED
    BY <2>1, PlainFrame
<1>6. Moves(t, d, f, NoFrame)
  BY <1>1, <1>4, <1>5, GotoMoves DEF SfInv
<1>7. state_'[op] = "cancelled" /\ \A o \in Op \ {op} : state_'[o] = state_[o]
  BY <1>4 DEF SfInv, TypeInv
<1>8. \A o \in Op : (Fresh(o)' <=> Fresh(o)) /\ (Live(o)' <=> Live(o))
  <2>1. \A o \in Op : state_'[o] = "idle" <=> state_[o] = "idle"
    BY <1>2, <1>7
  <2>2. \A o \in Op : Fresh(o)' <=> Fresh(o)
    BY <1>3, <1>5, <1>6, <2>1, NoFrameFacts, FreshStays
  <2> QED
    BY <1>3, <2>2 DEF Live
<1>9. CancelInv'
  <2>1. "none" \notin InsideCancel /\ F(t, d).at \in InsideCancel /\ f.at \notin InsideCancel
    BY <1>3, <1>5 DEF InsideCancel
  <2>2. \A o \in Op : Unique(InsideCancel, o)'
    BY <1>3, <1>6, <2>1, NoFrameFacts, UniqueMoves DEF ChildInv, CancelInv
  <2>3. \A o \in Op \ {op}, at \in InsideCancel : One(at, o)' <=> One(at, o)
    BY <1>3, <1>6, <2>1, NoFrameFacts, OneMoves DEF On
  <2>4. \A at \in InsideCancel : ~One(at, op)'
    BY <1>2, <1>3, <1>6, <2>1, NoFrameFacts, UniqueGone
  <2>5. \A o \in Op \ {op} : One("CancelDetach", o)' => One("CancelDetach", o)
    BY <1>3, <1>5, <1>6, NoFrameFacts, OneMoves
  <2> QED
    BY <1>7, <2>2, <2>3, <2>4, <2>5 DEF ChildInv, CancelInv
<1>10. DoneInv'
  <2>1. {F(t, d).at, f.at, NoFrame.at} \cap Ending = {}
    BY <1>3, <1>5, NoFrameFacts DEF Ending
  <2>2. \A o \in Op : /\ Live(o)' => Live(o) \/ IsChild(o, Root)
                      /\ state_'[o] = state_[o] \/ state_'[o] \in {"cancelling", "cancelled"}
                      /\ state_[o] = "idle" <=> state_'[o] = "idle"
    BY <1>2, <1>7, <1>8
  <2> QED
    BY <1>3, <1>6, <2>1, <2>2, DoneStays DEF ChildInv
<1>11. SerialInv'
  <2>1. \A o \in Op : /\ IsChild(o, Root) /\ Fresh(o) => Fresh(o)'
                      /\ state_[o] \in {"completed", "cancelled"} => state_'[o] = state_[o]
    BY <1>2, <1>7, <1>8
  <2> QED
    BY <1>2, <1>3, <1>5, <1>6, <2>1, NoFrameFacts, SerialStays DEF ChildInv
<1>12. LinkInv'
  <2>1. \A o \in Op : /\ One("CancelDetach", o) => One("CancelDetach", o)'
                      /\ One("CancelledChild", o) => One("CancelledChild", o)'
    BY <1>3, <1>6, OneMoves DEF On
  <2>2. One("CancelDetach", op)'
    BY <1>5, <1>6, <1>3, OneMoves
  <2>3. ASSUME NEW p \in Op, NEW c \in Op, child_'[p] = c
        PROVE  /\ IsChild(c, p) /\ c \in parent_'
               /\ state_'[c] \in {"started", "cancelling"} \/ One("CancelDetach", c)'
    <3>1. /\ IsChild(c, p) /\ c \in parent_
          /\ state_[c] \in {"started", "cancelling"} \/ One("CancelDetach", c)
      BY <1>3, <2>3 DEF ChildInv, LinkInv
    <3>2. state_'[c] \in {"started", "cancelling"} \/ One("CancelDetach", c)'
      BY <1>7, <2>1, <2>2, <3>1
    <3> QED
      BY <1>3, <3>1, <3>2
  <2>4. \A c \in Children : state_'[c] = "idle" => c \in parent_'
    BY <1>3, <1>7, TreeFacts DEF ChildInv, LinkInv
  <2>5. \A p, c \in Op :
          /\ IsChild(c, p) /\ state_'[c] = "started"
          /\ state_'[p] = "started" /\ ~One("CancelledChild", p)'
          => child_'[p] = c
    BY <1>3, <1>7, <2>1 DEF ChildInv, LinkInv
  <2> QED
    BY <1>4, <2>3, <2>4, <2>5 DEF ChildInv, LinkInv
<1>13. ResultInv'
  <2>1. \A o \in Op : /\ state_'[o] = "completed" => state_[o] = "completed"
                      /\ One("Completed", o) \/ state_[o] = "completed" => ec_'[o] = ec_[o]
                      /\ Fresh(o) => Fresh(o)' \/ IsChild(o, Root)
    BY <1>3, <1>7, <1>8
  <2> QED
    BY <1>3, <1>5, <1>6, <2>1, NoFrameFacts, ResultStays DEF ChildInv
<1> QED
  BY <1>9, <1>10, <1>11, <1>12, <1>13 DEF ChildInv

-----------------------------------------------------------------------------
(***************************************************************************)
(* The callback.                                                           *)
(***************************************************************************)
LEMMA LastFacts ==
    ASSUME NEW op \in Children, Successors(op) = <<>>,
           NEW i \in DOMAIN Steps[Parent(op)], Steps[Parent(op)][i] = op,
           NEW j \in DOMAIN Steps[Parent(op)]
    PROVE  j <= i
<1> DEFINE s == Steps[Parent(op)]
           k == CHOOSE x \in DOMAIN s : s[x] = op
<1>1. s \in Seq(Op) /\ Len(s) \in Nat /\ k \in DOMAIN s /\ s[k] = op /\ k \in 1..Len(s)
  BY TreeFacts DEF IsChild
<1>2. k = i
  BY <1>1, TreeFacts, OperationsAssumption
<1> HIDE DEF k
<1>3. Successors(op) = SubSeq(s, k + 1, Len(s))
  BY DEF Successors, k
<1>4. k = Len(s)
  <2>1. SUFFICES ASSUME k < Len(s) PROVE FALSE
    BY <1>1
  <2>2. Len(SubSeq(s, k + 1, Len(s))) = Len(s) - k
    BY <1>1, <2>1
  <2>3. SubSeq(s, k + 1, Len(s)) = <<>>
    BY <1>3
  <2>4. Len(<<>>) = 0
    OBVIOUS
  <2>5. Len(s) - k = 0
    BY <2>2, <2>3, <2>4
  <2> QED
    BY <1>1, <2>1, <2>5
<1> QED
  BY <1>1, <1>2, <1>4

\* When the callback of op is called, the children of its parent that come
\* before op have succeeded, and the others were not begun.
LEMMA SiblingsOf ==
    ASSUME SfInv, ChildInv, NEW op \in Children, Parent(op) # Root, ~Fresh(op), callbacks[op] = 0
    PROVE  \E i \in DOMAIN Steps[Parent(op)] :
              /\ Steps[Parent(op)][i] = op
              /\ \A j \in DOMAIN Steps[Parent(op)] :
                    /\ j < i => Succeeded(Steps[Parent(op)][j])
                    /\ j > i => Fresh(Steps[Parent(op)][j])
<1>1. PICK p \in Op \ {Root} : p = Parent(op) /\ IsChild(op, p)
  BY TreeFacts
<1>2. PICK i \in DOMAIN Steps[p] : Steps[p][i] = op
  BY <1>1 DEF IsChild
<1>3. \A j \in DOMAIN Steps[p] : /\ j < i => Succeeded(Steps[p][j])
                                 /\ i < j => Fresh(Steps[p][j])
  BY <1>2 DEF ChildInv, ResultInv, SfInv, OrderInv
<1>4. \A j \in DOMAIN Steps[p] : j > i <=> i < j
  BY TreeFacts
<1> QED
  BY <1>1, <1>2, <1>3, <1>4

LEMMA CallbackLinks ==
    ASSUME SfInv, SfInv', EndInv, ChildInv, NEW t \in Thread, Callback(t)
    PROVE  ChildInv'
<1>1. PICK d \in Nat, op \in Op : AtTop(t, d, "Callback", op) /\ One("Callback", op)
  BY TopPlace DEF Callback, SfInv
<1>2. /\ F(t, d).at = "Callback" /\ F(t, d).op = op /\ F(t, d + 1) = NoFrame /\ Top(t).op = op
      /\ UNCHANGED <<state_, child_, ec_, parent_, handedOver, asserts>>
  BY <1>1 DEF AtTop, Callback, members, user
<1>3. PICK p \in Op :
        /\ p = Parent(op) /\ IsChild(op, p) /\ op \in Children
        /\ state_[op] = "completed" /\ callbacks[op] = 0 /\ ~Fresh(op) /\ Live(op)
        /\ End(op) = ec_[op] /\ ec_[op] \in Errors
  BY <1>1, TokenFacts, TreeFacts DEF TokenView, End, SfInv, TypeInv, Fresh, Live
<1>4. /\ callbacks'[op] = 1 /\ results'[op] = ec_[op]
      /\ \A o \in Op \ {op} : callbacks'[o] = callbacks[o]
      /\ \A o \in Op \ {op} : results'[o] = results[o]
  <2>1. /\ callbacks' = [callbacks EXCEPT ![op] = @ + 1]
        /\ results' = [results EXCEPT ![op] = End(op)]
    BY <1>2 DEF Callback
  <2> QED
    BY <1>3, <2>1 DEF SfInv, TypeInv, EndInv
<1>5. PICK f \in Frames \cup {NoFrame} :
        /\ Moves(t, d, f, NoFrame)
        /\ \/ f = NoFrame
           \/ /\ f.at = "Start" /\ p # Root /\ ec_[op] = "ok"
              /\ f.op \in Op /\ Follows(f.op, op)
           \/ /\ f.at = "Complete" /\ f.op = p /\ f.ec = ec_[op] /\ p # Root
              /\ ec_[op] # "ok" \/ Successors(op) = <<>>
  <2>1. CASE p = Root
    <3>1. Return(t)
      BY <1>2, <1>3, <2>1 DEF Callback
    <3> QED
      BY <1>1, <3>1, ReturnMoves DEF SfInv
  <2>2. CASE p # Root /\ ec_[op] = "ok" /\ Successors(op) # <<>>
    <3>1. Goto(t, Frame("Start", Head(Successors(op))))
      BY <1>2, <1>3, <2>2 DEF Callback
    <3>2. "Start" \in Places /\ Head(Successors(op)) \in Op /\ Follows(Head(Successors(op)), op)
      BY <1>3, <2>2, NextFacts DEF Places, Tokens
    <3>3. PICK h \in Frames : /\ h = Frame("Start", Head(Successors(op)))
                              /\ h.at = "Start" /\ h.op = Head(Successors(op))
      BY <3>2, PlainFrame
    <3>4. Moves(t, d, h, NoFrame)
      BY <1>1, <3>1, <3>3, GotoMoves DEF SfInv
    <3> QED
      BY <2>2, <3>2, <3>3, <3>4
  <2>3. CASE p # Root /\ ~(ec_[op] = "ok" /\ Successors(op) # <<>>)
    <3>1. Goto(t, [Frame("Complete", p) EXCEPT !.ec = ec_[op]])
      BY <1>2, <1>3, <2>3 DEF Callback
    <3>2. "Complete" \in Places
      BY DEF Places, Tokens
    <3>3. PICK h \in Frames : /\ h = [Frame("Complete", p) EXCEPT !.ec = ec_[op]]
                              /\ h.at = "Complete" /\ h.op = p /\ h.ec = ec_[op]
      BY <1>3, <3>2, ErrorFrame
    <3>4. Moves(t, d, h, NoFrame)
      BY <1>1, <3>1, <3>3, GotoMoves DEF SfInv
    <3> QED
      BY <2>3, <3>3, <3>4
  <2> QED
    BY <2>1, <2>2, <2>3
<1>6. Moves(t, d, f, NoFrame) /\ NoFrame.at = "none" /\ f.at \in {"none", "Start", "Complete"}
  BY <1>5, NoFrameFacts
<1>7. f.at = "Start" => p # Root /\ ec_[op] = "ok" /\ f.op \in Op /\ Follows(f.op, op)
  BY <1>5, NoFrameFacts
<1>8. f.at = "Complete" =>
        /\ f.op = p /\ f.ec = ec_[op] /\ p # Root
        /\ ec_[op] # "ok" \/ Successors(op) = <<>>
  BY <1>5, NoFrameFacts
<1>9. \A o \in Op : Fresh(o) => Fresh(o)' \/ (f.at = "Start" /\ o = f.op)
  <2>1. \A o \in Op : One("Start", o)' => One("Start", o) \/ (f.at = "Start" /\ o = f.op)
    BY <1>2, <1>6, OneMoves
  <2> QED
    BY <1>2, <2>1, TokenFacts, TokenFactsNext DEF TokenView
<1>10. f.at = "Start" => IsChild(f.op, p)
  BY <1>3, <1>7 DEF Follows, IsChild
<1>11. \A o \in Op : Live(o)' => o # op /\ (Live(o) \/ (f.at = "Start" /\ o = f.op))
  BY <1>4, <1>9 DEF Live
<1>12. \A o \in Op : Succeeded(o) => o # op /\ Succeeded(o)'
  BY <1>3, <1>4 DEF Succeeded
<1>13. ec_[op] = "ok" => Succeeded(op)'
  BY <1>4 DEF Succeeded
<1>14. state_[p] # "idle" /\ (p # Root => p \in Children /\ state_[p] # "completed")
      /\ (p # Root /\ state_[p] = "started" => ~Pending(p))
  <2>1. state_[p] # "idle"
    BY <1>3 DEF SfInv, OrderInv
  <2>2. p # Root => p \in Children /\ DoneAt(p)
    BY TreeFacts DEF ChildInv, DoneInv
  <2> QED
    BY <1>3, <2>1, <2>2 DEF DoneAt
<1>15. CancelInv'
  <2>1. {F(t, d).at, f.at, NoFrame.at} \cap InsideCancel = {} /\ "CancelDetach" \notin {f.at, NoFrame.at}
    BY <1>2, <1>6 DEF InsideCancel
  <2> QED
    BY <1>2, <1>6, <2>1, CancelStays DEF ChildInv
<1>16. DoneInv'
  <2>1. ASSUME NEW o \in Children, o # p
        PROVE  DoneAt(o)'
    <3>1. o \in Op /\ DoneAt(o)
      BY <2>1, TreeFacts DEF ChildInv, DoneInv
    <3>2. \A h \in {F(t, d), f, NoFrame} : ~(h.at \in Ending /\ h.op = o)
      BY <1>2, <1>6, <1>8, <2>1 DEF Ending
    <3>3. \A c \in Op : IsChild(c, o) /\ Live(c)' => Live(c)
      BY <1>7, <1>10, <1>11, <2>1, TreeFacts
    <3> QED
      BY <1>2, <1>6, <3>1, <3>2, <3>3, DoneAtStays
  <2>2. ASSUME p # Root
        PROVE  DoneAt(p)'
    <3>1. /\ DoneAt(p) /\ state_[p] \notin {"idle", "completed"} /\ "none" \notin Ending
          /\ (state_[p] = "started" => ~Pending(p))
      BY <1>14, <2>2 DEF ChildInv, DoneInv, Ending
    <3>2. state_[p] = "started" => \A at \in Ending : ~One(at, p)
      BY <3>1 DEF Pending
    <3>3. state_[p] = "started" => Unique(Ending, p)'
      BY <1>2, <1>6, <3>1, <3>2, UniqueMoves DEF DoneAt
    <3>4. ASSUME state_[p] = "started", Pending(p)'
          PROVE  f.at = "Complete"
      <4>1. PICK at \in Ending : One(at, p)'
        BY <1>2, <3>1, <3>4 DEF Pending
      <4>2. at # "none" /\ at # "Start"
        BY DEF Ending
      <4>3. at = f.at
        BY <1>2, <1>6, <3>2, <3>4, <4>1, <4>2, OneMoves
      <4> QED
        BY <1>6, <4>2, <4>3
    <3>5. ASSUME f.at = "Complete", NEW c \in Op, IsChild(c, p)
          PROVE  ~Live(c)'
      <4>1. PICK i \in DOMAIN Steps[p] :
              /\ Steps[p][i] = op
              /\ \A j \in DOMAIN Steps[p] :
                    /\ j < i => Succeeded(Steps[p][j])
                    /\ j > i => Fresh(Steps[p][j])
        BY <1>3, <2>2, SiblingsOf
      <4>2. PICK j \in DOMAIN Steps[p] : Steps[p][j] = c
        BY <3>5 DEF IsChild
      <4>3. i \in Nat /\ j \in Nat
        BY TreeFacts
      <4>4. CASE j < i
        <5>1. Succeeded(c)'
          BY <1>12, <4>1, <4>2, <4>4
        <5> QED
          BY <5>1 DEF Succeeded, Live
      <4>5. CASE j = i
        BY <1>11, <4>1, <4>2, <4>5
      <4>6. CASE j > i
        <5>1. Fresh(c)
          BY <4>1, <4>2, <4>6
        <5>2. Fresh(c)'
          BY <1>9, <3>5, <5>1
        <5> QED
          BY <5>2 DEF Live
      <4> QED
        BY <4>3, <4>4, <4>5, <4>6
    <3>6. state_[p] = "started" => p \notin handedOver
      BY <3>1 DEF Pending
    <3> QED
      BY <1>2, <3>1, <3>3, <3>4, <3>5, <3>6 DEF DoneAt
  <2>3. \A o \in Children : o # Root
    BY TreeFacts
  <2> QED
    BY <2>1, <2>2, <2>3 DEF DoneInv
<1>17. SerialInv'
  <2>1. \A o \in Op : IsChild(o, Root) /\ Fresh(o) => Fresh(o)'
    BY <1>7, <1>9, <1>10, TreeFacts
  <2> QED
    BY <1>2, <1>6, <2>1, SerialStays DEF ChildInv
<1>18. LinkInv'
  BY <1>2, <1>6, LinkStays DEF ChildInv, LinkInv
<1>19. ResultInv'
  <2>1. \A o \in Children : Claimed("Complete", o, "ok")' => ChildrenSucceeded(o)'
    <3>1. SUFFICES ASSUME NEW o \in Children, Claimed("Complete", o, "ok")', NEW c \in Op, IsChild(c, o)
                   PROVE  Succeeded(c)'
      BY DEF ChildrenSucceeded
    <3>2. CASE Claimed("Complete", o, "ok")
      BY <1>12, <3>1, <3>2 DEF ChildInv, ResultInv, ChildrenSucceeded
    <3>3. CASE ~Claimed("Complete", o, "ok")
      <4>1. f.at = "Complete" /\ o = f.op /\ f.ec = "ok"
        BY <1>6, <3>1, <3>3, ClaimedMoves
      <4>2. o = p /\ p # Root /\ ec_[op] = "ok" /\ Successors(op) = <<>>
        BY <1>8, <4>1
      <4>3. PICK i \in DOMAIN Steps[p] :
              /\ Steps[p][i] = op
              /\ \A j \in DOMAIN Steps[p] : j < i => Succeeded(Steps[p][j])
        BY <1>3, <4>2, SiblingsOf
      <4>4. PICK j \in DOMAIN Steps[p] : Steps[p][j] = c
        BY <3>1, <4>2 DEF IsChild
      <4>5. j <= i /\ i \in Nat /\ j \in Nat
        <5>1. j <= i
          BY <1>3, <4>2, <4>3, LastFacts
        <5> QED
          BY <5>1, TreeFacts
      <4>6. CASE j < i
        BY <1>12, <4>3, <4>4, <4>6
      <4>7. CASE j = i
        BY <1>13, <4>2, <4>3, <4>4, <4>7
      <4> QED
        BY <4>5, <4>6, <4>7
    <3> QED
      BY <3>2, <3>3
  <2>2. ASSUME NEW o \in Children, One("Completed", o)' \/ state_'[o] = "completed", ec_'[o] = "ok"
        PROVE  ChildrenSucceeded(o)'
    <3>1. One("Completed", o)' => One("Completed", o)
      BY <1>2, <1>6, OneMoves
    <3>2. state_'[o] = state_[o] /\ ec_'[o] = ec_[o]
      BY <1>2
    <3>3. ChildrenSucceeded(o)
      BY <2>2, <3>1, <3>2 DEF ChildInv, ResultInv
    <3> QED
      BY <1>12, <3>3 DEF ChildrenSucceeded
  <2>3. ASSUME NEW q \in Op \ {Root}, NEW k \in DOMAIN Steps[q], NEW j \in DOMAIN Steps[q],
               k < j, ~Fresh(Steps[q][j])'
        PROVE  Succeeded(Steps[q][k])'
    <3>1. Steps[q][k] \in Op /\ Steps[q][j] \in Op /\ IsChild(Steps[q][j], q) /\ k \in Nat /\ j \in Nat
      BY TreeFacts DEF IsChild
    <3>2. CASE ~Fresh(Steps[q][j])
      BY <1>12, <2>3, <3>1, <3>2 DEF ChildInv, ResultInv
    <3>3. CASE Fresh(Steps[q][j])
      <4>1. f.at = "Start" /\ Steps[q][j] = f.op
        BY <1>9, <2>3, <3>1, <3>3
      <4>2. q = p
        BY <1>10, <3>1, <4>1, TreeFacts
      <4>3. PICK i \in DOMAIN Steps[p] :
              Steps[p][i] = op /\ i + 1 \in DOMAIN Steps[p] /\ f.op = Steps[p][i + 1]
        BY <1>3, <1>7, <4>1 DEF Follows
      <4>4. j = i + 1 /\ i \in Nat
        BY <4>1, <4>2, <4>3, TreeFacts, OperationsAssumption
      <4>5. CASE k = i
        BY <1>7, <1>13, <4>1, <4>2, <4>3, <4>5
      <4>6. CASE k < i
        <5>1. Succeeded(Steps[p][k])
          BY <1>3, <4>2, <4>3, <4>6 DEF ChildInv, ResultInv
        <5> QED
          BY <1>12, <3>1, <4>2, <5>1
      <4> QED
        BY <2>3, <3>1, <4>4, <4>5, <4>6
    <3> QED
      BY <3>2, <3>3
  <2> QED
    BY <2>1, <2>2, <2>3 DEF ResultInv
<1> QED
  BY <1>15, <1>16, <1>17, <1>18, <1>19 DEF ChildInv

-----------------------------------------------------------------------------
LEMMA StutterLinks ==
    ASSUME EndInv, ChildInv, UNCHANGED vars
    PROVE  EndInv' /\ ChildInv'
<1>1. UNCHANGED <<state_, child_, ec_, parent_, stack, handedOver, callbacks, results, asserts>>
  BY DEF vars, members, user
<1>2. \A t, k : F(t, k)' = F(t, k)
  BY <1>1 DEF F
<1>3. \A at, op : One(at, op)' <=> One(at, op)
  BY <1>2 DEF One, On
<1>4. \A places, op : Unique(places, op)' <=> Unique(places, op)
  BY <1>2 DEF Unique
<1>5. \A op : (Fresh(op)' <=> Fresh(op)) /\ (Live(op)' <=> Live(op)) /\ (Succeeded(op)' <=> Succeeded(op))
  BY <1>1 DEF Fresh, In, Live, Succeeded
<1>6. \A at, op, ec : Claimed(at, op, ec)' <=> Claimed(at, op, ec)
  BY <1>2 DEF Claimed, On
<1>7. \A op : ChildrenSucceeded(op)' <=> ChildrenSucceeded(op)
  BY <1>5 DEF ChildrenSucceeded
<1>8. EndInv'
  BY <1>1 DEF EndInv
<1>9. CancelInv'
  BY <1>1, <1>3, <1>4 DEF ChildInv, CancelInv
<1>10. DoneInv'
  BY <1>1, <1>3, <1>4, <1>5 DEF ChildInv, DoneInv, DoneAt, Pending
<1>11. SerialInv'
  BY <1>1, <1>3, <1>5 DEF ChildInv, SerialInv, Gone
<1>12. LinkInv'
  BY <1>1, <1>3 DEF ChildInv, LinkInv
<1>13. ResultInv'
  BY <1>1, <1>3, <1>5, <1>6, <1>7 DEF ChildInv, ResultInv
<1> QED
  BY <1>8, <1>9, <1>10, <1>11, <1>12, <1>13 DEF ChildInv

LEMMA EndKeeps ==
    ASSUME SfInv, EndInv, [Next]_vars
    PROVE  EndInv'
<1>1. ASSUME UNCHANGED <<state_, results>>
      PROVE  EndInv'
  BY <1>1 DEF EndInv
<1>2. ASSUME NEW op \in Op, NEW s \in States, s # "completed" \/ op # Root,
             state_' = state_ \/ state_' = [state_ EXCEPT ![op] = s],
             results' = results
      PROVE  EndInv'
  BY <1>2, TreeFacts DEF EndInv, SfInv, TypeInv
<1>3. ASSUME NEW t \in Thread, Start(t)
      PROVE  EndInv'
  <2>1. Top(t).op \in Op
    BY <1>3, TopFacts DEF Start, SfInv
  <2> QED
    BY <1>2, <1>3, <2>1 DEF Start, States
<1>4. ASSUME NEW t \in Thread, Completed(t)
      PROVE  EndInv'
  <2>1. Top(t).op \in Op /\ In(t, "Completed", Top(t).op)
    BY <1>4, TopFacts DEF Completed, SfInv
  <2>2. Top(t).op # Root
    BY <2>1, TreeFacts DEF SfInv, TokenInv
  <2> QED
    BY <1>2, <1>4, <2>1, <2>2 DEF Completed, States
<1>5. ASSUME NEW t \in Thread, Callback(t)
      PROVE  EndInv'
  <2>1. Top(t).op \in Op
    BY <1>5, TopFacts DEF Callback, SfInv
  <2>2. results' = [results EXCEPT ![Top(t).op] = End(Top(t).op)] /\ state_' = state_
    BY <1>5 DEF Callback, members
  <2>3. End(Top(t).op) \in Errors
    <3>1. In(t, "Callback", Top(t).op)
      BY <1>5, TopFacts DEF Callback, SfInv
    <3>2. state_[Top(t).op] = "completed"
      BY <2>1, <3>1 DEF SfInv, TokenInv
    <3> QED
      BY <2>1, <3>2 DEF End, SfInv, TypeInv
  <2> QED
    BY <2>1, <2>2, <2>3 DEF EndInv
<1>6. ASSUME NEW t \in Thread, Cancel(t)
      PROVE  EndInv'
  <2>1. Top(t).op \in Op
    BY <1>6, TopFacts DEF Cancel, SfInv
  <2> QED
    BY <1>2, <1>6, <2>1 DEF Cancel, States
<1>7. ASSUME NEW t \in Thread, CancelledChild(t) \/ Cancelling(t)
      PROVE  EndInv'
  <2>1. Top(t).op \in Op
    BY <1>7, TopFacts DEF CancelledChild, Cancelling, SfInv
  <2> QED
    BY <1>2, <1>7, <2>1 DEF CancelledChild, Cancelling, States
<1>8. ASSUME NEW t \in Thread,
             \/ OnStart(t) \/ StartReturns(t) \/ Complete(t) \/ OnCancel(t) \/ CancelDetach(t)
             \/ WorkDone(t) \/ CallCancel(t) \/ UserBegins \/ UNCHANGED vars
      PROVE  EndInv'
  BY <1>1, <1>8 DEF OnStart, StartReturns, Complete, OnCancel, CancelDetach, WorkDone, CallCancel,
     UserBegins, vars, members
<1> QED
  BY <1>3, <1>4, <1>5, <1>6, <1>7, <1>8, TreeFacts DEF Next, Proceed

LEMMA ChildInitially == Init => EndInv /\ ChildInv
<1> SUFFICES ASSUME Init PROVE EndInv /\ ChildInv
  OBVIOUS
<1>1. SfInv
  BY SfInitially
<1>2. /\ \A op \in Op : state_[op] = "idle" /\ callbacks[op] = 0 /\ child_[op] = Nobody
      /\ Nobody \notin Op /\ handedOver = {} /\ asserts = {} /\ parent_ = Children
      /\ results = [op \in Op |-> "none"]
  BY TreeFacts DEF Init
<1>3. \A t \in Thread, k \in Nat : F(t, k) = Frame("Start", Root) \/ F(t, k) = NoFrame
  <2>1. \A t \in Thread : stack[t] = <<Frame("Start", Root)>> \/ stack[t] = <<>>
    BY DEF Init
  <2>2. ASSUME NEW t \in Thread, NEW k \in Nat, stack[t] = <<Frame("Start", Root)>>
        PROVE  F(t, k) = Frame("Start", Root) \/ F(t, k) = NoFrame
    <3>1. Len(stack[t]) = 1 /\ stack[t][1] = Frame("Start", Root)
      BY <2>2
    <3> QED
      BY <3>1 DEF F
  <2>3. ASSUME NEW t \in Thread, NEW k \in Nat, stack[t] = <<>>
        PROVE  F(t, k) = NoFrame
    <3>1. Len(stack[t]) = 0
      BY <2>3
    <3> QED
      BY <3>1 DEF F
  <2> QED
    BY <2>1, <2>2, <2>3
<1>4. \A t \in Thread, k \in Nat : F(t, k).at \in {"Start", "none"} /\ F(t, k).op = Root
  BY <1>3, NoFrameFacts DEF Frame
<1>5. \A at, op : at \notin {"Start", "none"} => ~One(at, op)
  BY <1>4 DEF One, On
<1>6. \A op \in Op \ {Root} : Fresh(op)
  <2>1. \A op \in Op \ {Root} : ~One("Start", op)
    BY <1>4 DEF One, On
  <2> QED
    BY <1>1, <1>2, <2>1, TokenFacts DEF TokenView
<1>7. EndInv
  BY <1>2, TreeFacts DEF EndInv
<1>8. CancelInv
  <2>1. \A op \in Op : Unique(InsideCancel, op)
    BY <1>4 DEF Unique, InsideCancel
  <2> QED
    BY <1>2, <1>5, <2>1 DEF CancelInv, InsideCancel
<1>9. DoneInv
  <2>1. \A op \in Op : ~Pending(op)
    BY <1>2, <1>5 DEF Pending, Ending
  <2> QED
    BY <1>2, <2>1, TreeFacts DEF DoneInv, DoneAt
<1>10. \A p \in Op : \A i \in DOMAIN Steps[p] : Fresh(Steps[p][i])
  <2>1. \A p \in Op : \A i \in DOMAIN Steps[p] : Steps[p][i] \in Op \ {Root}
    <3>1. \A p \in Op : \A i \in DOMAIN Steps[p] : Steps[p][i] \in Op /\ IsChild(Steps[p][i], p)
      BY TreeFacts DEF IsChild
    <3> QED
      BY <3>1, TreeFacts DEF Children
  <2> QED
    BY <1>6, <2>1
<1>11. SerialInv
  BY <1>10, TreeFacts DEF SerialInv
<1>12. LinkInv
  BY <1>2 DEF LinkInv
<1>13. ResultInv
  <2>1. \A op : ~Claimed("Complete", op, "ok")
    BY <1>4 DEF Claimed, On
  <2> QED
    BY <1>2, <1>5, <1>10, <2>1, TreeFacts DEF ResultInv
<1> QED
  BY <1>7, <1>8, <1>9, <1>11, <1>12, <1>13 DEF ChildInv

LEMMA ChildInvIsInductive == SfInv /\ EndInv /\ ChildInv /\ [Next]_vars => EndInv' /\ ChildInv'
<1> SUFFICES ASSUME SfInv, EndInv, ChildInv, [Next]_vars
             PROVE  EndInv' /\ ChildInv'
  OBVIOUS
<1>1. SfInv' /\ EndInv'
  BY SfInvIsInductive, EndKeeps
<1>2. ASSUME NEW t \in Thread, Proceed(t)
      PROVE  ChildInv'
  BY <1>1, <1>2, StartLinks, OnStartLinks, StartReturnsLinks, CompleteLinks, CompletedLinks, CallbackLinks,
     CancelLinks, CancelledChildLinks, OnCancelLinks, CancellingLinks, CancelDetachLinks DEF Proceed
<1>3. ASSUME NEW t \in Thread, WorkDone(t) \/ CallCancel(t)
      PROVE  ChildInv'
  BY <1>1, <1>3, WorkDoneLinks, CallCancelLinks
<1> QED
  BY <1>1, <1>2, <1>3, UserBeginsLinks, StutterLinks DEF Next

\* What a state says that all parts of the invariant hold of.
SfChildInv == SfInv /\ EndInv /\ ChildInv

LEMMA SfChildInvariant == Spec => []SfChildInv
<1>1. Init => SfChildInv
  BY SfInitially, ChildInitially DEF SfChildInv
<1>2. SfChildInv /\ [Next]_vars => SfChildInv'
  BY SfInvIsInductive, ChildInvIsInductive DEF SfChildInv
<1> QED
  BY <1>1, <1>2, PTL DEF Spec

(***************************************************************************)
(* In any tree of operations, with any number of cancellers: an operation  *)
(* that completed with success has only children that did so too.          *)
(***************************************************************************)
THEOREM ResultsAlwaysPropagate == Spec => []ResultsPropagate
<1>1. SfChildInv => ResultsPropagate
  <2> SUFFICES ASSUME SfChildInv, NEW op \in Children, state_[op] = "completed", ec_[op] = "ok",
                      NEW c \in Op, IsChild(c, op)
               PROVE  state_[c] = "completed" /\ results[c] = "ok"
    BY DEF ResultsPropagate
  <2>1. Succeeded(c)
    BY DEF SfChildInv, ChildInv, ResultInv, ChildrenSucceeded
  <2> QED
    BY <2>1 DEF Succeeded, SfChildInv, SfInv, TokenInv
<1> QED
  BY <1>1, SfChildInvariant, PTL

(***************************************************************************)
(* In any tree of operations, with any number of cancellers: child_ of an  *)
(* operation is its child that is neither over nor detached, and is the    *)
(* running child as long as the operation itself runs; no assert fails but *)
(* the one that Cancel is called once.                                     *)
(***************************************************************************)
THEOREM AlwaysLinkedWhileRunning == Spec => []LinkedWhileRunning
<1>1. SfChildInv => LinkedWhileRunning
  <2> SUFFICES ASSUME SfChildInv PROVE LinkedWhileRunning
    OBVIOUS
  <2>1. \A places, op : "none" \notin places => (Someone(places, op) <=> \E at \in places : One(at, op))
    BY SomeoneIsOne DEF SfChildInv, SfInv
  <2>2. \A at, op : at # "none" => (Someone({at}, op) <=> One(at, op))
    BY <2>1
  <2>3. \A c \in Children : c \in Op /\ Parent(c) \in Op /\ IsChild(c, Parent(c))
    BY TreeFacts
  <2>4. asserts \subseteq {"cancel twice"}
    BY DEF SfChildInv, ChildInv, LinkInv
  <2>5. ASSUME NEW c \in Children, child_[Parent(c)] = c
        PROVE  state_[c] \in {"started", "cancelling"} \/ Someone({"CancelDetach"}, c)
    BY <2>2, <2>3, <2>5 DEF SfChildInv, ChildInv, LinkInv
  <2>6. ASSUME NEW c \in Children, state_[c] = "started", state_[Parent(c)] = "started",
               ~Someone({"CancelledChild"}, Parent(c))
        PROVE  child_[Parent(c)] = c
    BY <2>2, <2>3, <2>6 DEF SfChildInv, ChildInv, LinkInv
  <2> QED
    BY <2>4, <2>5, <2>6 DEF LinkedWhileRunning
<1> QED
  BY <1>1, SfChildInvariant, PTL
-----------------------------------------------------------------------------
(***************************************************************************)
(* What an operation promises.  One that is being cancelled is withdrawn;  *)
(* the callback of the others calls End.                                   *)
(***************************************************************************)
StatusOf(op) ==
    CASE state_[op] = "idle" -> "idle"
      [] state_[op] = "started" -> "pending"
      [] state_[op] = "completed" -> "answered"
      [] OTHER -> "withdrawn"

Promise(op) == INSTANCE AsyncPromise WITH
    Answers <- Errors,
    status <- StatusOf(op),
    result <- IF state_[op] = "completed" THEN ec_[op] ELSE "none",
    calls <- callbacks[op],
    told <- IF callbacks[op] = 1 THEN results[op] ELSE "none"

LEMMA SamePromise ==
    ASSUME NEW op \in Op, StatusOf(op)' = StatusOf(op),
           state_'[op] = "completed" <=> state_[op] = "completed",
           state_[op] = "completed" => ec_'[op] = ec_[op],
           callbacks'[op] = callbacks[op], results'[op] = results[op]
    PROVE  UNCHANGED Promise(op)!vars
BY DEF Promise!vars

LEMMA StatusFacts ==
    /\ \A op : state_[op] = "idle" => StatusOf(op) = "idle"
    /\ \A op : state_[op] = "started" => StatusOf(op) = "pending"
    /\ \A op : state_[op] = "completed" => StatusOf(op) = "answered"
    /\ \A op : state_[op] \in {"cancelling", "cancelled"} => StatusOf(op) = "withdrawn"
BY DEF StatusOf

\* A step that moves one operation to another state.
LEMMA StateStepKeepsPromise ==
    ASSUME SfInv, NEW op \in Op, NEW o \in Op, NEW to \in States,
           state_' = [state_ EXCEPT ![o] = to], UNCHANGED <<ec_, callbacks, results>>,
           \/ state_[o] = "idle" /\ to = "started"
           \/ state_[o] = "started" /\ to \in {"completed", "cancelling"}
           \/ state_[o] = "cancelling" /\ to = "cancelled"
    PROVE  [Promise(op)!Next]_(Promise(op)!vars)
<1>1. state_'[op] = IF op = o THEN to ELSE state_[op]
  BY DEF SfInv, TypeInv
<1>2. CASE op # o
  <2>1. state_'[op] = state_[op]
    BY <1>1, <1>2
  <2>2. StatusOf(op)' = StatusOf(op)
    BY <2>1 DEF StatusOf
  <2> QED
    BY <2>1, <2>2, SamePromise
<1>3. CASE op = o
  <2>1. state_'[op] = to /\ state_[op] # "completed" /\ callbacks[op] # 1
    BY <1>1, <1>3 DEF SfInv, TokenInv
  <2>2. \A x : (state_'[op] = x) => (state_[op] = x \/ to = x)
    BY <2>1
  <2>3. CASE state_[op] = "idle" /\ to = "started"
    <3>1. StatusOf(op) = "idle" /\ StatusOf(op)' = "pending"
      BY <2>1, <2>3, StatusFacts DEF StatusOf
    <3> QED
      BY <2>1, <2>3, <3>1 DEF Promise!Next, Promise!Begin
  <2>4. CASE state_[op] = "started" /\ to = "completed"
    <3>1. StatusOf(op) = "pending" /\ StatusOf(op)' = "answered"
      BY <2>1, <2>4 DEF StatusOf
    <3>2. ec_[op] \in Errors
      BY DEF SfInv, TypeInv
    <3> QED
      BY <2>1, <2>4, <3>1, <3>2 DEF Promise!Next, Promise!Answer
  <2>5. CASE state_[op] = "started" /\ to = "cancelling"
    <3>1. StatusOf(op) = "pending" /\ StatusOf(op)' = "withdrawn"
      BY <2>1, <2>5 DEF StatusOf
    <3> QED
      BY <2>1, <2>5, <3>1 DEF Promise!Next, Promise!Withdraw
  <2>6. CASE state_[op] = "cancelling" /\ to = "cancelled"
    <3>1. StatusOf(op)' = StatusOf(op)
      BY <2>1, <2>6 DEF StatusOf
    <3> QED
      BY <2>1, <2>6, <3>1, SamePromise
  <2> QED
    BY <1>3, <2>3, <2>4, <2>5, <2>6
<1> QED
  BY <1>2, <1>3

LEMMA CallbackKeepsPromise ==
    ASSUME SfInv, EndInv, NEW op \in Op, NEW t \in Thread, Callback(t)
    PROVE  [Promise(op)!Next]_(Promise(op)!vars)
<1> DEFINE o == Top(t).op
<1>1. o \in Op /\ In(t, "Callback", o)
  BY TopFacts DEF Callback, SfInv
<1>2. state_[o] = "completed" /\ callbacks[o] = 0
  BY <1>1 DEF SfInv, TokenInv
<1>3. /\ callbacks' = [callbacks EXCEPT ![o] = @ + 1] /\ results' = [results EXCEPT ![o] = End(o)]
      /\ UNCHANGED <<state_, ec_>>
  BY DEF Callback, members
<1>4. End(o) = ec_[o]
  BY <1>2 DEF End
<1> HIDE DEF o
<1>5. StatusOf(op)' = StatusOf(op)
  BY <1>3 DEF StatusOf
<1>6. CASE op # o
  <2>1. callbacks'[op] = callbacks[op] /\ results'[op] = results[op]
    BY <1>3, <1>6 DEF SfInv, TypeInv, EndInv
  <2> QED
    BY <1>3, <1>5, <2>1, SamePromise
<1>7. CASE op = o
  <2>1. callbacks'[op] = 1 /\ results'[op] = ec_[op]
    BY <1>1, <1>2, <1>3, <1>4, <1>7 DEF SfInv, TypeInv, EndInv
  <2>2. StatusOf(op) = "answered"
    BY <1>2, <1>7, StatusFacts
  <2> QED
    BY <1>2, <1>3, <1>5, <1>7, <2>1, <2>2 DEF Promise!Next, Promise!CallBack, Promise!Tell
<1> QED
  BY <1>6, <1>7

\* A result that comes too late changes ec_ of an operation that was cancelled.
LEMMA CompleteKeepsPromise ==
    ASSUME SfInv, NEW op \in Op, NEW t \in Thread, Complete(t)
    PROVE  [Promise(op)!Next]_(Promise(op)!vars)
<1>1. Top(t).op \in Op
  BY TopFacts DEF Complete, SfInv
<1>2. /\ UNCHANGED <<state_, callbacks, results>>
      /\ ec_'[op] = ec_[op] \/ (op = Top(t).op /\ state_[op] # "completed")
  BY <1>1 DEF Complete, SfInv, TypeInv
<1>3. StatusOf(op)' = StatusOf(op)
  BY <1>2 DEF StatusOf
<1> QED
  BY <1>2, <1>3, SamePromise

LEMMA PromiseIsKept ==
    ASSUME SfInv, EndInv, NEW op \in Op, [Next]_vars
    PROVE  [Promise(op)!Next]_(Promise(op)!vars)
<1>1. ASSUME UNCHANGED <<state_, ec_, callbacks, results>>
      PROVE  [Promise(op)!Next]_(Promise(op)!vars)
  <2>1. StatusOf(op)' = StatusOf(op)
    BY <1>1 DEF StatusOf
  <2> QED
    BY <1>1, <2>1, SamePromise
<1>2. ASSUME NEW t \in Thread, Start(t)
      PROVE  [Promise(op)!Next]_(Promise(op)!vars)
  <2>1. Top(t).op \in Op /\ In(t, "Start", Top(t).op)
    BY <1>2, TopFacts DEF Start, SfInv
  <2>2. state_[Top(t).op] = "idle"
    BY <2>1 DEF SfInv, TokenInv
  <2> QED
    BY <1>2, <2>1, <2>2, StateStepKeepsPromise DEF Start, States
<1>3. ASSUME NEW t \in Thread, Completed(t) \/ CancelledChild(t)
      PROVE  [Promise(op)!Next]_(Promise(op)!vars)
  <2>1. PICK at \in Holders : At(t, at)
    BY <1>3 DEF Completed, CancelledChild, Holders
  <2>2. Top(t).op \in Op /\ Top(t).at = at /\ stack[t] # <<>> /\ Top(t) = stack[t][1]
    BY <2>1, TopFacts DEF SfInv
  <2>3. 1 \in DOMAIN stack[t] /\ Hold(t, 1, Top(t).op)
    BY <2>1, <2>2 DEF Hold, SfInv, TypeInv
  <2>4. state_[Top(t).op] = "started"
    BY <2>2, <2>3 DEF SfInv, HoldInv
  <2> QED
    BY <1>3, <2>2, <2>4, StateStepKeepsPromise DEF Completed, CancelledChild, States
<1>4. ASSUME NEW t \in Thread, Cancel(t) \/ Cancelling(t)
      PROVE  [Promise(op)!Next]_(Promise(op)!vars)
  <2>1. Top(t).op \in Op
    BY <1>4, TopFacts DEF Cancel, Cancelling, SfInv
  <2>2. UNCHANGED <<ec_, callbacks, results>>
    BY <1>4 DEF Cancel, Cancelling
  <2>3. CASE UNCHANGED state_
    BY <1>1, <2>2, <2>3
  <2>4. CASE state_[Top(t).op] = "started" /\ state_' = [state_ EXCEPT ![Top(t).op] = "cancelling"]
    BY <2>1, <2>2, <2>4, StateStepKeepsPromise DEF States
  <2>5. CASE state_[Top(t).op] = "cancelling" /\ state_' = [state_ EXCEPT ![Top(t).op] = "cancelled"]
    BY <2>1, <2>2, <2>5, StateStepKeepsPromise DEF States
  <2> QED
    BY <1>4, <2>3, <2>4, <2>5 DEF Cancel, Cancelling
<1>5. ASSUME NEW t \in Thread,
             \/ OnStart(t) \/ StartReturns(t) \/ OnCancel(t) \/ CancelDetach(t) \/ WorkDone(t) \/ CallCancel(t)
      PROVE  UNCHANGED <<state_, ec_, callbacks, results>>
  BY <1>5 DEF OnStart, StartReturns, OnCancel, CancelDetach, WorkDone, CallCancel, members
<1>6. ASSUME UserBegins \/ UNCHANGED vars
      PROVE  UNCHANGED <<state_, ec_, callbacks, results>>
  BY <1>6 DEF UserBegins, vars, members
<1> QED
  BY <1>1, <1>2, <1>3, <1>4, <1>5, <1>6, CallbackKeepsPromise, CompleteKeepsPromise DEF Next, Proceed

(***************************************************************************)
(* Each operation of fabric_ext2 keeps the promise of an asynchronous      *)
(* operation, in any tree and with any number of cancellers: it is         *)
(* answered once, the callback is called once and End tells it the answer, *)
(* which never changes; a cancelled one is never answered.                 *)
(***************************************************************************)
THEOREM OperationsKeepPromise == ASSUME NEW op \in Op PROVE Spec => Promise(op)!Spec
<1>1. Init => Promise(op)!Init
  BY DEF Init, Promise!Init, StatusOf
<1>2. SfInv /\ EndInv /\ [Next]_vars => [Promise(op)!Next]_(Promise(op)!vars)
  BY PromiseIsKept
<1>3. Spec => [](SfInv /\ EndInv)
  BY SfChildInvariant, PTL DEF SfChildInv
<1> QED
  BY <1>1, <1>2, <1>3, PTL DEF Spec, Promise!Spec
=============================================================================
