-------------------------------- MODULE EchoApp --------------------------------
(***************************************************************************)
(* The echo service: an instance opens a TCP server whose io_context two   *)
(* threads run, and stops and joins them when it is closed.  The runtime   *)
(* makes instances through the factory, opens and closes them, or aborts   *)
(* them, and releases them.  Open and close complete in the constructor of *)
(* async_context: the runtime is called back before Begin has returned.    *)
(***************************************************************************)
EXTENDS ServiceHost

CONSTANT Instance

Worker == {"first", "second"}

VARIABLES
    life,       \* of an instance, as the runtime sees it
    step,       \* where BeginOpen or BeginClose is
    listening,  \* instances with a server_
    ioStopped,  \* instances with a stopped io_context_
    worker,     \* server_threads_
    told,       \* instances whose address the runtime has
    aborted,    \* instances that were aborted
    session     \* the connection of a peer, as its pending handler

echo == <<life, step, listening, ioStopped, worker, told, aborted, session>>

EchoInit ==
    /\ life = [i \in Instance |-> "none"]
    /\ step = [i \in Instance |-> "none"]
    /\ listening = {} /\ ioStopped = {} /\ told = {} /\ aborted = {}
    /\ worker = [i \in Instance |-> [n \in Worker |-> "none"]]
    /\ session = [i \in Instance |-> "none"]

Steps(i, where) == step' = [step EXCEPT ![i] = where]
Lives(i, phase) == life' = [life EXCEPT ![i] = phase]

CreateInstance(i) ==
    /\ program = "echo" /\ Serving /\ life[i] = "none"
    /\ Lives(i, "created")
    /\ UNCHANGED <<host, step, listening, ioStopped, worker, told, aborted, session>>
-----------------------------------------------------------------------------
(***************************************************************************)
(* BeginOpen and EndOpen.                                                  *)
(***************************************************************************)

\* The constructor of the server throws if the port cannot be bound, and the
\* exception leaves a COM method.
BeginOpen(i) ==
    /\ Serving /\ life[i] = "created"
    /\ Lives(i, "opening")
    /\ \/ listening' = listening \cup {i} /\ Steps(i, "first") /\ UNCHANGED host
       \/ host' = "undefined" /\ UNCHANGED <<listening, step>>
    /\ UNCHANGED <<ioStopped, worker, told, aborted, session>>

StartThread(i) ==
    /\ Serving /\ life[i] = "opening" /\ step[i] \in Worker
    /\ worker' = [worker EXCEPT ![i][step[i]] = "run"]
    /\ Steps(i, IF step[i] = "second" THEN "context" ELSE "second")
    /\ UNCHANGED <<host, life, listening, ioStopped, told, aborted, session>>

\* async_context::async_context calls Invoke; *context is set after that.
MakeContext(i) ==
    /\ Serving /\ step[i] = "context"
    /\ Steps(i, "invoked")
    /\ UNCHANGED <<host, life, listening, ioStopped, worker, told, aborted, session>>

ContextReturned(i) ==
    /\ Serving /\ step[i] = "invoked"
    /\ Steps(i, "returned")
    /\ UNCHANGED <<host, life, listening, ioStopped, worker, told, aborted, session>>

\* The runtime may call End in Invoke, or when Begin has returned.
EndOpen(i) ==
    /\ Serving /\ life[i] = "opening" /\ step[i] \in {"invoked", "returned"}
    /\ Lives(i, "open")
    /\ told' = told \cup {i}
    /\ UNCHANGED <<host, step, listening, ioStopped, worker, aborted, session>>
-----------------------------------------------------------------------------
(***************************************************************************)
(* The threads of the server, and a peer.                                  *)
(***************************************************************************)

\* The socket has something for a handler: a connection, data, room, or an error.
PeerActs(i) ==
    /\ Serving /\ i \in listening
    /\ \/ session[i] = "none" /\ session' = [session EXCEPT ![i] = "connected"]
       \/ session[i] = "reading" /\ session' \in { [session EXCEPT ![i] = s] : s \in {"readable", "failed"} }
       \/ session[i] = "writing" /\ session' \in { [session EXCEPT ![i] = s] : s \in {"written", "failed"} }
    /\ UNCHANGED <<host, life, step, listening, ioStopped, worker, told, aborted>>

HandlerStarts(i, n) ==
    /\ Serving /\ worker[i][n] = "run" /\ i \notin ioStopped
    /\ session[i] \in {"connected", "readable", "written", "failed"}
    /\ worker' = [worker EXCEPT ![i][n] = session[i]]
    /\ session' = [session EXCEPT ![i] = "handled"]
    /\ UNCHANGED <<host, life, step, listening, ioStopped, told, aborted>>

\* What the handlers start: an accepted or echoing session reads and writes in turn;
\* one that failed is destroyed with its last handler.
HandlerReturns(i, n) ==
    /\ Serving /\ worker[i][n] \in {"connected", "readable", "written", "failed"}
    /\ worker' = [worker EXCEPT ![i][n] = "run"]
    /\ session' = [session EXCEPT ![i] =
                     CASE worker[i][n] = "readable" -> "writing" [] worker[i][n] = "failed" -> "none"
                       [] OTHER -> "reading"]
    /\ UNCHANGED <<host, life, step, listening, ioStopped, told, aborted>>

\* io_context_.run() returns when the context is stopped.
RunEnds(i, n) ==
    /\ Serving /\ worker[i][n] = "run" /\ i \in ioStopped
    /\ worker' = [worker EXCEPT ![i][n] = "finished"]
    /\ UNCHANGED <<host, life, step, listening, ioStopped, told, aborted, session>>
-----------------------------------------------------------------------------
(***************************************************************************)
(* BeginClose, EndClose, Abort and the destructor.                         *)
(***************************************************************************)

\* A slip: the io_context is not stopped.
MutantBeginClose(i) ==
    /\ Serving /\ life[i] = "open" /\ step[i] = "returned"
    /\ Lives(i, "closing") /\ Steps(i, "first")
    /\ UNCHANGED <<host, listening, ioStopped, worker, told, aborted, session>>

BeginClose(i) ==
    /\ Serving /\ life[i] = "open" /\ step[i] = "returned"
    /\ Lives(i, "closing") /\ Steps(i, "first")
    /\ ioStopped' = ioStopped \cup {i}
    /\ UNCHANGED <<host, listening, worker, told, aborted, session>>

\* A slip: one thread is joined.
MutantJoin(i) ==
    /\ Serving /\ life[i] = "closing" /\ step[i] \in Worker
    /\ worker[i][step[i]] = "finished"
    /\ worker' = [worker EXCEPT ![i][step[i]] = "joined"]
    /\ Steps(i, "context")
    /\ UNCHANGED <<host, life, listening, ioStopped, told, aborted, session>>

Join(i) ==
    /\ Serving /\ life[i] = "closing" /\ step[i] \in Worker
    /\ worker[i][step[i]] = "finished"
    /\ worker' = [worker EXCEPT ![i][step[i]] = "joined"]
    /\ Steps(i, IF step[i] = "second" THEN "context" ELSE "second")
    /\ UNCHANGED <<host, life, listening, ioStopped, told, aborted, session>>

EndClose(i) ==
    /\ Serving /\ life[i] = "closing" /\ step[i] \in {"invoked", "returned"}
    /\ Lives(i, "closed")
    /\ UNCHANGED <<host, step, listening, ioStopped, worker, told, aborted, session>>

\* Abort does nothing.
Abort(i) ==
    /\ Serving /\ life[i] \in {"created", "open"} /\ step[i] \in {"none", "returned"}
    /\ Lives(i, "closed")
    /\ aborted' = aborted \cup {i}
    /\ UNCHANGED <<host, step, listening, ioStopped, worker, told, session>>

Joinable(i) == \E n \in Worker : worker[i][n] \notin {"none", "joined"}

\* Members are destroyed in reverse: threads that can be joined end the process; the
\* io_context_ goes before the acceptor in server_ that belongs to it.
Release(i) ==
    /\ Serving /\ life[i] = "closed" /\ step[i] \in {"none", "returned"}
    /\ Lives(i, "released")
    /\ host' \in IF Joinable(i) THEN {"terminated"}
                 ELSE IF i \in listening THEN {"serving", "undefined"} ELSE {"serving"}
    /\ listening' = listening \ {i}
    /\ UNCHANGED <<step, ioStopped, worker, told, aborted, session>>
-----------------------------------------------------------------------------
InstanceStep(i) == StartThread(i) \/ MakeContext(i) \/ ContextReturned(i) \/ Join(i)
WorkerStep(i, n) == HandlerStarts(i, n) \/ HandlerReturns(i, n) \/ RunEnds(i, n)
RuntimeCalls(i) ==
    \/ CreateInstance(i) \/ BeginOpen(i) \/ EndOpen(i)
    \/ BeginClose(i) \/ EndClose(i) \/ Abort(i) \/ Release(i)

EchoNext ==
    /\ \E i \in Instance :
          \/ RuntimeCalls(i) \/ InstanceStep(i) \/ PeerActs(i)
          \/ \E n \in Worker : WorkerStep(i, n)
    /\ UNCHANGED extVars

\* Threads are scheduled, and handlers return.
EchoFairness ==
    \A i \in Instance :
        /\ WF_<<host, echo>>(InstanceStep(i))
        /\ \A n \in Worker : WF_<<host, echo>>(HandlerReturns(i, n)) /\ WF_<<host, echo>>(RunEnds(i, n))
-----------------------------------------------------------------------------
(***************************************************************************)
(* The address that EndOpen gives the runtime, which may ask for it inside *)
(* BeginOpen, is that of a server with its threads, and it names the node  *)
(* unless the runtime had no node context; and an instance that was closed *)
(* takes no thread into its destructor: only one that was aborted ends the *)
(* process, with all the other instances in it.                            *)
(***************************************************************************)
EchoServes ==
    /\ \A i \in told :
          life[i] \in {"opening", "open"} =>
             i \in listening /\ \A n \in Worker : worker[i][n] \notin {"none", "finished", "joined"}
    /\ told # {} /\ Hostname = "" => outcome[1] = "empty"
    /\ host = "terminated" => \E i \in aborted : Joinable(i)

(***************************************************************************)
(* BeginClose, which waits for the threads of the server, comes to an end  *)
(* whatever handlers they are in.                                          *)
(***************************************************************************)
EchoCloses == \A i \in Instance : life[i] = "closing" ~> step[i] = "returned" \/ ~Serving
=============================================================================
