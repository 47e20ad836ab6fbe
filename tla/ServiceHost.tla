------------------------------ MODULE ServiceHost ------------------------------
(***************************************************************************)
(* The main functions of the two services.  Each asks the runtime for the  *)
(* name of its node, as FabricExt models it, and registers a factory with  *)
(* it; from then on the runtime calls into the process, whose main thread  *)
(* waits for a signal.                                                     *)
(***************************************************************************)
EXTENDS FabricExt

VARIABLE host   \* starting, serving, exited, terminated, asserted, or undefined behaviour

hostVars == <<host>>

HostInit == host = IF program \in {"echo", "kvstore"} THEN "starting" ELSE "exited"

Serving == host = "serving"

\* What get_hostname has written, if anything.
Hostname == IF report[1] = "ok" /\ outcome[1] = "ok" THEN "node" ELSE ""

\* echo_main gives up without a hostname, kvstore_main logs that and goes on.
GoesOn ==
    \/ report[1] = "ok"
    \/ program = "kvstore" /\ report[1] = "failed"

\* Registration of the factory may fail too.
RegisterFactory ==
    /\ host = "starting" /\ at[1] = "gone"
    /\ host' \in IF GoesOn THEN {"serving", "exited"} ELSE {"exited"}
    /\ UNCHANGED extVars

\* A signal stops the io_context of the main thread, and main returns.
Signal ==
    /\ Serving
    /\ host' = "exited"
    /\ UNCHANGED extVars

HostNext == RegisterFactory \/ Signal
HostFairness == WF_<<extVars, hostVars>>(RegisterFactory)
=============================================================================
