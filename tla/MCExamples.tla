------------------------------ MODULE MCExamples ------------------------------
(* One program in each behaviour: one of the examples, or the threads that   *)
(* share a component root.  These run in the process of wait_main that could *)
(* not make its client: then nothing of the examples takes a step any more.  *)
EXTENDS Examples, ReferenceTracker

Rooted == program = "wait" /\ report[1] = "exit"

AllInit == ExamplesInit /\ Init

AllNext ==
    \/ ExamplesNext /\ UNCHANGED vars
    \/ Rooted /\ Next /\ UNCHANGED exampleVars

AllSpec ==
    /\ AllInit /\ [][AllNext]_<<exampleVars, vars>>
    /\ ExamplesFairness /\ \A t \in Thread : WF_vars(Proceed(t))
=============================================================================
