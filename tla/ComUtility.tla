------------------------------ MODULE ComUtility ------------------------------
(***************************************************************************)
(* Common::ComUtility: what happens when a function of the public API      *)
(* returns, and the check of the COM apartment.  Both need functions of    *)
(* ole32.dll, whose addresses all threads look up, without a lock, in      *)
(* three static variables.                                                 *)
(***************************************************************************)
EXTENDS ErrorCode

CONSTANTS
    Thread,
    Main,       \* the thread of the objects of ErrorCode
    Together,   \* sets of threads that run in the same execution
    Sta         \* threads in an apartment that is not multi-threaded

ASSUME ThreadAssumption ==
    Main \in Thread /\ Together \subseteq SUBSET Thread /\ Sta \subseteq Thread

VARIABLES
    running,    \* the threads of this execution
    available,  \* what can be looked up in this process
    pointers,   \* the static variables that are not NULL
    at,         \* where each thread is
    caller,     \* which function called Initialize
    hr,         \* what each thread is about to return, or has returned
    errorInfo   \* threads with an IErrorInfo, which the CLR sets

utility == <<running, available, pointers, at, caller, hr, errorInfo>>
comUtilityVars == <<errorVars, utility>>

\* The module handle and the addresses, each with what Initialize gets after it.
After == [ole32Module |-> "coGetApartmentTypeFPtr",
          coGetApartmentTypeFPtr |-> "setErrorInfoFPtr",
          setErrorInfoFPtr |-> "call"]
Names == DOMAIN After

\* Which of the addresses the caller of Initialize uses.
Used(t) == IF caller[t] = "CheckMTA" THEN "coGetApartmentTypeFPtr" ELSE "setErrorInfoFPtr"

UtilityInit ==
    /\ ErrorInit
    /\ running \in Together
    /\ available \in { Names, Names \ {"setErrorInfoFPtr"}, {} }
    /\ pointers = {}
    /\ at = [t \in Thread |-> "inside"]
    /\ caller = [t \in Thread |-> "none"]
    /\ hr = [t \in Thread |-> Success]
    /\ errorInfo = {}

Goto(t, where) == at' = [at EXCEPT ![t] = where]
-----------------------------------------------------------------------------
\* A slip: error info is cleared when the call succeeds.
MutantOnPublicApiReturn(t, code) ==
    /\ at[t] = "inside"
    /\ hr' = [hr EXCEPT ![t] = code]
    /\ Goto(t, IF SUCCEEDED(code) THEN "ole32Module" ELSE "returned")
    /\ caller' = [caller EXCEPT ![t] = "ClearErrorInfo"]
    /\ UNCHANGED <<running, available, pointers, errorInfo>>

\* A failure first clears the error info of the thread.
OnPublicApiReturn(t, code) ==
    /\ at[t] = "inside"
    /\ hr' = [hr EXCEPT ![t] = code]
    /\ Goto(t, IF SUCCEEDED(code) THEN "returned" ELSE "ole32Module")
    /\ caller' = [caller EXCEPT ![t] = "ClearErrorInfo"]
    /\ UNCHANGED <<running, available, pointers, errorInfo>>

ReturnHResult(t) ==
    /\ t # Main
    /\ \E code \in HResults : OnPublicApiReturn(t, code)
    /\ UNCHANGED errorVars

\* With an ErrorCode.  The objects of the function that returns are destroyed.
ReturnError(o) ==
    /\ OnPublicApiReturn(Main, ToHResult(error[o].value_))
    /\ error' = [e \in Object |-> NewError(Success, "")]
    /\ told' = [e \in Object |-> Told(Success, "")]

CheckMTA(t) ==
    /\ at[t] = "inside"
    /\ caller' = [caller EXCEPT ![t] = "CheckMTA"]
    /\ Goto(t, "ole32Module")
    /\ UNCHANGED <<errorVars, running, available, pointers, hr, errorInfo>>

\* One of the three lookups.  Two threads that both find NULL write the same.
Initialize(t) ==
    /\ at[t] \in Names
    /\ IF at[t] \in pointers \cup available
       THEN pointers' = pointers \cup {at[t]} /\ Goto(t, After[at[t]])
       ELSE UNCHANGED pointers /\ Goto(t, "returned")
    /\ UNCHANGED <<errorVars, running, available, caller, hr, errorInfo>>

\* The call through the pointer: SetErrorInfo, or CoGetApartmentType, which fails
\* in a thread that COM does not know.
UsePointer(t) ==
    /\ at[t] = "call"
    /\ Goto(t, "returned")
    /\ IF caller[t] = "ClearErrorInfo"
       THEN errorInfo' = errorInfo \ {t} /\ UNCHANGED hr
       ELSE /\ hr' = [hr EXCEPT ![t] = IF t \in Sta THEN InvalidState ELSE Success]
            /\ UNCHANGED errorInfo
    /\ UNCHANGED <<errorVars, running, available, pointers, caller>>

\* The next call comes in, or the CLR propagates an exception in this one.
NextCall(t) ==
    /\ at[t] = "returned"
    /\ Goto(t, "inside")
    /\ hr' = [hr EXCEPT ![t] = Success]
    /\ caller' = [caller EXCEPT ![t] = "none"]
    /\ UNCHANGED <<errorVars, running, available, pointers, errorInfo>>

SetErrorInfo(t) ==
    /\ at[t] = "inside"
    /\ errorInfo' = errorInfo \cup {t}
    /\ UNCHANGED <<errorVars, running, available, pointers, at, caller, hr>>

UseErrors ==
    /\ at[Main] = "inside"
    /\ ObjectStep
    /\ UNCHANGED utility

UtilityNext ==
    \/ Main \in running /\ (UseErrors \/ \E o \in Object : ReturnError(o))
    \/ \E t \in running :
          \/ ReturnHResult(t) \/ CheckMTA(t) \/ Initialize(t) \/ UsePointer(t)
          \/ NextCall(t) \/ SetErrorInfo(t)

UtilitySpec == UtilityInit /\ [][UtilityNext]_comUtilityVars
-----------------------------------------------------------------------------
(***************************************************************************)
(* "We clear error info whenever we return a failure": where SetErrorInfo  *)
(* can be had, no failure is returned with the error info of an earlier    *)
(* exception, and no thread calls a function whose address it has not got, *)
(* whichever thread looks it up first.                                     *)
(***************************************************************************)
CleanReturn ==
    \A t \in Thread :
        /\ at[t] = "call" => Used(t) \in pointers
        /\ at[t] = "returned" /\ ~SUCCEEDED(hr[t]) /\ caller[t] = "ClearErrorInfo"
           /\ available = Names => t \notin errorInfo
=============================================================================
