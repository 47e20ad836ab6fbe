----------------------------- MODULE MCComObject -----------------------------
(* A COM object and its pointers, and what the functions of its interface do *)
(* before they return: two error codes of the thread m, and two other        *)
(* threads.  The two share no state, so a behaviour is one of the object, in *)
(* which no thread of ComUtility runs, or one of these threads.              *)
EXTENDS ComUnknownBase, ComUtility, TLC

CONSTANTS p1, p2, p3, e1, e2, m, t, u

\* Of the pointers only First is told apart, and the ones of event sources.
PointerSymmetry == Permutations({p2, p3}) \cup Permutations({e1, e2})

\* The header is not in the repository: any places in the public range will do,
\* and one that no enumerator has.
AlreadyRegistered == FABRIC_E_FIRST_RESERVED_HRESULT + 40
NotRegistered == FABRIC_E_FIRST_RESERVED_HRESULT + 41
InvalidOperation == FABRIC_E_FIRST_RESERVED_HRESULT + 1
SomeEnumCodes == {AlreadyRegistered, NotRegistered, InvalidOperation}
Unassigned == FABRIC_E_FIRST_RESERVED_HRESULT + 200

\* S_FALSE, the unassigned code, the two internal codes that have a public
\* counterpart, a Win32 code that is a code of Service Fabric, and
\* STATUS_ACCESS_DENIED.
SomeValues == {Success, HostingServiceTypeAlreadyRegisteredToSameRuntime}
SomeHResults == {1, Unassigned, HostingServiceTypeNotOwned}
SomeWin32 == {0, 7101}
SomeNt == {-1073741790}

ObjectInit == Init /\ UtilityInit /\ (running = {} => available = Names)

ObjectNext ==
    \/ running = {} /\ Next /\ UNCHANGED comUtilityVars
    \/ UtilityNext /\ UNCHANGED vars

ObjectSpec == ObjectInit /\ [][ObjectNext]_<<vars, comUtilityVars>>
=============================================================================
