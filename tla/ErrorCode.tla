------------------------------ MODULE ErrorCode ------------------------------
(***************************************************************************)
(* Common::ErrorCode: a value, a text, and the two flags that let an       *)
(* assertion notice that an error is assigned over before anybody read it; *)
(* and the conversions between its values and HRESULT, Win32 and NTSTATUS  *)
(* codes.                                                                  *)
(*                                                                         *)
(* Codes are the 32-bit integers of the code.  messageTid_ is always 0 in  *)
(* this code, where the calls that would set it are commented out, and so  *)
(* is the text of the thread that FromHResult might capture.               *)
(***************************************************************************)
EXTENDS Integers

CONSTANTS
    Object,             \* the variables of type ErrorCode of a thread
    Values,             \* enumerators that are given explicitly
    HResults, Win32Errors, NtStatuses,  \* codes that come from elsewhere
    Texts,              \* messages, and "" for none
    EnumCodes,          \* the enumerators of FABRIC_ERROR_CODE in FabricTypes.h
    \* some of them
    FABRIC_E_SERVICE_TYPE_ALREADY_REGISTERED, FABRIC_E_SERVICE_TYPE_NOT_REGISTERED,
    FABRIC_E_INVALID_OPERATION

VARIABLES
    error,          \* each object: its members
    told            \* the code and text that the caller last gave each object

errorVars == <<error, told>>
-----------------------------------------------------------------------------
\* The macros of winerror.h.
SUCCEEDED(hr) == hr >= 0
HRESULT_FROM_WIN32(x) == IF x <= 0 THEN x ELSE (x % 65536) - 2147024896

FACILITY_NT_BIT == 268435456
HasNtBit(code) == (code \div FACILITY_NT_BIT) % 2 = 1
HRESULT_FROM_NT(x) == IF HasNtBit(x) THEN x ELSE x + FACILITY_NT_BIT

\* The HRESULTs that Service Fabric reserves.
FABRIC_E_FIRST_RESERVED_HRESULT == -2147017796
FABRIC_E_LAST_RESERVED_HRESULT  == -2147017397

\* Enumerators that are HRESULTs of COM.
Success          == 0
OperationCanceled == -2147467260
ComCodes == {Success, OperationCanceled, -2147024809, -2147024891, -2147467261,
             -2147467259, -2147024882, -2147467263}

\* The internal codes are the last ones of the reserved range.
INTERNAL_ERROR_CODE_COUNT == 188
FIRST_INTERNAL_ERROR_CODE_MINUS_ONE ==
    FABRIC_E_LAST_RESERVED_HRESULT - INTERNAL_ERROR_CODE_COUNT

\* The public part of the range, in which not every code is an enumerator; and the
\* internal ones, one after the other.
FabricCodes == FABRIC_E_FIRST_RESERVED_HRESULT .. FIRST_INTERNAL_ERROR_CODE_MINUS_ONE
InternalCodes == { FIRST_INTERNAL_ERROR_CODE_MINUS_ONE + i : i \in 1..188 }
HostingServiceTypeAlreadyRegisteredToSameRuntime == FIRST_INTERNAL_ERROR_CODE_MINUS_ONE + 162
HostingServiceTypeNotOwned == FIRST_INTERNAL_ERROR_CODE_MINUS_ONE + 163

HostingServiceTypeAlreadyRegistered == FABRIC_E_SERVICE_TYPE_ALREADY_REGISTERED
HostingServiceTypeNotRegistered == FABRIC_E_SERVICE_TYPE_NOT_REGISTERED
InvalidState == FABRIC_E_INVALID_OPERATION

ASSUME CodesAssumption ==
    /\ {HostingServiceTypeAlreadyRegistered, HostingServiceTypeNotRegistered, InvalidState}
          \subseteq EnumCodes
    /\ EnumCodes \subseteq FabricCodes
    /\ HostingServiceTypeAlreadyRegistered # HostingServiceTypeNotRegistered
    /\ Values \subseteq ComCodes \cup EnumCodes \cup InternalCodes
    /\ HResults \subseteq Int /\ Win32Errors \subseteq Int /\ NtStatuses \subseteq Int
-----------------------------------------------------------------------------
\* What FromHResult makes of a code.
FromHResult(hr) == IF SUCCEEDED(hr) THEN Success ELSE hr
FromWin32Error(x) == FromHResult(HRESULT_FROM_WIN32(x))
FromNtStatus(x) == FromHResult(HRESULT_FROM_NT(x))

\* A slip: the first case of the switch runs into the second.
MutantToHResult(value) ==
    IF value \in {HostingServiceTypeAlreadyRegisteredToSameRuntime, HostingServiceTypeNotOwned}
    THEN HostingServiceTypeNotRegistered ELSE value

ToHResult(value) ==
    CASE value = HostingServiceTypeAlreadyRegisteredToSameRuntime ->
            HostingServiceTypeAlreadyRegistered
      [] value = HostingServiceTypeNotOwned -> HostingServiceTypeNotRegistered
      [] OTHER -> value

ToNTStatus(value) ==
    IF HasNtBit(ToHResult(value)) THEN ToHResult(value) - FACILITY_NT_BIT ELSE ToHResult(value)

\* Where get_fabric_error_str of fabric_error takes the text of a code from.
get_fabric_error_str(hr) ==
    CASE hr < FABRIC_E_FIRST_RESERVED_HRESULT \/ hr > FABRIC_E_LAST_RESERVED_HRESULT -> "_com_error"
      [] hr \in EnumCodes -> "magic_enum"
      [] OTHER -> "enum not found"
-----------------------------------------------------------------------------
\* A constructor.
NewError(value, text) ==
    [value_ |-> value, message_ |-> text, read_ |-> FALSE, enableOverwriteCheck_ |-> FALSE]

Told(code, text) == [code |-> code, text |-> text]

ErrorInit ==
    /\ error = [o \in Object |-> NewError(Success, "")]
    /\ told = [o \in Object |-> Told(Success, "")]

\* A new object takes the place of o, made from a code and a text.
Construct(o, value, code, text) ==
    /\ error' = [error EXCEPT ![o] = NewError(value, text)]
    /\ told' = [told EXCEPT ![o] = Told(code, text)]

ConstructFromValue(o) ==
    \E v \in Values, text \in Texts : Construct(o, v, v, text)

ConstructFromHResult(o) ==
    \E hr \in HResults, text \in Texts : Construct(o, FromHResult(hr), hr, text)

ConstructFromWin32(o) ==
    \E x \in Win32Errors : Construct(o, FromWin32Error(x), HRESULT_FROM_WIN32(x), "")

ConstructFromNtStatus(o) ==
    \E x \in NtStatuses : Construct(o, FromNtStatus(x), HRESULT_FROM_NT(x), "")

\* An object whose value was read, and whose text was moved out.
Read(e) == [e EXCEPT !.read_ = TRUE]
MovedOut(e) == [Read(e) EXCEPT !.message_ = ""]

CopyConstruct(o, other) ==
    /\ error' = [error EXCEPT ![o] = NewError(error[other].value_, error[other].message_),
                              ![other] = Read(@)]
    /\ told' = [told EXCEPT ![o] = told[other]]

MoveConstruct(o, other) ==
    /\ error' = [error EXCEPT ![o] = NewError(error[other].value_, error[other].message_),
                              ![other] = MovedOut(@)]
    /\ told' = [told EXCEPT ![o] = told[other]]
-----------------------------------------------------------------------------
\* The assertion of TryAssignFrom: an error must not be overwritten by Success, or
\* assigned over before it was read.  The program stops there.
Forbidden(o, value, allowOverwrite) ==
    IF allowOverwrite THEN error[o].value_ # Success /\ value = Success
                      ELSE error[o].enableOverwriteCheck_ /\ ~error[o].read_

\* A slip: the text is not assigned with the value.
MutantAssign(o, other, allowOverwrite, moved) ==
    /\ o # other
    /\ error' = [error EXCEPT ![o] = [@ EXCEPT !.value_ = error[other].value_],
                              ![other] = Read(@)]
    /\ told' = [told EXCEPT ![o] = told[other]]

\* Assignment and Overwrite, from an object or from one whose text is moved out.
\* TryAssignFrom does nothing when an object is assigned to itself.
Assign(o, other, allowOverwrite, moved) ==
    /\ o # other
    /\ ~Forbidden(o, error[other].value_, allowOverwrite)
    /\ error' = [error EXCEPT
                     ![o] = [error[other] EXCEPT !.read_ = FALSE, !.enableOverwriteCheck_ = TRUE],
                     ![other] = IF moved THEN MovedOut(@) ELSE Read(@)]
    /\ told' = [told EXCEPT ![o] = told[other]]

\* Reset assigns the value, leaves the text as it is, and asks for no check.
Reset(o) ==
    \E v \in Values :
        /\ ~Forbidden(o, v, FALSE)
        /\ error' = [error EXCEPT ![o] = NewError(v, error[o].message_)]
        /\ told' = [told EXCEPT ![o].code = v]

\* IsSuccess, IsError and the others look at the value.
ReadValue(o) == error' = [error EXCEPT ![o] = Read(@)] /\ UNCHANGED told

\* left = FirstError(left, right), which copies one of the two and reads both.
FirstError(left, right) ==
    LET first == IF error[left].value_ # Success THEN left ELSE right IN
    /\ left # right
    /\ error' = [error EXCEPT ![left] = [error[first] EXCEPT !.read_ = FALSE,
                                                          !.enableOverwriteCheck_ = TRUE],
                              ![right] = Read(@)]
    /\ told' = [told EXCEPT ![left] = told[first]]
-----------------------------------------------------------------------------
ObjectStep ==
    \E o \in Object :
        \/ ConstructFromValue(o) \/ ConstructFromHResult(o)
        \/ ConstructFromWin32(o) \/ ConstructFromNtStatus(o)
        \/ Reset(o) \/ ReadValue(o)
        \/ \E other \in Object \ {o} :
              \/ CopyConstruct(o, other) \/ MoveConstruct(o, other) \/ FirstError(o, other)
              \/ \E allowOverwrite, moved \in BOOLEAN : Assign(o, other, allowOverwrite, moved)
-----------------------------------------------------------------------------
\* The HRESULT and the NTSTATUS that a caller gets for a code it was given.
KeepsFailure(code, value) ==
    /\ SUCCEEDED(code) <=> SUCCEEDED(ToHResult(value))
    /\ ~SUCCEEDED(code) /\ code \notin InternalCodes =>
          /\ ToHResult(value) = code
          /\ HasNtBit(code) => HRESULT_FROM_NT(ToNTStatus(value)) = code
          /\ code \in EnumCodes <=> get_fabric_error_str(ToHResult(value)) = "magic_enum"

(***************************************************************************)
(* However an error is copied, moved, assigned and accumulated, a failure  *)
(* leaves the library as the failure that came in, and a success as a      *)
(* success.  An internal code that has a public counterpart leaves as that *)
(* one, which the public code itself leaves as too, but two internal codes *)
(* never become the same one on the way.  The text of an error is that     *)
(* which came with it, or it was moved away: no error shows the text of    *)
(* another one.  After Reset, which leaves the text as it is, this says    *)
(* only that it is the text of the error that was reset.                   *)
(***************************************************************************)
FailureSurvives ==
    \A o \in Object :
        /\ KeepsFailure(told[o].code, error[o].value_)
        /\ error[o].message_ \in {told[o].text, ""}
        /\ \A e \in Object : ToHResult(error[o].value_) = ToHResult(error[e].value_)
              /\ told[o].code \in InternalCodes /\ told[e].code \in InternalCodes
              => told[o].code = told[e].code
=============================================================================
