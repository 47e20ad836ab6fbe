--------------------------- MODULE ComUtilityProofs ---------------------------
(***************************************************************************)
(* Proofs about ErrorCode and ComUtility, for any objects, threads, codes  *)
(* and texts: a failure keeps its code on every way through the library,   *)
(* and no failure is returned with the error info of another one.          *)
(***************************************************************************)
EXTENDS ComUtility, TLAPS

Errors == [value_ : Int, message_ : Texts \cup {""},
           read_ : BOOLEAN, enableOverwriteCheck_ : BOOLEAN]
Tellings == [code : Int, text : Texts \cup {""}]

\* What an error keeps of what it was told: its value is the code, as FromHResult
\* sees it, and its text is the one that was told, unless it was moved out.
Keeps(e, w) == e.value_ = FromHResult(w.code) /\ e.message_ \in {w.text, ""}

ErrorInv ==
    /\ error \in [Object -> Errors]
    /\ told \in [Object -> Tellings]
    /\ \A o \in Object : Keeps(error[o], told[o])

\* A thread is past a lookup only when the variable has been set, and the ones
\* before it too: the lookups come in one order, and nothing is ever reset.
LookupInv ==
    /\ running \subseteq Thread
    /\ at \in [Thread -> Names \cup {"inside", "call", "returned"}]
    /\ caller \in [Thread -> {"none", "CheckMTA", "ClearErrorInfo"}]
    /\ DOMAIN hr = Thread
    /\ \A t \in Thread :
        /\ at[t] = "setErrorInfoFPtr" => "coGetApartmentTypeFPtr" \in pointers
        /\ at[t] = "call" =>
              {"coGetApartmentTypeFPtr", "setErrorInfoFPtr"} \subseteq pointers

ClearedInv ==
    \A t \in Thread :
        at[t] = "returned" /\ ~SUCCEEDED(hr[t]) /\ caller[t] = "ClearErrorInfo"
        /\ available = Names => t \notin errorInfo
-----------------------------------------------------------------------------
(***************************************************************************)
(* Codes.                                                                  *)
(***************************************************************************)
USE DEF Success, FABRIC_E_FIRST_RESERVED_HRESULT, FABRIC_E_LAST_RESERVED_HRESULT,
        INTERNAL_ERROR_CODE_COUNT, FIRST_INTERNAL_ERROR_CODE_MINUS_ONE

\* The internal codes and the public ones do not overlap, and all are failures.
LEMMA CodeRanges ==
    /\ \A c \in InternalCodes : c \in Int /\ c > FIRST_INTERNAL_ERROR_CODE_MINUS_ONE /\ c < 0
    /\ \A c \in FabricCodes : c \in Int /\ c <= FIRST_INTERNAL_ERROR_CODE_MINUS_ONE
    /\ HostingServiceTypeAlreadyRegisteredToSameRuntime \in InternalCodes
    /\ HostingServiceTypeNotOwned \in InternalCodes
    /\ HostingServiceTypeAlreadyRegisteredToSameRuntime # HostingServiceTypeNotOwned
    /\ HostingServiceTypeAlreadyRegistered \in FabricCodes
    /\ HostingServiceTypeNotRegistered \in FabricCodes
    /\ HostingServiceTypeAlreadyRegistered # HostingServiceTypeNotRegistered
<1>1. \A c \in InternalCodes : c \in Int /\ c > FIRST_INTERNAL_ERROR_CODE_MINUS_ONE /\ c < 0
  BY DEF InternalCodes
<1>2. \A c \in FabricCodes : c \in Int /\ c <= FIRST_INTERNAL_ERROR_CODE_MINUS_ONE
  BY DEF FabricCodes
<1>3. /\ HostingServiceTypeAlreadyRegisteredToSameRuntime \in InternalCodes
      /\ HostingServiceTypeNotOwned \in InternalCodes
      /\ HostingServiceTypeAlreadyRegisteredToSameRuntime # HostingServiceTypeNotOwned
  BY 162 \in 1..188, 163 \in 1..188
     DEF InternalCodes, HostingServiceTypeAlreadyRegisteredToSameRuntime, HostingServiceTypeNotOwned
<1> QED
  BY <1>1, <1>2, <1>3, CodesAssumption

\* An enumerator is a code that FromHResult leaves as it is.
LEMMA EnumeratorsStay ==
    \A v \in Values : v \in Int /\ FromHResult(v) = v
<1> TAKE v \in Values
<1>1. v \in ComCodes \cup FabricCodes \cup InternalCodes
  BY CodesAssumption
<1>2. v \in Int /\ v <= 0
  BY <1>1, CodeRanges DEF ComCodes, OperationCanceled
<1> QED
  BY <1>2 DEF FromHResult, SUCCEEDED

LEMMA ConversionsAreInt ==
    ASSUME NEW x \in Int
    PROVE  FromHResult(x) \in Int /\ HRESULT_FROM_WIN32(x) \in Int /\ HRESULT_FROM_NT(x) \in Int
BY DEF FromHResult, HRESULT_FROM_WIN32, HRESULT_FROM_NT, FACILITY_NT_BIT

\* Taking the NT bit away and putting it back.
LEMMA NtBitRoundTrip ==
    ASSUME NEW x \in Int, HasNtBit(x)
    PROVE  HRESULT_FROM_NT(x - FACILITY_NT_BIT) = x
<1>1. (x - FACILITY_NT_BIT) \div FACILITY_NT_BIT = (x \div FACILITY_NT_BIT) - 1
  BY DEF FACILITY_NT_BIT
<1>2. ~HasNtBit(x - FACILITY_NT_BIT)
  BY <1>1 DEF HasNtBit, FACILITY_NT_BIT
<1> QED
  BY <1>2 DEF HRESULT_FROM_NT, FACILITY_NT_BIT

\* A code that comes in as told leaves as KeepsFailure says.
LEMMA ConversionsKeepFailure ==
    ASSUME NEW code \in Int
    PROVE  KeepsFailure(code, FromHResult(code))
<1>1. CASE code >= 0
  <2>1. FromHResult(code) = 0
    BY <1>1 DEF FromHResult, SUCCEEDED
  <2>2. ToHResult(0) = 0
    BY CodeRanges DEF ToHResult
  <2> QED
    BY <1>1, <2>1, <2>2 DEF KeepsFailure, SUCCEEDED
<1>2. CASE code < 0
  <2>1. FromHResult(code) = code
    BY <1>2 DEF FromHResult, SUCCEEDED
  <2>2. ToHResult(code) \in Int /\ ToHResult(code) < 0
    BY <1>2, CodeRanges DEF ToHResult, FabricCodes
  <2>3. ASSUME code \notin InternalCodes
        PROVE  /\ ToHResult(code) = code
               /\ HasNtBit(code) => HRESULT_FROM_NT(ToNTStatus(code)) = code
               /\ code \in EnumCodes <=> get_fabric_error_str(ToHResult(code)) = "magic_enum"
    <3>1. ToHResult(code) = code
      BY <2>3, CodeRanges DEF ToHResult
    <3>2. HasNtBit(code) => HRESULT_FROM_NT(ToNTStatus(code)) = code
      BY <3>1, NtBitRoundTrip DEF ToNTStatus
    <3>3. code \in EnumCodes <=> get_fabric_error_str(code) = "magic_enum"
      BY CodesAssumption DEF get_fabric_error_str, FabricCodes
    <3> QED
      BY <3>1, <3>2, <3>3
  <2> QED
    BY <1>2, <2>1, <2>2, <2>3 DEF KeepsFailure, SUCCEEDED
<1> QED
  BY <1>1, <1>2

\* Two internal codes never leave as the same one.
LEMMA InternalCodesStayApart ==
    ASSUME NEW c \in InternalCodes, NEW d \in InternalCodes,
           ToHResult(FromHResult(c)) = ToHResult(FromHResult(d))
    PROVE  c = d
<1>1. FromHResult(c) = c /\ FromHResult(d) = d
  BY CodeRanges DEF FromHResult, SUCCEEDED
<1>2. ToHResult(c) = ToHResult(d)
  BY <1>1
<1>3. c \notin FabricCodes /\ d \notin FabricCodes
  BY CodeRanges
<1> QED
  BY <1>2, <1>3, CodeRanges DEF ToHResult
-----------------------------------------------------------------------------
(***************************************************************************)
(* The lookups and the return.                                             *)
(***************************************************************************)
ReturnInv == LookupInv /\ ClearedInv

LEMMA ReturnInit == UtilityInit => ReturnInv
BY ThreadAssumption DEF UtilityInit, ReturnInv, LookupInv, ClearedInv, Names, After

\* A thread goes on to the next lookup, to the call, or gives up; it gives up only
\* where a function cannot be had.
LEMMA InitializeKeeps ==
    ASSUME ReturnInv, NEW t \in Thread, Initialize(t)
    PROVE  ReturnInv'
<1> USE DEF Names, After
<1>1. CASE at[t] \in pointers \cup available
  <2>1. /\ pointers' = pointers \cup {at[t]}
        /\ at' = [at EXCEPT ![t] = After[at[t]]]
        /\ at[t] \in Names
        /\ UNCHANGED <<running, available, caller, hr, errorInfo>>
    BY <1>1 DEF Initialize, Goto
  <2>2. LookupInv'
    BY <2>1 DEF ReturnInv, LookupInv
  <2>3. ClearedInv'
    BY <2>1 DEF ReturnInv, LookupInv, ClearedInv
  <2> QED
    BY <2>2, <2>3 DEF ReturnInv
<1>2. CASE at[t] \notin pointers \cup available
  <2>1. /\ at' = [at EXCEPT ![t] = "returned"]
        /\ at[t] \in Names
        /\ UNCHANGED <<running, available, pointers, caller, hr, errorInfo>>
    BY <1>2 DEF Initialize, Goto
  <2>2. LookupInv'
    BY <2>1 DEF ReturnInv, LookupInv
  <2>3. ClearedInv'
    BY <1>2, <2>1 DEF ReturnInv, LookupInv, ClearedInv
  <2> QED
    BY <2>2, <2>3 DEF ReturnInv
<1> QED
  BY <1>1, <1>2

LEMMA ReturnStep == ReturnInv /\ [UtilityNext]_comUtilityVars => ReturnInv'
<1> SUFFICES ASSUME ReturnInv, [UtilityNext]_comUtilityVars
             PROVE  ReturnInv'
  OBVIOUS
<1> USE DEF ReturnInv
<1>1. CASE UNCHANGED utility
  BY <1>1 DEF utility, LookupInv, ClearedInv
<1>2. ASSUME NEW t \in Thread, NEW code, OnPublicApiReturn(t, code)
      PROVE  ReturnInv'
  <2> USE <1>2 DEF OnPublicApiReturn, Goto, Names, After
  <2>1. LookupInv'
    BY DEF LookupInv
  <2>2. ClearedInv'
    BY DEF LookupInv, ClearedInv
  <2> QED
    BY <2>1, <2>2
<1>3. ASSUME NEW t \in Thread, CheckMTA(t)
      PROVE  ReturnInv'
  <2> USE <1>3 DEF CheckMTA, Goto, Names, After
  <2>1. LookupInv'
    BY DEF LookupInv
  <2>2. ClearedInv'
    BY DEF LookupInv, ClearedInv
  <2> QED
    BY <2>1, <2>2
<1>4. ASSUME NEW t \in Thread, UsePointer(t)
      PROVE  ReturnInv'
  <2> USE <1>4 DEF UsePointer, Goto, Names, After
  <2>1. LookupInv'
    BY DEF LookupInv
  <2>2. ClearedInv'
    BY DEF LookupInv, ClearedInv
  <2> QED
    BY <2>1, <2>2
<1>5. ASSUME NEW t \in Thread, NextCall(t) \/ SetErrorInfo(t)
      PROVE  ReturnInv'
  BY <1>5 DEF NextCall, SetErrorInfo, Goto, LookupInv, ClearedInv, Names, After
<1>6. CASE Main \in running /\ (UseErrors \/ \E o \in Object : ReturnError(o))
  BY <1>1, <1>2, <1>6, ThreadAssumption DEF UseErrors, ReturnError
<1>7. ASSUME NEW t \in running, ReturnHResult(t)
      PROVE  ReturnInv'
  BY <1>1, <1>2, <1>7 DEF ReturnHResult, LookupInv
<1>8. running \subseteq Thread
  BY DEF LookupInv
<1> QED
  BY <1>1, <1>3, <1>4, <1>5, <1>6, <1>7, <1>8, InitializeKeeps DEF UtilityNext, comUtilityVars

\* ComUtility::OnPublicApiReturn and the lookups of ComUtility.cpp: a failure goes to
\* the caller with the error info of this thread cleared, wherever SetErrorInfo can be
\* had, and no thread calls through a pointer that is still NULL, for any number of
\* threads that look the functions up at the same time.
THEOREM ReturnsAreClean == UtilitySpec => []CleanReturn
<1>1. ReturnInv => CleanReturn
  BY DEF ReturnInv, LookupInv, ClearedInv, CleanReturn, Used
<1> QED
  BY <1>1, ReturnInit, ReturnStep, PTL DEF UtilitySpec
-----------------------------------------------------------------------------
(***************************************************************************)
(* The errors.                                                             *)
(***************************************************************************)
\* What each operation leaves in an object is fitting.
Fitting(e, w) == e \in Errors /\ w \in Tellings /\ Keeps(e, w)

LEMMA ErrorInvIsFitting ==
    ErrorInv <=> /\ error \in [Object -> Errors] /\ told \in [Object -> Tellings]
                 /\ \A o \in Object : Fitting(error[o], told[o])
BY DEF ErrorInv, Fitting

LEMMA NewErrorFits ==
    ASSUME NEW code \in Int, NEW text \in Texts \cup {""}
    PROVE  Fitting(NewError(FromHResult(code), text), Told(code, text))
BY ConversionsAreInt DEF Fitting, Errors, Tellings, NewError, Told, Keeps

\* Flags do not matter, and a text may go.
LEMMA FlagsDoNotMatter ==
    ASSUME NEW e \in Errors, NEW w \in Tellings, Fitting(e, w)
    PROVE  /\ Fitting(Read(e), w) /\ Fitting(MovedOut(e), w)
           /\ Fitting([e EXCEPT !.read_ = FALSE, !.enableOverwriteCheck_ = TRUE], w)
           /\ Fitting(NewError(e.value_, e.message_), w)
BY DEF Fitting, Errors, Read, MovedOut, Keeps, NewError

\* An operation that makes o fitting, and at most reads another object or moves its
\* text out, keeps the invariant.
LEMMA TwoObjects ==
    ASSUME ErrorInv, NEW o \in Object, NEW other \in Object, NEW e, NEW w, NEW f,
           Fitting(e, w), Fitting(f, told[other]), o # other,
           error' = [error EXCEPT ![o] = e, ![other] = f],
           told' = [told EXCEPT ![o] = w]
    PROVE  ErrorInv'
<1>1. error' \in [Object -> Errors] /\ told' \in [Object -> Tellings]
  BY DEF ErrorInv, Fitting
<1>2. ASSUME NEW x \in Object
      PROVE  Keeps(error'[x], told'[x])
  BY <1>2 DEF ErrorInv, Fitting
<1> QED
  BY <1>1, <1>2 DEF ErrorInv

LEMMA OneObject ==
    ASSUME ErrorInv, NEW o \in Object, NEW e, NEW w, Fitting(e, w),
           error' = [error EXCEPT ![o] = e], told' = [told EXCEPT ![o] = w]
    PROVE  ErrorInv'
<1>1. error' \in [Object -> Errors] /\ told' \in [Object -> Tellings]
  BY DEF ErrorInv, Fitting
<1>2. ASSUME NEW x \in Object
      PROVE  Keeps(error'[x], told'[x])
  BY <1>2 DEF ErrorInv, Fitting
<1> QED
  BY <1>1, <1>2 DEF ErrorInv

LEMMA ReadValueKeeps ==
    ASSUME ErrorInv, NEW o \in Object, ReadValue(o)
    PROVE  ErrorInv'
<1>1. Fitting(Read(error[o]), told[o])
  BY FlagsDoNotMatter DEF ErrorInv, Fitting
<1>2. error' = [error EXCEPT ![o] = Read(error[o])] /\ told' = [told EXCEPT ![o] = told[o]]
  BY DEF ReadValue, ErrorInv
<1> QED
  BY <1>1, <1>2, OneObject

LEMMA ConstructKeeps ==
    ASSUME ErrorInv, NEW o \in Object,
           \/ ConstructFromValue(o) \/ ConstructFromHResult(o)
           \/ ConstructFromWin32(o) \/ ConstructFromNtStatus(o)
    PROVE  ErrorInv'
<1>1. ASSUME NEW code \in Int, NEW text \in Texts \cup {""},
             Construct(o, FromHResult(code), code, text)
      PROVE  ErrorInv'
  BY <1>1, NewErrorFits, OneObject DEF Construct
<1>2. CASE ConstructFromValue(o)
  BY <1>1, <1>2, EnumeratorsStay DEF ConstructFromValue
<1>3. CASE ConstructFromHResult(o)
  BY <1>1, <1>3, CodesAssumption DEF ConstructFromHResult
<1>4. CASE ConstructFromWin32(o)
  BY <1>1, <1>4, ConversionsAreInt, CodesAssumption DEF ConstructFromWin32, FromWin32Error
<1>5. CASE ConstructFromNtStatus(o)
  BY <1>1, <1>5, ConversionsAreInt, CodesAssumption DEF ConstructFromNtStatus, FromNtStatus
<1> QED
  BY <1>2, <1>3, <1>4, <1>5

\* Reset is given an enumerator, and the text stays with the object that was told it.
LEMMA ResetKeeps ==
    ASSUME ErrorInv, NEW o \in Object, Reset(o)
    PROVE  ErrorInv'
<1>1. PICK v \in Values :
        /\ error' = [error EXCEPT ![o] = NewError(v, error[o].message_)]
        /\ told' = [told EXCEPT ![o].code = v]
  BY DEF Reset
<1> DEFINE w == [told[o] EXCEPT !.code = v]
<1>2. told' = [told EXCEPT ![o] = w]
  BY <1>1 DEF ErrorInv
<1>3. w \in Tellings /\ w.code = v /\ w.text = told[o].text
  BY EnumeratorsStay DEF ErrorInv, Tellings
<1>4. NewError(v, error[o].message_) \in Errors
  BY EnumeratorsStay DEF ErrorInv, Errors, NewError
<1>5. Keeps(NewError(v, error[o].message_), w)
  BY <1>3, EnumeratorsStay DEF ErrorInv, Keeps, NewError
<1> HIDE DEF w
<1>6. Fitting(NewError(v, error[o].message_), w)
  BY <1>3, <1>4, <1>5 DEF Fitting
<1> QED
  BY <1>1, <1>2, <1>6, OneObject

\* Copies, moves, assignments and FirstError give what one object has to another.
LEMMA TransferKeeps ==
    ASSUME ErrorInv, NEW o \in Object, NEW other \in Object \ {o},
           \/ CopyConstruct(o, other) \/ MoveConstruct(o, other) \/ FirstError(o, other)
           \/ \E allowOverwrite, moved \in BOOLEAN : Assign(o, other, allowOverwrite, moved)
    PROVE  ErrorInv'
<1> DEFINE given(e) == [e EXCEPT !.read_ = FALSE, !.enableOverwriteCheck_ = TRUE]
<1>1. ASSUME NEW x \in Object
      PROVE  /\ Fitting(error[x], told[x])
             /\ Fitting(Read(error[x]), told[x]) /\ Fitting(MovedOut(error[x]), told[x])
             /\ Fitting(given(error[x]), told[x])
             /\ Fitting(NewError(error[x].value_, error[x].message_), told[x])
  BY <1>1, FlagsDoNotMatter DEF ErrorInv, Fitting
<1>2. CASE CopyConstruct(o, other)
  <2>1. /\ error' = [error EXCEPT ![o] = NewError(error[other].value_, error[other].message_),
                                  ![other] = Read(error[other])]
        /\ told' = [told EXCEPT ![o] = told[other]]
    BY <1>2 DEF CopyConstruct, ErrorInv
  <2> QED
    BY <1>1, <2>1, TwoObjects
<1>3. CASE MoveConstruct(o, other)
  <2>1. /\ error' = [error EXCEPT ![o] = NewError(error[other].value_, error[other].message_),
                                  ![other] = MovedOut(error[other])]
        /\ told' = [told EXCEPT ![o] = told[other]]
    BY <1>3 DEF MoveConstruct, ErrorInv
  <2> QED
    BY <1>1, <2>1, TwoObjects
<1>4. CASE FirstError(o, other)
  <2>1. PICK first \in {o, other} :
          /\ error' = [error EXCEPT ![o] = given(error[first]), ![other] = Read(error[other])]
          /\ told' = [told EXCEPT ![o] = told[first]]
    BY <1>4 DEF FirstError, ErrorInv
  <2> QED
    BY <1>1, <2>1, TwoObjects
<1>5. ASSUME NEW allowOverwrite \in BOOLEAN, NEW moved \in BOOLEAN,
             Assign(o, other, allowOverwrite, moved)
      PROVE  ErrorInv'
  <2>1. PICK f \in {Read(error[other]), MovedOut(error[other])} :
          /\ error' = [error EXCEPT ![o] = given(error[other]), ![other] = f]
          /\ told' = [told EXCEPT ![o] = told[other]]
    BY <1>5 DEF Assign, ErrorInv
  <2> QED
    BY <1>1, <2>1, TwoObjects
<1> QED
  BY <1>2, <1>3, <1>4, <1>5

LEMMA ErrorStep == ErrorInv /\ [UtilityNext]_comUtilityVars => ErrorInv'
<1> SUFFICES ASSUME ErrorInv, [UtilityNext]_comUtilityVars
             PROVE  ErrorInv'
  OBVIOUS
<1>1. CASE UNCHANGED <<error, told>>
  BY <1>1 DEF ErrorInv
<1>2. CASE ObjectStep
  BY <1>2, ConstructKeeps, ResetKeeps, ReadValueKeeps, TransferKeeps DEF ObjectStep
<1>3. ASSUME NEW o \in Object, ReturnError(o)
      PROVE  ErrorInv'
  <2>1. Fitting(NewError(0, ""), Told(0, ""))
    BY DEF Fitting, Errors, Tellings, NewError, Told, Keeps, FromHResult, SUCCEEDED
  <2> QED
    BY <1>3, <2>1 DEF ReturnError, ErrorInv, Fitting
<1>4. ASSUME NEW t \in running,
             \/ ReturnHResult(t) \/ CheckMTA(t) \/ Initialize(t) \/ UsePointer(t)
             \/ NextCall(t) \/ SetErrorInfo(t)
      PROVE  UNCHANGED <<error, told>>
  BY <1>4 DEF ReturnHResult, CheckMTA, Initialize, UsePointer, NextCall, SetErrorInfo, errorVars
<1>5. CASE UNCHANGED comUtilityVars
  BY <1>1, <1>5 DEF comUtilityVars, errorVars
<1> QED
  BY <1>1, <1>2, <1>3, <1>4, <1>5 DEF UtilityNext, UseErrors

\* The constructors, assignments, FirstError and conversions of ErrorCode.cpp: whatever
\* is done with any number of errors, each leaves as the failure it came in as, with
\* its own text or none, and no two internal codes leave as the same public one.
THEOREM FailuresSurvive == UtilitySpec => []FailureSurvives
<1>1. UtilityInit => ErrorInv
  <2>1. Fitting(NewError(0, ""), Told(0, ""))
    BY DEF Fitting, Errors, Tellings, NewError, Told, Keeps, FromHResult, SUCCEEDED
  <2>2. SUFFICES ASSUME UtilityInit PROVE ErrorInv
    OBVIOUS
  <2>3. /\ error = [o \in Object |-> NewError(0, "")] /\ told = [o \in Object |-> Told(0, "")]
    BY <2>2 DEF UtilityInit, ErrorInit, Success
  <2>4. \A o \in Object : Fitting(error[o], told[o])
    BY <2>1, <2>3
  <2>5. error \in [Object -> Errors] /\ told \in [Object -> Tellings]
    BY <2>1, <2>3 DEF Fitting
  <2> QED
    BY <2>4, <2>5, ErrorInvIsFitting
<1>2. ErrorInv => FailureSurvives
  <2> SUFFICES ASSUME ErrorInv, NEW o \in Object
               PROVE  /\ KeepsFailure(told[o].code, error[o].value_)
                      /\ error[o].message_ \in {told[o].text, ""}
                      /\ \A e \in Object :
                            ToHResult(error[o].value_) = ToHResult(error[e].value_)
                            /\ told[o].code \in InternalCodes /\ told[e].code \in InternalCodes
                            => told[o].code = told[e].code
    BY DEF FailureSurvives
  <2>1. \A e \in Object : told[e].code \in Int /\ error[e].value_ = FromHResult(told[e].code)
    BY DEF ErrorInv, Keeps, Tellings
  <2>2. KeepsFailure(told[o].code, error[o].value_)
    BY <2>1, ConversionsKeepFailure
  <2>3. error[o].message_ \in {told[o].text, ""}
    BY DEF ErrorInv, Keeps
  <2> QED
    BY <2>1, <2>2, <2>3, InternalCodesStayApart
<1> QED
  BY <1>1, <1>2, ErrorStep, PTL DEF UtilitySpec
=============================================================================
