------------------------- MODULE ActionCallsProofs -------------------------
(***************************************************************************)
(* What each function of an Action is called with, and when the Action     *)
(* refuses the payload.  The lemmas about signatures are SignatureProofs'. *)
(***************************************************************************)
EXTENDS ActionCalls, SignatureProofs

\* What the functions are called with is still what was validated, and what
\* was refused is still refused.
SelectedInv ==
    /\ <<action, kwargs>> \in Requests
    /\ called \in 0 .. Len(action.functions)
    /\ phase \in {"building", "calling", "rejected", "asserted", "done"}
    /\ phase \in {"calling", "asserted", "done"} => Accepts(action, kwargs)
    /\ phase = "rejected" => ~Accepts(action, kwargs)
    /\ phase = "calling" => action_kwargs = ActionKwargs(action, kwargs)
    /\ phase = "asserted" => \E f \in Range(action.functions) : ~Def[f].isFunction

LEMMA ActionIsTyped ==
    ASSUME SelectedInv
    PROVE  /\ action.functions \in Seq(Func) /\ Len(action.functions) \in Nat
           /\ \A i \in 1 .. Len(action.functions) :
                 action.functions[i] \in Range(action.functions)
<1>1. action.functions \in Seq(Func)
  BY RequestsAssumption DEF SelectedInv
<1> QED
  BY <1>1, LenProperties DEF Range

LEMMA FunctionsAreFunc ==
    ASSUME SelectedInv
    PROVE  Range(action.functions) \subseteq Func
<1>1. action.functions \in Seq(Func)
  BY RequestsAssumption DEF SelectedInv
<1> QED
  BY <1>1, ElementOfSeq, LenProperties DEF Range

LEMMA StepSelected == SelectedInv /\ [Next]_vars => SelectedInv'
<1> SUFFICES ASSUME SelectedInv, [Next]_vars PROVE SelectedInv'
  OBVIOUS
<1>1. CASE Build \/ Reject \/ FanOut
  BY <1>1 DEF Build, Reject, FanOut, SelectedInv
<1>2. CASE Call
  BY <1>2, ActionIsTyped DEF Call, SelectedInv
<1>3. CASE NotAFunction
  <2>1. Upcoming \in Range(action.functions) /\ ~Def[Upcoming].isFunction
    BY <1>3, ActionIsTyped DEF NotAFunction, Upcoming, SelectedInv
  <2> QED
    BY <1>3, <2>1 DEF NotAFunction, SelectedInv
<1>4. CASE UNCHANGED vars
  BY <1>4 DEF vars, SelectedInv
<1> QED
  BY <1>1, <1>2, <1>3, <1>4 DEF Next

(***************************************************************************)
(* Between execute_action's validation and its last function neither the   *)
(* Action nor the selected arguments change (pipeline.py:287-308).         *)
(***************************************************************************)
THEOREM SelectedThroughout == Spec => []SelectedInv
<1>1. Init => SelectedInv
  <2> SUFFICES ASSUME Init PROVE SelectedInv
    OBVIOUS
  <2>1. <<action, kwargs>> \in Requests
    BY RequestsAssumption DEF Init
  <2>2. Len(action.functions) \in Nat
    BY <2>1, RequestsAssumption, LenProperties
  <2> QED
    BY <2>1, <2>2 DEF Init, SelectedInv
<1> QED
  BY <1>1, StepSelected, PTL DEF Spec

\* The function called last is one of the Action's.
LEMMA CurrentIsOfTheAction ==
    ASSUME SelectedInv, Calling
    PROVE  Current \in Range(action.functions)
BY ActionIsTyped DEF SelectedInv, Calling, Current

(***************************************************************************)
(* No function of an Action without required_params is called with an      *)
(* argument its own type hint excludes (signature.py:65-88).               *)
(***************************************************************************)
THEOREM HintsAreEnforced == Spec => []HintsEnforced
<1>1. SelectedInv => HintsEnforced
  <2> SUFFICES ASSUME SelectedInv, Calling, Inferred(action),
                      NEW p \in DOMAIN Def[Current].params, p \in DOMAIN TypeHints(Current),
                      p \in DOMAIN action_kwargs
               PROVE  action_kwargs[p] \in TypeHints(Current)[p]
    BY DEF HintsEnforced
  <2> QED
    BY CurrentIsOfTheAction, SelectionIsTyped DEF SelectedInv, Calling
<1> QED
  BY <1>1, SelectedThroughout, PTL

(***************************************************************************)
(* If an Action without required_params accepts a payload, the call of a   *)
(* function with **kwargs binds if and only if the payload has arguments   *)
(* for the required parameters called args or kwargs, which validate does  *)
(* not look for (pipeline.py:287-308, signature.py:82).                    *)
(***************************************************************************)
THEOREM AcceptedCallsBind == Spec => []AcceptedCallBinds
<1>1. SelectedInv => AcceptedCallBinds
  BY CurrentIsOfTheAction, SelectionBinds DEF SelectedInv, Calling, AcceptedCallBinds
<1> QED
  BY <1>1, SelectedThroughout, PTL

(***************************************************************************)
(* The assertion of pipeline.py:301 is unreachable where the parameters    *)
(* were inferred, since signature.py:17 asserts the same before.           *)
(***************************************************************************)
THEOREM InferredActionsNeverAssert == Spec => []InferredNeverAsserts
<1>1. SelectedInv => InferredNeverAsserts
  BY DEF SelectedInv, InferredNeverAsserts, Accepts, Buildable, Validates
<1> QED
  BY <1>1, SelectedThroughout, PTL

(***************************************************************************)
(* An Action without required_params refuses a payload exactly when one of *)
(* its functions, alone, would, or when their signatures cannot be merged  *)
(* (signature.py:6-29,61-88), for all signatures, hints and arguments.     *)
(***************************************************************************)
THEOREM ValidationIsOneByOne == Spec => []ValidatedOneByOne
<1>1. SelectedInv => ValidatedOneByOne
  <2> DEFINE fs   == Range(action.functions)
             args == WithReserved(kwargs)
  <2> SUFFICES ASSUME SelectedInv, phase # "building", Inferred(action), kwargs # NotADict
               PROVE  phase = "rejected" <=>
                          \/ ~Mergeable(Signatures(fs)) \/ ~Mergeable(Hints(fs))
                          \/ \E f \in fs : ~Validates({f}, args)
    BY DEF ValidatedOneByOne
  <2>1. phase = "rejected" <=> ~Validates(fs, args)
    BY DEF SelectedInv, Accepts, Buildable
  <2>2. \A f \in fs : IsFuncDef(Def[f])
    BY FunctionsAreFunc, SignatureAssumption
  <2>3. Validates(fs, args) => /\ Mergeable(Signatures(fs)) /\ Mergeable(Hints(fs))
                              /\ \A f \in fs : Validates({f}, args)
    <3>1. ASSUME Validates(fs, args), NEW f \in fs PROVE Validates({f}, args)
      BY <3>1, ValidAlone
    <3> QED
      BY <3>1 DEF Validates
  <2> HIDE DEF fs, args
  <2> QED
    BY <2>1, <2>2, <2>3, ValidTogether
<1> QED
  BY <1>1, SelectedThroughout, PTL

\* The functions of the Action that annotate what they return do it alike.
ReturnsAgree ==
    \A f, g \in Range(action.functions) :
        "return" \in DOMAIN TypeHints(f) \cap DOMAIN TypeHints(g) =>
            TypeHints(f)["return"] = TypeHints(g)["return"]

(***************************************************************************)
(* signature.py:13,38: what the documentation of _merge promises, that     *)
(* only parameters conflict, holds of every Action whose functions agree   *)
(* on the annotation of what they return: get_type_hints listing that one  *)
(* among the parameters' is all that is wrong with it.                     *)
(***************************************************************************)
THEOREM OnlyReturnsConflictToo == Spec => [](ReturnsAgree => OnlyParametersConflict)
<1>1. SelectedInv /\ ValidatedOneByOne /\ ReturnsAgree => OnlyParametersConflict
  <2> DEFINE fs == Range(action.functions)
  <2> SUFFICES ASSUME SelectedInv, ReturnsAgree, Mergeable({ParameterHints(f) : f \in fs})
               PROVE  Mergeable(Hints(fs))
    BY DEF ValidatedOneByOne, OnlyParametersConflict
  <2> SUFFICES ASSUME NEW f \in fs, NEW g \in fs,
                      NEW k \in DOMAIN TypeHints(f) \cap DOMAIN TypeHints(g)
               PROVE  TypeHints(f)[k] = TypeHints(g)[k]
    BY DEF Mergeable, Hints
  <2>1. CASE k = "return"
    BY <2>1 DEF ReturnsAgree
  <2>2. CASE k # "return"
    <3>1. IsFuncDef(Def[f]) /\ IsFuncDef(Def[g])
      BY FunctionsAreFunc, SignatureAssumption
    <3>2. k \in DOMAIN Def[f].params /\ k \in DOMAIN Def[g].params
      BY <2>2, <3>1 DEF IsFuncDef, TypeHints
    <3>3. /\ k \in DOMAIN ParameterHints(f) /\ ParameterHints(f)[k] = TypeHints(f)[k]
          /\ k \in DOMAIN ParameterHints(g) /\ ParameterHints(g)[k] = TypeHints(g)[k]
      BY <3>2 DEF ParameterHints, Restrict
    <3> QED
      BY <3>3 DEF Mergeable
  <2> QED
    BY <2>1, <2>2
<1> QED
  BY <1>1, SelectedThroughout, ValidationIsOneByOne, PTL

-----------------------------------------------------------------------------

(***************************************************************************)
(* build_action_kwargs (pipeline.py:421-477) never selects an argument     *)
(* without a value, whichever way it goes: required_params that name one   *)
(* target twice, inferred parameters, include_all_params; and no more      *)
(* functions are called than the Action has.                               *)
(***************************************************************************)
THEOREM ActionCallsTypeCorrect == Spec => []TypeOK
<1>1. Init => TypeOK
  <2> SUFFICES ASSUME Init PROVE TypeOK
    OBVIOUS
  <2>1. <<action, kwargs>> \in Requests
    BY RequestsAssumption DEF Init
  <2>2. Len(action.functions) \in Nat
    BY <2>1, RequestsAssumption, LenProperties
  <2>3. [k \in {} |-> "NoneType"] \in [{} -> Class]
    OBVIOUS
  <2>4. action_kwargs \in ArgMap
    BY <2>3, ArgMapIntro DEF Init
  <2> QED
    BY <2>1, <2>2, <2>4 DEF Init, TypeOK
<1>2. TypeOK /\ [Next]_vars => TypeOK'
  <2> SUFFICES ASSUME TypeOK, [Next]_vars PROVE TypeOK'
    OBVIOUS
  <2>1. Len(action.functions) \in Nat
    BY RequestsAssumption, LenProperties DEF TypeOK
  <2>2. CASE Build
    <3>1. kwargs \in ArgMap /\ action.required \in Seq(Name \X Name)
      BY <2>2, RequestsAssumption DEF Build, Accepts, TypeOK
    <3>2. action_kwargs' \in ArgMap
      BY <2>2, <3>1, SelectionIsAnArgMap DEF Build
    <3> QED
      BY <2>2, <3>2 DEF Build, TypeOK
  <2>3. CASE Reject \/ NotAFunction \/ FanOut
    BY <2>3 DEF Reject, NotAFunction, FanOut, TypeOK
  <2>4. CASE Call
    BY <2>1, <2>4 DEF Call, TypeOK
  <2>5. CASE UNCHANGED vars
    BY <2>5 DEF vars, TypeOK
  <2> QED
    BY <2>2, <2>3, <2>4, <2>5 DEF Next
<1> QED
  BY <1>1, <1>2, PTL DEF Spec

=============================================================================
