---------------------------- MODULE ActionCalls -----------------------------
(***************************************************************************)
(* One call of execute_action (lpipe/pipeline.py) up to the last of its    *)
(* functions: the payload's arguments are validated and selected once, for *)
(* the union of the functions' signatures, and every function is then      *)
(* called with that one selection.  What the functions do is Pipeline's    *)
(* subject; here it matters what they are called with.                     *)
(***************************************************************************)
EXTENDS Signature

CONSTANT Requests      \* the pairs <<action, kwargs>> that may arrive

ASSUME RequestsAssumption ==
    \A request \in Requests :
        /\ request = <<request[1], request[2]>>
        /\ request[1].functions \in Seq(Func)
        /\ request[1].required \in Seq(Name \X Name)
        /\ request[2] \in ArgMap \cup {NotADict}

VARIABLES
    action,            \* the Action being executed
    kwargs,            \* payload.kwargs
    action_kwargs,     \* what build_action_kwargs made of them
    called,            \* how many of action.functions were called
    phase              \* "building", "calling", "rejected", "asserted" or "done"

vars == <<action, kwargs, action_kwargs, called, phase>>

TypeOK ==
    /\ <<action, kwargs>> \in Requests
    /\ action_kwargs \in ArgMap
    /\ called \in 0 .. Len(action.functions)
    /\ phase \in {"building", "calling", "rejected", "asserted", "done"}

Init ==
    /\ \E request \in Requests : action = request[1] /\ kwargs = request[2]
    /\ action_kwargs = [k \in {} |-> "NoneType"]
    /\ called = 0
    /\ phase = "building"

Build ==
    /\ phase = "building" /\ Accepts(action, kwargs)
    /\ action_kwargs' = ActionKwargs(action, kwargs)
    /\ phase' = "calling"
    /\ UNCHANGED <<action, kwargs, called>>

\* InvalidPayloadError: the record is dropped.
Reject ==
    /\ phase = "building" /\ ~Accepts(action, kwargs)
    /\ phase' = "rejected"
    /\ UNCHANGED <<action, kwargs, action_kwargs, called>>

\* The function about to be called, or called last.
Upcoming == action.functions[called + 1]
Current  == action.functions[called]

Call ==
    /\ phase = "calling" /\ called < Len(action.functions)
    /\ Def[Upcoming].isFunction
    /\ called' = called + 1
    /\ UNCHANGED <<action, kwargs, action_kwargs, phase>>

\* assert isinstance(f, FunctionType), outside the try.
NotAFunction ==
    /\ phase = "calling" /\ called < Len(action.functions)
    /\ ~Def[Upcoming].isFunction
    /\ phase' = "asserted"
    /\ UNCHANGED <<action, kwargs, action_kwargs, called>>

FanOut ==
    /\ phase = "calling" /\ called = Len(action.functions)
    /\ phase' = "done"
    /\ UNCHANGED <<action, kwargs, action_kwargs, called>>

Next == Build \/ Reject \/ Call \/ NotAFunction \/ FanOut

Spec == Init /\ [][Next]_vars

-----------------------------------------------------------------------------

Calling == phase = "calling" /\ called > 0

(***************************************************************************)
(* signature.py:65-88 and README.md:243: a function of an Action without   *)
(* required_params never sees an argument that its own type hint does not  *)
(* allow, although the arguments were checked against the merge of all the *)
(* functions' hints, and include_all_params adds the payload's arguments   *)
(* unchecked.                                                              *)
(***************************************************************************)
HintsEnforced ==
    Calling /\ Inferred(action) =>
        \A p \in DOMAIN Def[Current].params \cap DOMAIN TypeHints(Current) :
            p \in DOMAIN action_kwargs => action_kwargs[p] \in TypeHints(Current)[p]

(***************************************************************************)
(* pipeline.py:287-308, signature.py:82: if an Action without              *)
(* required_params accepts a payload, the call of a function that takes    *)
(* **kwargs fails to bind in one case only: a required parameter is called *)
(* "args" or "kwargs", which validate does not miss, and the payload has   *)
(* no such argument.  Then execute_action swallows the TypeError and the   *)
(* record counts as a success although its function never ran; in every    *)
(* other case the function runs.  (One without **kwargs never binds unless *)
(* it names logger, state and payload, and all else it is given.)          *)
(***************************************************************************)
AcceptedCallBinds ==
    Calling /\ Inferred(action) /\ TakesAnyKeyword(Current) =>
        (Binds(Current, action_kwargs) <=> HiddenNames(Current) \subseteq DOMAIN kwargs)

(***************************************************************************)
(* pipeline.py:301: an Action that reaches its functions by inferring      *)
(* their parameters has only functions; the assertion, which would end the *)
(* whole batch, is left to Actions with required_params.                   *)
(***************************************************************************)
InferredNeverAsserts == phase = "asserted" => ~Inferred(action)

(***************************************************************************)
(* signature.py:6-29,61-88 and pipeline.py:453,281-295: looking at the     *)
(* merge of all the functions' parameters, hints and defaults refuses what *)
(* looking at one function after the other would, and what cannot be       *)
(* merged; it neither lets a payload pass that one of them refuses nor     *)
(* refuses one that fits them all.                                         *)
(***************************************************************************)
ValidatedOneByOne ==
    LET fs == Range(action.functions)
    IN  phase # "building" /\ Inferred(action) /\ kwargs # NotADict =>
            (phase = "rejected" <=>
                \/ ~Mergeable(Signatures(fs)) \/ ~Mergeable(Hints(fs))
                \/ \E f \in fs : ~Validates({f}, WithReserved(kwargs)))

ParameterHints(f) == Restrict(TypeHints(f), DOMAIN Def[f].params \cap DOMAIN TypeHints(f))

(***************************************************************************)
(* signature.py:13,38: merging fails only for parameters of the same name  *)
(* with different types or defaults.  Stated of an Action all of whose     *)
(* functions accept the payload on their own.                              *)
(***************************************************************************)
OnlyParametersConflict ==
    LET fs == Range(action.functions)
    IN  phase = "rejected" /\ Inferred(action) /\ kwargs # NotADict =>
            \/ \E f \in fs : ~Validates({f}, WithReserved(kwargs))
            \/ ~Mergeable(Signatures(fs))
            \/ ~Mergeable({ParameterHints(f) : f \in fs})

=============================================================================
