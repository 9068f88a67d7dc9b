----------------------------- MODULE Signature ------------------------------
(***************************************************************************)
(* Which keyword arguments an Action's functions are called with:          *)
(* lpipe/signature.py (merging and validating signatures), build_kwargs,   *)
(* build_action_kwargs and the reserved names of lpipe/pipeline.py, and    *)
(* Python's own rule for binding a call.                                   *)
(*                                                                         *)
(* Values are abstracted to their class: a mapping of arguments takes a    *)
(* name to a member of Class.  A type hint is the set of the classes that  *)
(* isinstance accepts for it, empty where isinstance raises on the hint    *)
(* (List[int], Any).  A default is the class of the default value.         *)
(***************************************************************************)
EXTENDS Naturals, Sequences, Functions

CONSTANTS
    Name,        \* parameter and argument names
    Class,       \* classes of values, "NoneType" among them
    Func,        \* what may stand in Action.functions
    Def,         \* Def[f]: the function behind f, see FuncDef
    NotADict     \* stands for a "kwargs" that is not a mapping

NoDefault == "required"     \* inspect.Parameter.empty as a default

\* "named" is positional-or-keyword; no function here is positional-only.
Kind == {"named", "kwonly", "varpos", "varkw"}

ArgMap == UNION {[names -> Class] : names \in SUBSET Name}

Param == [kind : Kind, default : Class \cup {NoDefault}]

\* isFunction: isinstance(f, FunctionType), false for a builtin or a class.
\* Annotations are of parameters and of what is returned, and "return", being
\* a keyword of Python, names no parameter.
IsFuncDef(d) ==
    /\ d.isFunction \in BOOLEAN
    /\ DOMAIN d.params \subseteq Name
    /\ \A p \in DOMAIN d.params : d.params[p] \in Param
    /\ "return" \notin DOMAIN d.params
    /\ DOMAIN d.hints \subseteq DOMAIN d.params \cup {"return"}
    /\ \A p \in DOMAIN d.hints : d.hints[p] \subseteq Class

ASSUME SignatureAssumption ==
    /\ "NoneType" \in Class
    /\ NoDefault \notin Class
    /\ {"logger", "state", "payload"} \subseteq Name
    /\ NotADict \notin ArgMap
    /\ \A f \in Func : IsFuncDef(Def[f])

RESERVED_KEYWORDS == {"logger", "state", "payload"}

-----------------------------------------------------------------------------

\* inspect.signature(f).parameters: two are equal when kind, default and
\* annotation are.  An annotation is the set holding the hint, or is empty.
Parameters(f) ==
    [p \in DOMAIN Def[f].params |->
        [kind       |-> Def[f].params[p].kind,
         default    |-> Def[f].params[p].default,
         annotation |-> {Def[f].hints[h] : h \in {p} \cap DOMAIN Def[f].hints}]]

\* typing.get_type_hints(f), up to Python 3.10: a default of None makes the
\* hint Optional; isinstance still raises on it if it did, as validate asks
\* for every member of a Union.  "return" is a name here if its type is given.
TypeHints(f) ==
    [p \in DOMAIN Def[f].hints |->
        Def[f].hints[p] \cup
            IF /\ p \in DOMAIN Def[f].params /\ Def[f].params[p].default = "NoneType"
               /\ Def[f].hints[p] # {}
            THEN {"NoneType"} ELSE {}]

\* Mutant: _merge keeps the first of two conflicting entries.
MergeableAnyway(maps) == TRUE

\* _merge raises a TypeError unless the mappings agree on common keys.
Mergeable(maps) ==
    \A g, h \in maps : \A k \in DOMAIN g \cap DOMAIN h : g[k] = h[k]

Merged(maps) ==
    [k \in UNION {DOMAIN m : m \in maps} |->
        (CHOOSE m \in maps : k \in DOMAIN m)[k]]

Signatures(fs) == {Parameters(f) : f \in fs}
Hints(fs)      == {TypeHints(f) : f \in fs}

\* The names for which a missing argument is not looked into.
Unchecked == {"kwargs", "args"}

\* Mutant: validate does not look for missing arguments.
ValidatesGiven(fs, kwargs) ==
    /\ \A f \in fs : Def[f].isFunction
    /\ Mergeable(Signatures(fs))
    /\ Mergeable(Hints(fs))
    /\ \A p \in DOMAIN Merged(Signatures(fs)) \cap DOMAIN kwargs :
          p \in DOMAIN Merged(Hints(fs)) => kwargs[p] \in Merged(Hints(fs))[p]

\* Mutant: _merge takes whatever has a signature.
ValidatesCallables(fs, kwargs) ==
    /\ Mergeable(Signatures(fs))
    /\ Mergeable(Hints(fs))
    /\ \A p \in DOMAIN Merged(Signatures(fs)) :
          IF p \in DOMAIN kwargs
          THEN p \in DOMAIN Merged(Hints(fs)) => kwargs[p] \in Merged(Hints(fs))[p]
          ELSE p \in Unchecked \/ Merged(Signatures(fs))[p].default # NoDefault

\* validate(fs, kwargs) returns rather than raises.
Validates(fs, kwargs) ==
    /\ \A f \in fs : Def[f].isFunction
    /\ Mergeable(Signatures(fs))
    /\ Mergeable(Hints(fs))
    /\ \A p \in DOMAIN Merged(Signatures(fs)) :
          IF p \in DOMAIN kwargs
          THEN p \in DOMAIN Merged(Hints(fs)) => kwargs[p] \in Merged(Hints(fs))[p]
          ELSE p \in Unchecked \/ Merged(Signatures(fs))[p].default # NoDefault

\* Mutant: validate fills in the default of a missing argument, empty or not.
ValidatedWithDefaults(fs, kwargs) ==
    [p \in DOMAIN Merged(Signatures(fs)) |->
        IF p \in DOMAIN kwargs THEN kwargs[p] ELSE Merged(Signatures(fs))[p].default]

Validated(fs, kwargs) ==
    Restrict(kwargs, DOMAIN Merged(Signatures(fs)) \cap DOMAIN kwargs)

-----------------------------------------------------------------------------
(***************************************************************************)
(* An Action.  required is its required_params: a sequence of pairs        *)
(* <<from, to>>, a plain name n standing as <<n, n>>; listed says whether  *)
(* it is a list.                                                           *)
(***************************************************************************)
Action(functions, paths, queues) ==
    [kind |-> "Action", functions |-> functions, paths |-> paths, queues |-> queues,
     required |-> << >>, listed |-> TRUE, include_all_params |-> FALSE]

Inferred(action) == action.required = << >> /\ action.functions # << >>

RequiredKwargs(required, kwargs) ==
    [to \in {pair[2] : pair \in Range(required)} |->
        LET last == CHOOSE i \in DOMAIN required :
                       /\ required[i][2] = to
                       /\ \A j \in DOMAIN required : required[j][2] = to => j <= i
        IN  kwargs[required[last][1]]]

\* build_kwargs returns rather than raises, and what it returns.
Buildable(action, kwargs) ==
    IF Inferred(action) THEN Validates(Range(action.functions), kwargs)
    ELSE \/ action.required = << >>
         \/ /\ action.listed
            /\ \A pair \in Range(action.required) : pair[1] \in DOMAIN kwargs

BuiltKwargs(action, kwargs) ==
    IF Inferred(action) THEN Validated(Range(action.functions), kwargs)
    ELSE RequiredKwargs(action.required, kwargs)

\* {**below, **above}
Updated(below, above) ==
    [k \in DOMAIN below \cup DOMAIN above |->
        IF k \in DOMAIN above THEN above[k] ELSE below[k]]

\* {**{k: None for k in RESERVED_KEYWORDS}, **payload.kwargs}
WithReserved(kwargs) == Updated([k \in RESERVED_KEYWORDS |-> "NoneType"], kwargs)

\* Mutant: the selected arguments are not validated.
AcceptsAnything(action, kwargs) == kwargs # NotADict

\* execute_action gets past its first try: else it is an InvalidPayloadError.
Accepts(action, kwargs) ==
    kwargs # NotADict /\ Buildable(action, WithReserved(kwargs))

\* action_kwargs, from which the reserved names are popped at the end.
ActionKwargs(action, kwargs) ==
    LET all   == WithReserved(kwargs)
        built == BuiltKwargs(action, all)
        whole == IF action.include_all_params THEN Updated(built, all) ELSE built
    IN  Restrict(whole, DOMAIN whole \ RESERVED_KEYWORDS)

\* What f is called with, and whether Python can bind the call.
CallKwargs(kwargs) == Updated(kwargs, [k \in RESERVED_KEYWORDS |-> "object"])

TakesAnyKeyword(f) ==
    \E p \in DOMAIN Def[f].params : Def[f].params[p].kind = "varkw"

Named(f) == {p \in DOMAIN Def[f].params : Def[f].params[p].kind \in {"named", "kwonly"}}

Binds(f, kwargs) ==
    LET given == DOMAIN CallKwargs(kwargs)
    IN  /\ \A p \in Named(f) : p \in given \/ Def[f].params[p].default # NoDefault
        /\ TakesAnyKeyword(f) \/ given \subseteq Named(f)

\* Required parameters whose arguments validate does not miss.
HiddenNames(f) == {p \in Named(f) \cap Unchecked : Def[f].params[p].default = NoDefault}

=============================================================================
