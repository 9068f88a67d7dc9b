---------------------------- MODULE MCActionCalls ---------------------------
(* Small signatures for ActionCalls: every pair of them in one Action.      *)
EXTENDS ActionCalls, TLC

MCName  == {"a", "b", "kwargs", "return", "logger", "state", "payload"}
MCClass == {"int", "str", "NoneType"}

required == [kind |-> "named", default |-> NoDefault]
optional == [kind |-> "named", default |-> "NoneType"]
starstar == [kind |-> "varkw", default |-> NoDefault]

NoHints == [p \in {} |-> {}]

Function(params, hints) == [isFunction |-> TRUE, params |-> params, hints |-> hints]

MCFunc == {"plain", "typed", "maybe", "listed", "returns", "two", "strict", "hidden",
           "logs", "rest", "builtin"}

MCDef ==
    [plain   |-> Function([a |-> required, kwargs |-> starstar], NoHints),
     typed   |-> Function([a |-> required, kwargs |-> starstar], [a |-> {"int"}]),
     maybe   |-> Function([b |-> optional, kwargs |-> starstar], [b |-> {"str"}]),
     listed  |-> Function([b |-> optional, kwargs |-> starstar], [b |-> {}]),
     returns |-> Function([a |-> required, kwargs |-> starstar],
                          [a |-> {"int"}] @@ "return" :> {"str"}),
     two     |-> Function([a |-> required, b |-> optional, kwargs |-> starstar],
                          [a |-> {"int"}] @@ "return" :> {"int"}),
     strict  |-> Function([a |-> required, b |-> [kind |-> "kwonly", default |-> "int"]],
                          [b |-> {"int"}]),
     hidden  |-> Function([kwargs |-> required, b |-> starstar], NoHints),
     logs    |-> Function([logger |-> required, kwargs |-> starstar],
                          [logger |-> {"str"}]),
     rest    |-> Function([b |-> starstar], NoHints),
     builtin |-> [isFunction |-> FALSE, params |-> NoHints, hints |-> NoHints]]

FunctionLists == UNION {[1 .. len -> MCFunc] : len \in 0 .. 2}

RequiredParams == {<< >>, << <<"a", "a">> >>, << <<"a", "b">>, <<"b", "b">> >>}

Actions ==
    {[Action(fs, <<"NEXT">>, << >>) EXCEPT !.required = required_params, !.listed = listed,
                                !.include_all_params = all] :
        fs \in FunctionLists, required_params \in RequiredParams,
        listed \in BOOLEAN, all \in BOOLEAN}

Payloads == UNION {[names -> MCClass] : names \in SUBSET {"a", "b"}}
                \cup {[logger |-> "str", a |-> "int"], [kwargs |-> "str"], NotADict}

MCRequests == {a \in Actions : a.listed \/ a.required # << >>} \X Payloads

=============================================================================
