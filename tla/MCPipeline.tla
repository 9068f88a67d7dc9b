----------------------------- MODULE MCPipeline -----------------------------
(* Deployments, functions and events for Pipeline, chosen so that every     *)
(* branch of the code is taken and failures meet at different depths.       *)
EXTENDS DummyLambda, TLC

MCPath  == DummyPath \cup {"AUTO_PATH", "MAIN", "NEXT", "UNDEFINED", "UNKNOWN", "LOOP",
                           "EMPTY", "MIXED", "BUILTIN", "BARE", "LOST", "NO_QUEUE",
                           "NOT_A_QUEUE"}
MCQueue == {"sqs", "kinesis", "sqs_url", "sqs_without_path"}
MCQueueType == [sqs |-> "SQS", kinesis |-> "KINESIS", sqs_url |-> "SQS",
                sqs_without_path |-> "SQS"]

MCName  == DummyName \cup {"a", "kwargs", "logger", "state", "payload"}
MCClass == {"int", "str", "NoneType"}

MCFunc == DOMAIN DummyDef \cup {"fetch", "store", "greedy", "rigid", "builtin"}

\* rigid takes no **kwargs, so that its call never binds.
MCDef ==
    [fetch   |-> [isFunction |-> TRUE, params |-> [a |-> required, kwargs |-> starstar],
                  hints |-> [a |-> {"int"}]],
     store   |-> [isFunction |-> TRUE, params |-> [kwargs |-> starstar], hints |-> NoHints],
     greedy  |-> [isFunction |-> TRUE, params |-> [kwargs |-> starstar], hints |-> NoHints],
     rigid   |-> [isFunction |-> TRUE, params |-> [a |-> required], hints |-> NoHints],
     builtin |-> [isFunction |-> FALSE, params |-> NoHints, hints |-> NoHints]] @@ DummyDef

a1 == [a |-> "int"]

To(target)         == [target |-> target, kwargs |-> a1]

MCDoes ==
    [fetch   |-> {Raising(kind) : kind \in Exception}
                   \cup {Returning("None"), Emitting(<< To("NEXT"), To("sqs") >>),
                         Emitting(<< To("sqs"), To("UNKNOWN") >>)},
     store   |-> {Returning("value"), Raising("Exception"), Raising("FailCatastrophically")},
     greedy  |-> {Returning("None"), Emitting(<< To("LOOP") >>), Emitting(<< To("MAIN") >>)},
     rigid   |-> {Returning("value")},
     builtin |-> {}] @@ DummyDoes

NoPaths == [p \in {} |-> << >>]

Graph ==
    [MAIN |-> << Action(<<"fetch", "store">>, <<"NEXT">>, <<"sqs", "kinesis">>) >>,
     NEXT |-> << Fn("store") >>]

Odd ==
    [MAIN    |-> << Action(<<"greedy">>, <<"NEXT">>, <<"sqs_url">>) >>,
     NEXT    |-> << Fn("rigid"), Fn("store") >>,
     LOOP    |-> << Action(<< >>, <<"LOOP">>, << >>) >>,
     EMPTY   |-> << >>,
     MIXED   |-> << Action(<<"greedy">>, << >>, << >>), Fn("store") >>,
     BUILTIN |-> << [Action(<<"builtin">>, << >>, << >>) EXCEPT !.required = << <<"a", "a">> >>] >>,
     BARE    |-> << Fn("store"), Fn("builtin") >>,
     LOST    |-> << Action(<<"store">>, <<"UNKNOWN">>, << >>) >>,
     NO_QUEUE    |-> << Action(<< >>, <<"NEXT">>, <<"sqs_url", NoQueue, "NEXT">>) >>,
     NOT_A_QUEUE |-> << Action(<< >>, <<"NEXT">>, <<"sqs_url", "NEXT", NoQueue>>) >>]

MCDeployments ==
    {Deployment("SQS", {}, Graph, {"MAIN", "NEXT", "UNDEFINED"}, NoPath),
     Deployment("RAW", {}, Odd, {}, NoPath),
     Deployment("KINESIS", {"fetch"}, NoPaths, {}, NoPath),
     Deployment("SQS", {"builtin"}, Graph, {}, "UNKNOWN"),
     Deployment("RAW", {"builtin"}, NoPaths, {}, NoPath),
     Deployment("RAW", {"fetch"}, Graph, {}, NoPath),
     Deployment("DYNAMODB", {}, Graph, {}, NoPath)}

Object(path) == Message("object", path, a1)

MCMessages ==
    {Object(p) : p \in {"MAIN", "UNDEFINED", "UNKNOWN", "LOOP", "EMPTY", "MIXED",
                        "BUILTIN", "BARE", "LOST", "NO_QUEUE", "NOT_A_QUEUE", "NEXT",
                        NoPath}}
        \cup {Message("object", "NEXT", NotADict)}
        \cup {Message(shape, NoPath, NotADict) : shape \in Shape \ {"object"}}

Batch(records) == [list |-> TRUE, records |-> records]

\* Messages worth having before and after each other.
Varied == {Object("MAIN"), Object("LOOP"), Message("object", "NEXT", NotADict),
           Message("null", NoPath, NotADict), Message("bad_json", NoPath, NotADict)}

MCEvents ==
    {Batch(<< m >>) : m \in MCMessages}
        \cup {Batch(<< l, m >>) : l, m \in Varied}
        \cup {Batch(<< Object("MAIN"), Object("MAIN"), Object("MAIN") >>)}
        \cup {Batch(<< >>), [list |-> FALSE, records |-> << >>]}

AllDeployments == MCDeployments \cup DummyDeployments
AllEvents      == MCEvents \cup DummyEvents

\* For the runs about one invocation at a time.
FewEvents == {Batch(<< m >>) : m \in MCMessages}
                \cup {Batch(<< Object("MAIN"), m >>) : m \in Varied}

MCAttributes == {"sqs.get_queue_url"}

MCHandlerRaises == {"FailCatastrophically", "AssertionError"}
NoHandlerRaises == {}

=============================================================================
