---------------------------- MODULE DummyLambda ----------------------------
(***************************************************************************)
(* The lambda of src/dummy_lambda, the example deployment that the tests   *)
(* of the repository run process_event on: its functions, its paths, and   *)
(* the records and responses of tests/fixtures.py.  All arguments here are *)
(* strings, and foo, where it is given, is "bar".                          *)
(***************************************************************************)
EXTENDS Pipeline

required == [kind |-> "named", default |-> NoDefault]
starstar == [kind |-> "varkw", default |-> NoDefault]
NoHints  == [p \in {} |-> {}]
NoKwargs == [k \in {} |-> "str"]

Takes(names, hints) ==
    [isFunction |-> TRUE, hints |-> hints,
     params |-> [p \in names \cup {"kwargs"} |-> IF p = "kwargs" THEN starstar ELSE required]]

DummyName == {"foo", "bar", "uri", "wiz"}

AnyKwargs   == Takes({}, NoHints)
LoggerOnly  == Takes({"logger"}, NoHints)
FooIsString == [foo |-> {"str"}]

DummyDef ==
    [test_func |-> Takes({"foo"} \cup RESERVED_KEYWORDS, FooIsString),
     test_func_no_params |-> LoggerOnly,
     test_func_default_param |->
         [Takes({"logger", "foo"}, FooIsString) EXCEPT !.params["foo"].default = "str"],
     test_func_trigger_first |-> LoggerOnly,
     test_func_multi_trigger |-> LoggerOnly,
     test_func_trigger_error |-> LoggerOnly,
     return_foobar |-> AnyKwargs,
     test_kwargs_passed_to_default_path_include_all |-> Takes({"logger", "state"}, NoHints),
     test_kwargs_passed_to_default_path |-> Takes({"foo", "logger", "state"}, NoHints),
     throw_exception |-> AnyKwargs,
     throw_custom_exception |-> AnyKwargs,
     throw_custom_exception_continue |-> AnyKwargs,
     return_payload_throw_custom_exception |-> AnyKwargs,
     return_payload_throw_custom_exception_continue |-> AnyKwargs]

Raising(kind)      == [raises |-> kind, returns |-> "None", payloads |-> << >>]
Returning(value)   == [raises |-> "nothing", returns |-> value, payloads |-> << >>]
Emitting(payloads) == [raises |-> "nothing", returns |-> "Payloads", payloads |-> payloads]

Bare(path) == [target |-> path, kwargs |-> NoKwargs]

\* test_func asserts the name of the lambda; the next asks for foo, given or not.
DummyDoes ==
    [test_func |-> {Returning("value"), Raising("AssertionError")},
     test_kwargs_passed_to_default_path_include_all |->
         {Returning("None"), Raising("FailButContinue")},
     test_kwargs_passed_to_default_path |-> {Returning("None")},
     test_func_no_params |-> {Returning("value")},
     test_func_default_param |-> {Returning("value")},
     test_func_trigger_first |-> {Emitting(<< Bare("TEST_TRIGGER_SECOND") >>)},
     test_func_multi_trigger |->
         {Emitting(<< Bare("TEST_TRIGGER_SECOND"), Bare("TEST_TRIGGER_SECOND"),
                      [target |-> "kinesis", kwargs |-> [foo |-> "str"]] >>)},
     test_func_trigger_error |-> {Emitting(<< Bare("TEST_RAISE_CUSTOM_CONTINUE") >>)},
     return_foobar |-> {Returning("value")},
     throw_exception |-> {Raising("Exception")},
     throw_custom_exception |-> {Raising("FailCatastrophically")},
     throw_custom_exception_continue |-> {Raising("FailButContinue")},
     return_payload_throw_custom_exception |-> {Emitting(<< Bare("TEST_RAISE_CUSTOM") >>)},
     return_payload_throw_custom_exception_continue |->
         {Emitting(<< Bare("TEST_RAISE_CUSTOM_CONTINUE") >>)}]

Fn(f) == [kind |-> "function", f |-> f]
Run(f) == Action(<< f >>, << >>, << >>)
RunThen(f, path) == Action(<< f >>, << path >>, << >>)
Send(queue) == Action(<< >>, << >>, << queue >>)
Follow(path) == Action(<< >>, << path >>, << >>)
Requiring(from, to, action) == [action EXCEPT !.required = << << from, to >> >>]

DummyPaths ==
    [TEST_FUNC |-> << Run("test_func") >>,
     TEST_FUNC_EXPLICIT_PARAMS |-> << Requiring("foo", "foo", Run("test_func")) >>,
     TEST_FUNC_NO_PARAMS |-> << Run("test_func_no_params") >>,
     TEST_FUNC_BLANK_PARAMS |-> << Run("test_func_no_params") >>,
     TEST_PATH |-> << Requiring("foo", "foo", Follow("TEST_FUNC")) >>,
     TEST_FUNC_AND_PATH |-> << RunThen("test_func", "TEST_FUNC") >>,
     MULTI_TEST_FUNC |-> << Run("test_func"), RunThen("test_func", "TEST_FUNC"),
                            Follow("TEST_FUNC_BLANK_PARAMS") >>,
     MULTI_TEST_FUNC_NO_PARAMS |->
         << Run("test_func_no_params"),
            RunThen("test_func_no_params", "TEST_FUNC_BLANK_PARAMS"),
            Follow("TEST_FUNC_BLANK_PARAMS") >>,
     TEST_BARE_FUNCS |-> << Fn("test_func"), Fn("test_func_no_params") >>,
     TEST_RENAME_PARAM |-> << Requiring("bar", "foo", Run("test_func")) >>,
     TEST_KINESIS_QUEUE |-> << Requiring("uri", "uri", Send("kinesis")) >>,
     TEST_SQS_QUEUE |-> << Requiring("uri", "uri", Send("sqs")) >>,
     TEST_SQS_QUEUE_WITHOUT_PATH |-> << Requiring("uri", "uri", Send("sqs_without_path")) >>,
     TEST_FUNC_DEFAULT_PARAM |-> << Run("test_func_default_param") >>,
     TEST_SENTRY |-> << Run("throw_exception") >>,
     TEST_RET |-> << Run("return_foobar") >>,
     TEST_TRIGGER_FIRST |-> << Run("test_func_trigger_first") >>,
     TEST_TRIGGER_SECOND |-> << Run("return_foobar") >>,
     TEST_MULTI_TRIGGER |-> << Run("test_func_multi_trigger") >>,
     TEST_DEFAULT_PATH |-> << Run("test_kwargs_passed_to_default_path") >>,
     TEST_DEFAULT_PATH_INCLUDE_ALL |->
         << [Run("test_kwargs_passed_to_default_path_include_all")
                 EXCEPT !.include_all_params = TRUE] >>,
     TEST_TRIGGER_ERROR |-> << Fn("test_func_trigger_error") >>,
     TEST_RAISE |-> << Fn("throw_exception") >>,
     TEST_RAISE_CUSTOM |-> << Fn("throw_custom_exception") >>,
     TEST_RAISE_CUSTOM_CONTINUE |-> << Fn("throw_custom_exception_continue") >>,
     TEST_RETURN_PAYLOAD_RAISES |-> << Fn("return_payload_throw_custom_exception") >>,
     TEST_RETURN_PAYLOAD_RAISES_CONTINUE |->
         << Fn("return_payload_throw_custom_exception_continue") >>]

DummyPath == DOMAIN DummyPaths

\* process_event as the tests call it, with and without the enum.
Deployment(source, call, paths, enum, default) ==
    [source |-> source, call |-> call, paths |-> paths, enum |-> enum, default |-> default]

DummyDeployments ==
    {Deployment(by[1], {}, DummyPaths, by[2], default) :
        by \in {<< "SQS", DummyPath >>, << "RAW", {} >>},
        default \in {NoPath, "TEST_FUNC", "TEST_DEFAULT_PATH",
                     "TEST_DEFAULT_PATH_INCLUDE_ALL"}}

-----------------------------------------------------------------------------

Message(shape, path, kwargs) == [shape |-> shape, path |-> path, kwargs |-> kwargs]
Record(path, names) == Message("object", path, [k \in names |-> "str"])

\* A test: the default path, the records, and the number of successes.
Test(default, records, successes) ==
    [default |-> default, records |-> records, successes |-> successes]
Succeeds(path, names) == Test(NoPath, << Record(path, names) >>, 1)
Drops(path, names)    == Test(NoPath, << Record(path, names) >>, 0)

Tests ==
    {Test(NoPath, << >>, 0), Drops(NoPath, {}),
     Succeeds("TEST_FUNC", {"foo"}), Drops("TEST_FUNC", {}),
     Succeeds("TEST_FUNC_EXPLICIT_PARAMS", {"foo"}),
     Succeeds("TEST_FUNC_NO_PARAMS", {}), Succeeds("TEST_FUNC_BLANK_PARAMS", {}),
     Succeeds("TEST_PATH", {"foo"}), Succeeds("TEST_FUNC_AND_PATH", {"foo"}),
     Succeeds("MULTI_TEST_FUNC", {"foo"}), Succeeds("MULTI_TEST_FUNC_NO_PARAMS", {}),
     Succeeds("TEST_RENAME_PARAM", {"bar"}), Succeeds("TEST_KINESIS_QUEUE", {"uri"}),
     Succeeds("TEST_SQS_QUEUE", {"uri"}), Succeeds("TEST_SQS_QUEUE_WITHOUT_PATH", {"uri"}),
     Succeeds("TEST_FUNC_DEFAULT_PARAM", {}), Succeeds("TEST_FUNC_DEFAULT_PARAM", {"foo"}),
     Succeeds("TEST_RET", {}), Succeeds("TEST_TRIGGER_FIRST", {}),
     Succeeds("TEST_MULTI_TRIGGER", {"foo"}), Drops("TEST_TRIGGER_ERROR", {"foo"}),
     Test("TEST_FUNC", << Record(NoPath, {"foo"}) >>, 1),
     Test("TEST_FUNC", [i \in 1 .. 3 |-> Record(NoPath, {"foo"})], 3),
     Test("TEST_DEFAULT_PATH", << Record(NoPath, {"foo"}) >>, 1),
     Test("TEST_DEFAULT_PATH", << Record(NoPath, {"wiz"}) >>, 0)}

\* The paths whose tests expect the output ["foobar"].
GivesOutput == {"TEST_RET", "TEST_TRIGGER_FIRST"}

DummyEvents ==
    {[list |-> TRUE, records |-> t.records] : t \in Tests}
        \cup {[list |-> TRUE, records |-> << Record(path, {}), Record("TEST_RET", {}) >>] :
                 path \in {"TEST_SENTRY", "TEST_RAISE", "TEST_BARE_FUNCS",
                           "TEST_RAISE_CUSTOM", "TEST_RETURN_PAYLOAD_RAISES",
                           "TEST_RETURN_PAYLOAD_RAISES_CONTINUE"}}

(***************************************************************************)
(* tests/fixtures.py:11-127, tests/unit/test_pipeline.py:260-313: where an *)
(* invocation of the dummy lambda responds, its response is the one tested *)
(* for, whether or not the queues and test_func failed on the way, and     *)
(* whatever invocations came before it in the same container.              *)
(***************************************************************************)
ResponsesAsTested ==
    phase = "returned" /\ dep.paths = DummyPaths =>
        \A t \in Tests :
            t.default = dep.default /\ t.records = batch =>
                /\ stats = [received |-> Len(t.records), successes |-> t.successes]
                /\ \A i \in DOMAIN batch : batch[i].path \in GivesOutput => output[i] = "value"

=============================================================================
