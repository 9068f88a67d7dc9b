# lpipe in TLA+

`lpipe` runs a batch of records that an AWS Lambda receives (from SQS, Kinesis or
a raw event) through a directed graph of *paths*. A path is a list of *Actions*;
an Action runs functions and passes its arguments on to further paths and queues;
a function may return *Payloads*, which are executed on the spot. Everything is
one synchronous recursion below `process_event`, and errors steer it: which
handler of which frame an exception meets decides whether a record is dropped, a
failure, a success, or the end of the whole batch. These modules model that
recursion, what it means for the queue the batch came from, the calls to AWS below
it and the context managers around it, check them with TLC and prove their main
properties with TLAPS.

Source references are to `src/`; `pipeline.py` stands for `src/lpipe/pipeline.py`.

## Inventory

| Component | State | Operations | What is hard | What makes it correct |
| - | - | - | - | - |
| `process_event` (pipeline.py:105-222) | `n_records`, `successful_records`, `_exceptions`, `_output` | one pass over the event, one verdict per record, response or raise at the end | failures of some records, of the decoding, of the exception handler | every record accounted for once; the way the call ends tells what happened |
| `parse_event`, `parse_record`, decoders (64-102, 480-530) | none (a generator) | decode, find path and arguments | raising inside a generator that a `for` drives | a bad record costs itself only |
| `execute_payload`, `execute_action`, `return_handler` (225-370) | the Python stack | recursion over paths, Actions, functions, returned Payloads, queues | exceptions through nested handlers, cyclic graphs, order | no FailCatastrophically lost, depth first, ends |
| `signature`, `build_kwargs`, `Action` | none | merge signatures and hints, validate, select arguments | one selection for several functions | hints hold for each function; accepted calls bind |
| `normalize`, `utils.get_enum_value` | none | spelling of path names, generated enums, bare functions into Actions | names that clash | two names, two paths |
| `put_record`, `Queue` (533-544) | `queue.url`, kept between invocations | look up a url, send | stale urls, partial failures | sent means sent |
| `contrib.sqs`, `contrib.kinesis`, `contrib.boto3` | none | batches of calls to AWS, mock decorators | partial failures in a 200 response, equal ids | as above |
| `contrib.sentry` | sentry's scope | init, scope, capture | no DSN configured | user code runs with and without |
| `contrib.mindictive` | none | `get_nested`, `set_nested` | falsy values on the way | agrees with a reference |
| `logging` | the bound structlog logger, `events` | bind, context enter and exit | nested contexts left by exceptions | a context restores what it found |
| `utils.set_env`, `batch`, `check_status` | `os.environ` | set and restore, cut into batches | nested uses, failure half-way | restores; every element once |

Interaction: `process_event` makes a `State` that every call below shares; the
recursion calls user functions, and user functions may return Payloads to it. The
queues an Action names are other lambdas' event sources. The only state that
outlives an invocation is what user modules hold: the Queue objects (with their
cached url), the paths, and the logger if one is passed in.

The hazards are listed in `PROJECT.json`, each at its line with the properties
that cover it, or with the reason why none does.

## Modules

| Module | Models | Correspondence |
| - | - | - |
| `ProcessEvent` | what `process_event` promises to its invoker | one action per step of the batch loop; the work of a record is not seen. Abstract specification |
| `Signature` | signature.py, `build_kwargs`, `build_action_kwargs`, Python's binding of a call | operators only; a value is its class, a hint the set of classes `isinstance` accepts |
| `ActionCalls` | one `execute_action` up to the last function | `Build`/`Reject`, then `Call` per function, `NotAFunction`, `FanOut` |
| `Pipeline` | `process_event` with everything it calls | see below |
| `PipelineHistory` | `Pipeline` with a history: what was executed for the record in work | `executed` grows by the item a step takes from the stack, where no function's `try` is around it |
| `PutRecord` | what `put_record` promises to `execute_payload` | which exceptions it raises and what it remembers of a url; no steps of its own. `Pipeline` extends it |
| `QueueClient` | `put_record`, contrib/sqs.py, contrib/kinesis.py, `utils.batch`, `call`, `check_status` | one call at a time, one action per request; shown to keep the promise of `PutRecord` |
| `Redrive` | several lambdas on one SQS queue | one `ProcessEvent` per worker, and the queue, the visibility timeout and the redrive policy of AWS |
| `Contexts` | `LPLogger.context`, `utils.set_env`, `sentry.scope` | a stack of open `with` statements; enter and leave, with and without an exception |
| `DummyLambda` | src/dummy_lambda, with the records of tests/fixtures.py | constants of `Pipeline`: functions, paths, deployments, events |
| `MC...` | instances for TLC | |
| `...Proofs` | theorems about the module of that name; `PipelineEndsProofs` is about `Pipeline` too | |

How they compose: `Pipeline` implements `ProcessEvent` and relies on `PutRecord`;
`QueueClient` implements `PutRecord`; `Redrive` puts workers that do what
`ProcessEvent` allows on a queue that redelivers. So the refinement checked and
proved for `Pipeline` is what justifies the workers of `Redrive`, and the one for
`QueueClient` is what justifies the actions `Put` and `PutFails` of `Pipeline`.

### Pipeline

The Python stack is the variable `agenda`: the work still to be done for the
current record, innermost first. An item is a call not yet made
(`parse_record`, `execute_payload`, `execute_action`, `call_function`), the end of
an Action (`fan_out`, pipeline.py:321-341), or the mark `leave_try` that ends the
`try` around one function (302-319). A call replaces the top item by the items it
leads to; `ret` is the return value in flight and `exc` the exception in flight.
An exception pops items (`Unwind`) until it meets a `leave_try` whose clauses
catch it (`Swallow`, which sets `ret` back to what the frame had) or the record's
own `try` (`Succeed`, `DropRecord`, `FailRecord`, `EscapeRecord`).

`exc.origin` records where an exception came from, and `raised` (a history
variable that no guard reads) which kinds were raised for which record.

What is abstracted: a record is how it decodes (`shape`), its path and its
arguments; an argument is the class of its value; a function is the set of
outcomes it may have (`Does`): an exception, a falsy value, a value, or a list of
Payloads. Logging is left out, except that `log_exception` may raise through the
`exception_handler` given to `process_event`. AWS is what
`PutRecord` says of it: nothing, a ClientError ("Exception") or the AssertionError of
`check_status`, or FailCatastrophically where `put_record` wraps them. The url of a
queue is looked up once per container (`urls`; under MOCK_AWS a look-up may return
None, and nothing is remembered), and `Kill` is the runtime ending the invocation
and losing the container's memory.

`PipelineHistory` adds `executed`, on which no action depends: the paths and queues for which
`execute_payload` did its work, and the functions that were tried, for the record in work. What
happens within the `try` of a function is left out, since the Payloads of a function whose error is
swallowed may be lost, as lines 315-319 want it.

`PE` is the refinement mapping: `size` is the length of the batch, and the phase
"run" is ProcessEvent's "busy"; all other variables have the same names.

### Signature

`TypeHints` adds NoneType to the hint of a parameter whose default is None, as
`typing.get_type_hints` does up to Python 3.10 (setup.py asks for 3.6 or later);
"return" is a name like any other there, and an important one (see Findings).
Where a record's arguments come with reserved names, `WithReserved` and the final
restriction of `ActionKwargs` do what lines 283-291 do.

### QueueClient

A call begins (`PutRecord`, `BatchPut`), looks up the url if it has to, and sends one
batch after the other. `Batch` is the slice that `utils.batch` yields at `at`, as an
interval of positions. AWS takes a request only if `Takes` holds: it has a queue,
no more entries than AWS allows, and, for SQS, an Id of its own for each entry,
which is the hash of its content. It then accepts the entries or refuses some in
an answer of status 200, or its answer has another status, a falsy value where the
status should be, or none; or a request raises, after it was accepted or
before. `mock_sqs` and `mock_kinesis` are `Mock`: under a non-empty MOCK_AWS four
exceptions of botocore become None, unless the root logger is at DEBUG, whose
`debug` takes no `function=`.

`PutKeepsPromise` looks at the end of each call of `put_record`: its result and the
urls it leaves must be allowed by `PutRecord`, started from the urls the call found.

### Redrive

`at` says where a message is: visible, in flight at a worker, deleted, or in the
dead-letter queue. A worker's other variables are those of `ProcessEvent`, one
instance per worker. An invocation that responds has its whole batch deleted, and
so has one that an AssertionError turned into the response (0, 0) (`Empty`); one
that raises, escapes or is killed has nothing deleted, except what
`advanced_cleanup` deletes (`FinishFailed` allows for nothing and for all of it). A
visibility timeout may end while the worker is still busy, and a delete with an
outdated receipt handle may or may not work.

### Contexts

`open` is the stack of open `with` statements. A frame of the logger holds what was
bound (`found`, which only properties read) and its context object; what the
object itself saved is `initial`, shared by all entries of the same object, since
`ContextDecorator` enters one object at every call of the decorated function. A
frame of `set_env` holds the saved values. Leaving is the same by return and by
exception; logs and bindings that raise are actions of their own.

`spoiled`, a history variable, is set by what the guarantees except: entering a
context object that is open, and a log of the context that raises. `forgotten` has
the variables a failed `set_env` deleted. Without these exceptions the properties
do not hold of the code, and with them they say exactly where its limits are.

### DummyLambda

The 27 paths of the example lambda, its functions with their signatures and what
they do, and 25 of the records that the tests send to them, with the number of
successes they expect. Two fixtures are left out: one with a path in lower case
(spelling is not modelled) and one equal to another.

## Runs

| Run | Instance | Shows |
| - | - | - |
| `pipeline` | seven deployments and 49 events; eight deployments of the dummy lambda and 31 more events; every event to every deployment | all invariants, and that Pipeline implements ProcessEvent |
| `redrive` | two messages, received together or alone, two lambdas, two receives | no message is lost, only invocations that handled it or were emptied remove one, the queue drains, workers do what ProcessEvent promises |
| `contexts` | two context objects, two variables, three environments, nested two deep | contexts restore what they found |
| `queue_client` | three queues, lists of up to five messages, sizes from -1 to 4 | each message once, failures told (of a negative size: nothing sent, nothing told), `put_record` keeps its promise |
| `pipeline_ends` | the same deployments, events of one or two records, with the history | every invocation ends; a success is complete |
| `action_calls` | all lists of at most two of eleven functions, three `required_params`, 19 payloads | what is validated for the union of the functions holds for each of them |
| the six others | as `pipeline`, `pipeline_ends` or `action_calls`, one property each | the findings below |

Properties of `pipeline`:

* `VerdictsHaveReasons`: of every record the loop is done with, also where the invocation
  was cut short after it, a failure is one for which a FailCatastrophically was raised on
  some level, a record without verdict one for which a FailButContinue was, and the
  other way round: neither is lost on its way out, turned into the other, or given for
  anything else.
* `OneVerdict`, `OutputPerVerdict`: no record is a success and a failure, and the
  output has one entry for each record that was not dropped.
* `CatastropheRecorded`: a FailCatastrophically raised anywhere for a record ends
  with the record among the failures, through all nested handlers.
* `SuccessIsClean`: a success met no exception of the library's flow control.
* `UserErrorsContained`: a function's error that is no LPBaseException never ends
  the invocation.
* `DeeperFirst`: what a function returns is executed before anything that waited.
* `EndsForACause`: what ends an invocation whose records were found, before the end of
  its batch, is one of nine faults (`Cause`): a record that does not decode
  (`RecordIsUndecodable`) or is no object (`RecordIsNoObject`), the `exception_handler`
  (`HandlerIsBroken`), something the record's own path passes on to within the recursion
  limit (`PathIsMissing`, `PathIsEmpty`, `RecursionIsTooDeep`, `ActionIsMalformed`,
  `QueueIsUnavailable`), or a function that may be executed for the record and raises
  LPBaseException itself (`FunctionGivesUp`). Nothing else that the Payloads of a function
  meet ends it, because the `try` around the function swallows that. Each fault names the
  record, path, queue or function that has it, so that a deployment without one excludes it.
* `ArgumentsFit`: a function waiting anywhere in the recursion, of an Action whose
  parameters are inferred, has arguments its own hints allow. If it takes `**kwargs`, they
  bind exactly if each of its required parameters called `args` or `kwargs`
  (`HiddenNames`) is among them: `Signature.validate` passes over parameters of these names
  (signature.py:82), so a missing one is accepted, and the call fails inside the
  function's `try`.
* `WorkDescends`: a step within a record replaces the innermost item by items of lower
  `Rank` or by none, although paths may lead back to themselves.
* `ResponsesAsTested`: the dummy lambda responds to the records of the tests as they
  expect, also where queues and functions fail on the way and after other
  invocations in the same container; the value a record ends with is carried
  through returned Payloads and nested Actions.
* `ProcessEventSpec`: refinement.
* `EveryInvocationEnds` (in `pipeline_ends`): liveness.
* `SuccessIsComplete` (in `pipeline_ends`): a record is counted as a success only after its
  path was executed, and with every path executed for it all functions, paths and queues
  of all its Actions, whichever functions failed and were skipped; and after nothing was
  executed that these do not ask for.

Properties of `action_calls`: `HintsEnforced` (no function sees an argument its own
hint excludes), `AcceptedCallBinds` (once the payload was accepted, the call of a function
that takes `**kwargs` binds exactly if no required parameter called `args` or `kwargs` is
without an argument), `InferredNeverAsserts` (the assertion
in the loop over functions is unreachable where parameters are inferred), and
`ValidatedOneByOne` (validating against the merge refuses a payload exactly when
validating against one function alone would, or when there is no merge).

Properties of `redrive`:

* `NothingLost`: a message is gone from the queue only if some delivery of it
  succeeded or dropped it, or if it was in a batch that an AssertionError emptied.
* `RemovedByItsInvocation`: the step that deletes a message is the end of an invocation it
  was delivered to, whatever its other deliveries came to. If that one responds, it had
  tried its whole batch and kept nothing as failed; if it raises, it had succeeded
  with the message. The exception is the response (0, 0), which removes the whole batch
  with what failed in it and what was not tried.
* `QueueDrains` (liveness): every message is deleted or set aside in the end.
* `WorkersProcessEvents`: refinement, for each worker.

Properties of `contexts`: `LoggerRestored` (leaving a context gives back what was bound
when it was entered), `LoggerIsThere` (the logger is never None), `NothingLeaks`
(outside of all blocks, bindings, variables and tags are those made outside).

Properties of `queue_client`: `EachOnceInOrder` (batches without gap or overlap, none
empty or too large, all messages handed over when a call returns), `FailureIsTold` (of
a call that returns answers, each message was accepted or is named as refused in one of
them, unless the `batch_size` is negative, where the call returns no answer at all and
hands nothing over; of one that raises, that holds for all but the last batch, and
nothing was sent after it), `PutKeepsPromise` (refinement). `FailureIsTold` is as far as
the client goes: the answers tell what was refused, and `execute_payload` does not read
them.

### Bounds, and why they are enough

* The deployments of `MCPipeline`: a graph with fan-out to a path and two queues;
  a graph with every odd path (cyclic, empty, mixing functions and Actions, with a
  builtin in an Action or as a bare entry, passing on to an unknown path or to queues that
  are no Queues, with a function that returns its own path); `call=` with a function and with
  a builtin; a default path that does not exist; and those that are refused (a builtin and
  no paths, paths together with `call=`, another event source). Each branch of
  the code is taken: TLC's coverage has every action firing.
* `MaxDepth` = 3 stands for Python's recursion limit. Three levels hold a function
  that returns a Payload for a path whose function does so again, so an exception
  meets two enclosing `try` blocks of functions.
* Batches of three records hold a success before and after each other verdict.
  Shapes (objects, strings and lists with and without both names in them, numbers, null,
  and what does not decode) are tried one at a time and the main ones in pairs.
* `HandlerRaises` holds one exception each outer handler treats differently.
* Signatures: two functions are enough for a conflict and for a hint that only
  one of them has; the eleven functions have hints and none, defaults and none,
  `**kwargs` under another name, a reserved name, and a required parameter called
  `kwargs` (that case is accepted and does not bind).

* `MaxReceives` = 2 with two messages and two workers: a message is redelivered alone
  or with another, to the same or another worker, while its first delivery is still
  in work or after it failed, and goes to the dead-letter queue after the second.
* `MaxOpen` = 2: an inner context of the same or another kind, of the same or another
  object. Deeper nesting repeats this; the theorems are for any depth.
* Lists of five with AWS's limits cut to 2 (SQS) and 3 (Kinesis): several batches, the
  last one shorter; sizes below, at and above the limit, 0, and negative; a list
  whose equal messages meet in one batch for some sizes only.

The theorems do not depend on these bounds.

### Fairness

`WF_vars(Work)`: a lambda that was started goes on. That is the Lambda runtime
running the thread; nothing is assumed of invokers (`Invoke` is not fair) or of
`Kill`. Deadlock is checked in Pipeline (an ended invocation can always be followed
by another one) and not in ActionCalls, which models one call that ends.

In `Redrive`, AWS keeps polling, visibility timeouts end and the redrive policy is
applied, which SQS and the event source mapping promise, and a worker that was
started goes on (`WF_vars(Work(w))`). Nothing is assumed about success: a message
that fails at every delivery drains by `DeadLetter`. Deadlock is not checked there,
since a drained queue stops. `QueueClient` and `Contexts` state no liveness: whether
AWS answers and whether a block is left is up to others.

## Findings

Each is a property that a document or a docstring states, checked by a run of its
own that finds it violated; `PROJECT.json` quotes the lines.

* `InvalidPayloadsAreDropped`: a record of invalid JSON raises in the generator
  `parse_event`, in the head of the `for`, where no handler of the loop is.
* `UndefinedPathsAreDropped`: a path in the enum and not in `paths` is a KeyError
  that ends the batch.
* `FailedRecordsRaise`: an AssertionError that leaves the loop turns the invocation
  into the response (0, 0) even if failures were recorded.
* `OtherErrorsAreDropped`: a bare LPBaseException of a function, or a service error of
  a queue an Action names, ends the batch.
* `SuccessfulRecordsDeleted`: the cleanup calls a function that does not exist.
* `OnlyParametersConflict`: return annotations are merged like parameters.

It is proved how far they go (see below): for every one but the cleanup a theorem says
under which conditions on a deployment the documented property does hold. For the cleanup
there is no such theorem: nothing is ever deleted while `contrib.sqs` lacks the function.

One more disagreement is noted here without a run: README.md:154 says of the record of a
function with any other error that it is "dropped". In the code that function is
skipped, the record's other functions and paths are executed, and it is counted as a
success; `SuccessIsComplete` says what such a success is worth. The call that does not bind, of
a function with a required `args` or `kwargs`, is one of these errors.

## Proofs

Assumptions: `SignatureAssumption`, `RequestsAssumption`, `PutRecordAssumption`,
`PipelineAssumption`, `HistoryAssumption`, `RedriveAssumption`, `ContextsAssumption` and `QueueClientAssumption`,
which say what type the constants have; TLC evaluates them in the runs. They hold what
Python or the code's own constructors give: hints are of parameters or of "return", which
as a keyword names no parameter; an Action's functions are a sequence of functions, and its
paths and queues are sequences. Nothing is assumed of the queues in them. `HistoryAssumption` is about the model only: a function is not called
like a path, so that `executed` can tell them apart. Otherwise nothing is assumed about which functions, paths, queues or
events there are, except by the five theorems on the findings, which state their
hypotheses.

`PipelineProofs` begins with lemmas about lists (mapping, concatenation, head and
tail) and about pushing on the agenda and popping from it, and then has

* `TypeCorrect`: `TypeOK` is inductive as it stands, because `IsItem` bounds the depth
  of an item by its kind.
* `CatastropheIsRecorded`, `SuccessesAreClean`, `EachHasOneVerdict`: from `FlowInv`. None
  of them is inductive alone: they need that the record in work has no verdict yet
  (`Undecided`), that an exception of the library's flow control which was raised for
  it is still the one in flight (`StillInFlight`), and that every earlier record with a
  FailCatastrophically is among the failures (`Recorded`). Lemma `RunningStep`
  reduces the twenty-two actions within a record to two kinds, `Raising` and
  `Proceeding`, so that the argument is made twice and not twenty-two times.
* `UserErrorsAreContained`: from `ContainedInv`, by which an exception of origin
  "function" that is no LPBaseException always has its `leave_try` on top.
* `ImplementsProcessEvent`: every step within a record is a stutter, every step of the
  loop is one of ProcessEvent's.
* `VerdictsAreJustified`, from `VerdictInv` and `FlowInv`: an exception in flight is one that was
  raised for the record in work (`VerdictInv`), and one of the library's flow control that
  was raised for it is the one in flight (`StillInFlight`), so that the handler which settles
  the record sees all there is to see.
* `OutputMatchesVerdicts`: inductive with `TypeOK` and `FlowInv`; it counts with the library's
  theorems on finite sets.
* `DeepestFirst`: every action pushes a list that does not rise and does not go below its
  own depth (`Below`).
* `WorkAlwaysDescends`: an item of a greater depth has a lower rank, whatever it is
  (`DeeperRanksLower`), and so has a later stage on the same depth (`LaterRanksLower`). Since
  the stack shrinks or its innermost item is replaced by lower ones, this is the variant
  by which a record's work ends; that `EveryInvocationEnds` follows by fairness is left
  to TLC.

`PipelineEndsProofs` proves what comes of every item of the stack:

* `ArgumentsAlwaysFit`, from `DeployedInv`: every item's Action is one of the deployment,
  and the arguments of a function on the stack are what its Action selected from
  arguments that it accepted. The lemmas of `SignatureProofs` do the rest.
* `EndsOnlyForACause`, from `DeployedInv`, `ChainInv` and `FlightInv`. Every item is about a path or
  queue to which a chain of `PassesOn` and `Returns` leads from the record's own path in as
  many steps as the item is deep (`Linked`, in `DeployedInv`), and an item that no `leave_try`
  is below is reached by `PassesOn` alone (`ChainInv`). An
  exception in flight ends with its record, or has a `leave_try` below it that
  swallows it, or has a cause already (`FlightInv`).
* The limits of the findings, from `EndsOnlyForACause`:
  `UndefinedPathsWithoutEnum` (no path is undefined where `path_enum` has no names that
  `paths` lacks), `InvalidPayloadsOnceDecoded` (where every message decodes to an object, or to a string
  or list without both names in it, and the `exception_handler` does not raise, no
  message ends its batch by its own path or arguments: what ends it is a `DeploymentFault`),
  `OtherErrorsOfPlainFunctions` (so do all other errors, if functions raise no bare
  LPBaseException and queues are SQS queues with their urls),
  `FailuresRaiseWithoutAssertions` (failed records raise, if nothing can raise an
  AssertionError: no JSON null, no empty path, functions that are functions, queues that are
  Queues, and the like). What lpipe's own README.md says is true of those deployments, and
  the runs show a counterexample outside of them.

`PipelineHistoryProofs` proves what a success is worth:

* `SuccessesAreComplete`, from `CompleteInv`. `SuccessIsComplete` speaks of the last step of a
  record and is not inductive. What is: as long as nothing that ends the record is in flight
  (`Doomed`), the record's own path and all parts of all Actions of the executed paths are
  executed or on the stack below every `leave_try` (`Owes`, as an item of their own or within a
  `fan_out` or the functions still to be called), and what is executed or there was asked for
  (`Sound`). A step inside the `try` of a function changes nothing below it
  (`GuardedComplete`), not even by an exception, since `Swallow` stops there; outside of it a
  step either settles its item and pushes what that leads to, or raises an exception that no
  handler of a function is left to catch. When a record succeeds the stack is empty, and
  nothing is owed (`NothingOwed`).
* `SuccessesReachAll`: so all that the record's path passes on to, in any number of steps, was
  executed, by a least counterexample along the chain with the library's well-founded orders.

`SignatureProofs` has the lemmas on the operators of `Signature` that both components use.
`MergedAgrees` (where maps agree, their merge contains each of them) is the heart of
it: what is accepted for the merge is allowed by each function's own hints and binds.

`ActionCallsProofs` proves the five properties of `ActionCalls`. `SelectedInv` says that what
functions are called with is still what was validated. `ValidationIsOneByOne` is the
exact form of the merge's purpose, in both directions. `OnlyReturnsConflictToo` is the
limit of the sixth finding: where functions agree in their return annotations
(`ReturnsAgree`), only parameters conflict.
`ActionCallsTypeCorrect` shows that what `build_action_kwargs` selects is a mapping of names
to values in each of its cases; where `required_params` name one target several times, the
last pair decides, and lemma `LastOf` of `SignatureProofs` finds it by the library's theorems on well-founded
orders.

`RedriveProofs` proves the safety properties of `Redrive` for any number of messages and
workers. The inductive part is that a worker's `successful` and `exceptions` are
positions it has tried and disjoint, and that every tried position is among the
failures or its message is `settled`; a delivery then deletes settled messages only,
whoever holds them by now.

`ContextsProofs` proves the four properties of `Contexts` for stacks of any depth, each from
an invariant about the outermost frame of its kind: the outermost scope found no tags
(`ScopeInv`); the outermost `set_env` of a variable saved what amounts to its value outside
(`EnvInv`); and while nothing is spoiled, the open context objects differ, each has
saved what its frame found, and the outermost found what was bound outside (`LoggerInv`).
Inner frames need no more, because a frame that is left makes the one below it innermost
and changes nothing else.

`QueueClientProofs` proves the four properties of `QueueClient` for lists, sizes and limits
of any value: the batches sent so far end at `at` (`Progress`), each but the last was
told (`Told`), and a call of `put_record` in work is in a state from which `PutRecord`
allows its every end (`Promise`).

Model-checked only: `EveryInvocationEnds` and `QueueDrains` (liveness under fairness and
ENABLED are outside the prover), `ResponsesAsTested` (which is about the dummy lambda on the
records of the tests, not about every deployment), and the findings, which are
counterexamples.

## Not modelled

* `testing`, packaging, docs/conf.py: pure formatting, or no part of the program.
* `lambda_handler` of the dummy lambda: it passes `queue_type=`, which `process_event`
  does not take, so that every call is a TypeError. The tests call `process_event`
  themselves, and so does `DummyLambda`.
* The spelling of path names (`get_enum_value`, `generate_enum`): names are model values.
* `contrib.boto3`: parsing AWS_ENDPOINTS and the choice of the endpoint. That no client can
  be made is `NoClient`.
* `sqs.get_queue_arn`, `sqs.delete_message_batch`, `mindictive.set_nested`, `Action.copy`: no
  code of lpipe calls them. The first two are one `utils.call` each.
* `sentry.init` and `sentry.capture`: calls of sentry_sdk.
* `LPLogger.persist`, `events` and levels: what is logged is not modelled, except that a log
  may raise.
* Consumers of the queues an Action names: a message that AWS accepted and whose answer
  was lost is sent again with the record's next delivery.
* Functions with positional-only parameters, forward references in hints that do
  not resolve, hints that `isinstance` raises on, tuples of `required_params` that are not
  pairs, an Action whose `functions` or `paths` are no lists, and a deployment that gives
  string keys together with a `path_enum`.
* A `SystemExit` or `KeyboardInterrupt` that a function raises: no handler takes it, so that
  the invocation ends as by `Kill`. Errors of the logging calls themselves: apart from
  `log_exception`, a log is taken not to raise.

## Plan

1. Done: `ProcessEvent`, `Signature`, `ActionCalls`, `Pipeline`, `PipelineHistory`, `PutRecord`, `QueueClient`,
   `Redrive`, `Contexts`, `DummyLambda`, their runs and theorems.
2. Worth adding: path names as sequences of parts, with `generate_enum` and `get_enum_value`
   over keys that clash; and `Redrive` with two queues, so that a record's Payloads are
   another lambda's messages.
