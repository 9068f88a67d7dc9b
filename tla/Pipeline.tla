------------------------------ MODULE Pipeline ------------------------------
(***************************************************************************)
(* process_event of lpipe/pipeline.py and everything it calls to handle a  *)
(* batch of records: decoding and parsing a record, executing the Actions  *)
(* of its path, the functions of an Action, the Payloads functions return, *)
(* the paths and queues an Action fans out to, and the exception handlers  *)
(* on every level of that recursion.                                       *)
(*                                                                         *)
(* The Python call stack is the agenda: the work still to be done for the  *)
(* record, innermost first.  A call pushes items, a return pops one, and   *)
(* the item "leave_try" marks the try block around one function of an      *)
(* Action.  An exception in flight pops items until a handler is found.    *)
(***************************************************************************)
EXTENDS Signature, PutRecord, FiniteSets

CONSTANTS
    Path,           \* path names, defined or not
    MockAws,        \* is MOCK_AWS set?
    Deployments,    \* the ways process_event may be called, see IsDeployment
    Events,         \* the events it may be called with, see IsEvent
    Does,           \* Does[f]: what a call of function f may do, see IsOutcome
    HandlerRaises,  \* what the exception_handler itself may raise
    Attributes,     \* which attributes exist of those cleanup asks for
    MaxDepth        \* Python's recursion limit, in nested execute_payload calls

NoPath  == "no path"
NoQueue == "no queue"   \* a falsy value in the place of a Queue

(***************************************************************************)
(* The exceptions handlers tell apart: the two classes for flow control    *)
(* and their subclasses, another LPBaseException, AssertionError, and all  *)
(* the others.                                                             *)
(***************************************************************************)
LPBaseException == {"FailButContinue", "FailCatastrophically", "LPBaseException"}
Exception == LPBaseException \cup {"AssertionError", "Exception"}

EventSourceType == {"RAW", "KINESIS", "SQS"}

\* A Payload: where to, and with which arguments.  A target that is neither
\* a path of the enum nor a Queue does not survive validate.
IsPayload(p) ==
    /\ p.target \in Path \cup Queue
    /\ p.kwargs \in ArgMap \cup {NotADict}

IsList(s) == s \in Seq(Range(s))

\* What a function returns: a falsy value, a value, or Payloads to execute.
Return == {"None", "value", "Payloads"}

\* A call raises, or returns.
IsOutcome(o) ==
    /\ o.raises \in Exception \cup {"nothing"}
    /\ o.returns \in Return
    /\ IsList(o.payloads)
    /\ \A i \in DOMAIN o.payloads : IsPayload(o.payloads[i])

\* A path is a list whose entries are Actions or bare callables.  Nothing
\* checks that an Action's functions are functions, its paths defined and its
\* queues Queues.
IsEntry(e) ==
    \/ e.kind = "function" /\ e.f \in Func
    \/ /\ e.kind = "Action"
       /\ e.functions \in Seq(Func) /\ IsList(e.paths) /\ IsList(e.queues)

\* The keys of paths are members of the enum where one is given, so that call,
\* whose only path has a name of its own, goes without one.  To have no paths
\* is to be called without them.
IsDeployment(d) ==
    /\ d.call \subseteq Func /\ \A f, g \in d.call : f = g
    /\ DOMAIN d.paths \subseteq Path
    /\ \A p \in DOMAIN d.paths :
          /\ IsList(d.paths[p])
          /\ \A i \in DOMAIN d.paths[p] : IsEntry(d.paths[p][i])
    /\ d.enum \subseteq Path
    /\ d.default \in Path \cup {NoPath}
    /\ d.call # {} => d.enum = {}

(***************************************************************************)
(* shape is how the record decodes, path and kwargs what it then holds:    *)
(* kwargs is the whole object where the deployment has a default path.     *)
(* "text" is a string or a list, "listing" one that has "path" and         *)
(* "kwargs" in it, and "scalar" a number, a boolean or null.               *)
(***************************************************************************)
Shape == {"object", "text", "listing", "scalar",
          "bad_json", "untyped", "null", "incomplete"}

IsMessage(m) ==
    /\ m.shape \in Shape
    /\ m.path \in Path \cup {NoPath}
    /\ m.kwargs \in ArgMap \cup {NotADict}

IsEvent(e) ==
    /\ e.list \in BOOLEAN
    /\ IsList(e.records)
    /\ \A i \in DOMAIN e.records : IsMessage(e.records[i])

ASSUME PipelineAssumption ==
    /\ "AUTO_PATH" \in Path /\ NoPath \notin Path
    /\ Path \cap Queue = {} /\ NoQueue \notin Queue
    /\ MockAws \in BOOLEAN
    /\ MaxDepth \in Nat
    /\ HandlerRaises \subseteq Exception
    /\ \A d \in Deployments : IsDeployment(d)
    /\ \A e \in Events : IsEvent(e)
    /\ \A f \in Func : \A o \in Does[f] : IsOutcome(o)

VARIABLES
    dep,         \* how this lambda calls process_event
    batch,       \* the records of the event
    n,           \* n_records
    successful,  \* successful_records, by position
    exceptions,  \* _exceptions, by position
    output,      \* _output
    phase,       \* "next" between records, "run" within one, or how it ended
    agenda,      \* the call stack below process_event, innermost item first
    ret,         \* the ret of the innermost call
    exc,         \* the exception in flight, or that ended the invocation
    deleted,     \* records cleanup deleted from the invoking queue
    stats,       \* the "stats" of the response
    raised       \* history: which kinds of exception were raised for a record

vars == <<dep, batch, n, successful, exceptions, output, phase, agenda, ret, exc,
          urls, deleted, stats, raised>>

\* What no step within a record touches.
loop == <<dep, batch, n, successful, exceptions, output, deleted, stats>>

PE == INSTANCE ProcessEvent WITH
          Sizes <- {Len(e.records) : e \in Events},
          size  <- Len(batch),
          phase <- IF phase = "run" THEN "busy" ELSE phase

Ended == PE!Ended

NoException == [kind |-> "nothing", origin |-> "nowhere"]

-----------------------------------------------------------------------------
(* The deployment after the setup of process_event and its normalisation.  *)

\* process_event(call=f) defines one path of its own and makes it the default.
\* What is no FunctionType is ignored.
Calls == \E f \in dep.call : Def[f].isFunction

Callable == [kind |-> "function", f |-> CHOOSE f \in dep.call : Def[f].isFunction]

Paths == IF Calls THEN [p \in {"AUTO_PATH"} |-> << Callable >>] ELSE dep.paths

DefaultPath == IF Calls THEN "AUTO_PATH" ELSE dep.default

\* Without a path_enum one is generated from the names of the paths.
Enum == IF dep.enum = {} THEN DOMAIN Paths ELSE dep.enum

\* The last is generate_enum(None), an AttributeError.
Misconfigured ==
    \/ dep.source \notin EventSourceType
    \/ Calls /\ DOMAIN dep.paths # {}
    \/ ~Calls /\ dep.enum = {} /\ DOMAIN dep.paths = {}

\* normalize_actions: a list of functions, builtins not among them, is one
\* Action of them.
NormalizedActions(entries) ==
    IF \A i \in DOMAIN entries :
           entries[i].kind = "function" /\ Def[entries[i].f].isFunction
    THEN << Action([i \in DOMAIN entries |-> entries[i].f], << >>, << >>) >>
    ELSE entries

-----------------------------------------------------------------------------
(* The agenda and its items.                                               *)

ParseRecord(record) == [do |-> "parse_record", record |-> record, depth |-> 0]

ExecutePayload(target, kwargs, depth) ==
    [do |-> "execute_payload", target |-> target, kwargs |-> kwargs, depth |-> depth]

ExecuteAction(action, kwargs, depth) ==
    [do |-> "execute_action", action |-> action, kwargs |-> kwargs, depth |-> depth]

CallFunction(action, f, kwargs, depth) ==
    [do |-> "call_function", action |-> action, f |-> f, kwargs |-> kwargs, depth |-> depth]

FanOut(action, kwargs, depth) ==
    [do |-> "fan_out", action |-> action, kwargs |-> kwargs, depth |-> depth]

\* before: the ret that execute_action falls back on if the try is left by
\* an exception.
LeaveTry(before, depth) == [do |-> "leave_try", before |-> before, depth |-> depth]

Top  == Head(agenda)
Rest == Tail(agenda)

Reached(do) ==
    /\ phase = "run" /\ exc = NoException
    /\ agenda # << >> /\ Top.do = do

Proceed(items, newRet) ==
    /\ agenda' = items \o Rest
    /\ ret' = newRet
    /\ UNCHANGED <<loop, phase, exc, raised>>

Raise(kind, origin, items) ==
    /\ agenda' = items \o Rest
    /\ exc' = [kind |-> kind, origin |-> origin]
    /\ raised' = raised \cup {<<n, kind>>}
    /\ UNCHANGED <<loop, phase, ret>>

-----------------------------------------------------------------------------
(* process_event, up to the first record.                                  *)

\* Mutant: successful_records is a mutable default, shared by invocations.
StartSharing(records, newPhase) ==
    /\ phase \in Ended
    /\ batch' = records
    /\ n' = 0 /\ exceptions' = {} /\ output' = << >>
    /\ deleted' = {} /\ stats' = PE!NoStats /\ raised' = {}
    /\ phase' = newPhase
    /\ agenda' = << >> /\ ret' = "None"
    /\ exc' = NoException
    /\ UNCHANGED <<dep, urls, successful>>

Start(records, newPhase) ==
    /\ phase \in Ended
    /\ batch' = records
    /\ n' = 0 /\ successful' = {} /\ exceptions' = {} /\ output' = << >>
    /\ deleted' = {} /\ stats' = PE!NoStats /\ raised' = {}
    /\ phase' = newPhase
    /\ agenda' = << >> /\ ret' = "None"
    /\ exc' = NoException
    /\ UNCHANGED <<dep, urls>>

Invoke(event) ==
    /\ ~Misconfigured /\ event.list
    /\ Start(event.records, "next")

\* An exception of the setup, or parse_event's InvalidPayloadError for an event
\* whose records are not a list, which no handler is for.
Refuse(event) == (Misconfigured \/ ~event.list) /\ Start(<< >>, "escaped")

\* How an exception that reached the outer try ends the invocation.
Outermost(kind) == IF kind = "AssertionError" THEN "emptied" ELSE "escaped"

\* get_payload_from_record and the handlers it passes within parse_event.
DecodeError(shape) ==
    IF shape \in {"bad_json", "untyped"} THEN "FailButContinue"
    ELSE IF shape = "null" THEN "AssertionError"
    ELSE IF shape = "incomplete" THEN "Exception"
    ELSE "nothing"

Upcoming == batch[n + 1]

Take ==
    /\ phase = "next" /\ n < Len(batch)
    /\ DecodeError(Upcoming.shape) = "nothing"
    /\ n' = n + 1
    /\ phase' = "run"
    /\ agenda' = << ParseRecord(Upcoming) >>
    /\ ret' = "None"
    /\ UNCHANGED <<dep, batch, successful, exceptions, output, exc, urls, deleted,
                   stats, raised>>

\* The generator raises in the head of the for loop, outside the inner try.
Undecodable ==
    /\ phase = "next" /\ n < Len(batch)
    /\ DecodeError(Upcoming.shape) # "nothing"
    /\ exc' = [kind |-> DecodeError(Upcoming.shape), origin |-> "decoding"]
    /\ phase' = Outermost(exc'.kind)
    /\ UNCHANGED <<loop, agenda, ret, urls, raised>>

-----------------------------------------------------------------------------
(* parse_record and execute_payload.                                       *)

PathOf(record) == IF DefaultPath = NoPath THEN record.path ELSE DefaultPath

Parsed(record) ==
    /\ DefaultPath = NoPath => record.shape = "object" /\ record.path # NoPath
    /\ PathOf(record) \in Enum

ParseToPayload ==
    /\ Reached("parse_record") /\ Parsed(Top.record)
    /\ Proceed(<< ExecutePayload(PathOf(Top.record), Top.record.kwargs, 1) >>, ret)
    /\ UNCHANGED urls

\* "path" in a number is a TypeError, and so is ["path"] of what is no object
\* but passed that test; what fails the test is an InvalidPayloadError.
NoObject == {"scalar", "listing"}

FailToParse ==
    /\ Reached("parse_record") /\ ~Parsed(Top.record)
    /\ Raise(IF DefaultPath = NoPath /\ Top.record.shape \in NoObject
             THEN "Exception" ELSE "FailButContinue", "parse_record", << >>)
    /\ UNCHANGED urls

Executing(targets) ==
    /\ Reached("execute_payload") /\ Top.target \in targets
    /\ Top.depth <= MaxDepth

ExecutePath ==
    /\ Executing(DOMAIN Paths) /\ Paths[Top.target] # << >>
    /\ LET actions == NormalizedActions(Paths[Top.target])
       IN  Proceed([i \in DOMAIN actions |->
                       ExecuteAction(actions[i], Top.kwargs, Top.depth)], "None")
    /\ UNCHANGED urls

\* Action() asserts that it has something to do.
EmptyPath ==
    /\ Executing(DOMAIN Paths) /\ Paths[Top.target] = << >>
    /\ Raise("AssertionError", "execute_payload", << >>)
    /\ UNCHANGED urls

\* The enum has the path, state.paths has not: a KeyError.
UndefinedPath ==
    /\ Executing(Path \ DOMAIN Paths)
    /\ Raise("Exception", "state.paths", << >>)
    /\ UNCHANGED urls

\* A RecursionError, or the InvalidPathError that normalize_path makes of it.
RecursionLimit ==
    /\ Reached("execute_payload") /\ Top.depth > MaxDepth
    /\ \E kind \in {"Exception", "FailButContinue"} :
          Raise(kind, "execute_payload", << >>)
    /\ UNCHANGED urls

Put ==
    /\ Executing(Queue)
    /\ PutReturns(Top.target, MockAws)
    /\ Proceed(<< >>, "None")

PutFails ==
    /\ Executing(Queue)
    /\ \E kind \in Exception : /\ Raise(kind, "put_record", << >>)
                              /\ PutRaises(Top.target, kind, MockAws)

-----------------------------------------------------------------------------
(* execute_action, its functions and what they return.                     *)

AcceptAction ==
    /\ Reached("execute_action")
    /\ Top.action.kind = "Action" /\ Accepts(Top.action, Top.kwargs)
    /\ LET kwargs == ActionKwargs(Top.action, Top.kwargs)
       IN  Proceed([i \in DOMAIN Top.action.functions |->
                       CallFunction(Top.action, Top.action.functions[i], kwargs, Top.depth)]
                   \o << FanOut(Top.action, kwargs, Top.depth) >>, "None")
    /\ UNCHANGED urls

RejectAction ==
    /\ Reached("execute_action")
    /\ Top.action.kind = "Action" /\ ~Accepts(Top.action, Top.kwargs)
    /\ Raise("FailButContinue", "execute_action", << >>)
    /\ UNCHANGED urls

\* A list that is not of functions only is not normalised: the assertion.
NotAnAction ==
    /\ Reached("execute_action") /\ Top.action.kind # "Action"
    /\ Raise("AssertionError", "execute_action", << >>)
    /\ UNCHANGED urls

NotAFunction ==
    /\ Reached("call_function") /\ ~Def[Top.f].isFunction
    /\ Raise("AssertionError", "execute_action", << >>)
    /\ UNCHANGED urls

CallFails ==
    /\ Reached("call_function") /\ Def[Top.f].isFunction
    /\ ~Binds(Top.f, Top.kwargs)
    /\ Raise("Exception", "function", << LeaveTry(ret, Top.depth) >>)
    /\ UNCHANGED urls

Calling(outcome) ==
    /\ Reached("call_function") /\ Def[Top.f].isFunction
    /\ Binds(Top.f, Top.kwargs)
    /\ outcome \in Does[Top.f]

FunctionRaises(outcome) ==
    /\ Calling(outcome) /\ outcome.raises # "nothing"
    /\ Raise(outcome.raises, "function", << LeaveTry(ret, Top.depth) >>)
    /\ UNCHANGED urls

\* return_handler validates every Payload before it executes the first.
Extracts(payloads) == \A i \in DOMAIN payloads : payloads[i].target \in Enum \cup Queue

\* Mutant: return_handler is called after the try block.
FunctionReturnsUnguarded(outcome) ==
    /\ Calling(outcome) /\ outcome.raises = "nothing" /\ Extracts(outcome.payloads)
    /\ Proceed(<< LeaveTry(outcome.returns, Top.depth) >>
                  \o [i \in DOMAIN outcome.payloads |->
                         ExecutePayload(outcome.payloads[i].target,
                                        outcome.payloads[i].kwargs, Top.depth + 1)],
               outcome.returns)
    /\ UNCHANGED urls

\* Mutant: Payloads are kept for the end of the record.
FunctionReturnsLast(outcome) ==
    /\ Calling(outcome) /\ outcome.raises = "nothing" /\ Extracts(outcome.payloads)
    /\ agenda' = << LeaveTry(outcome.returns, Top.depth) >> \o Rest
                    \o [i \in DOMAIN outcome.payloads |->
                           ExecutePayload(outcome.payloads[i].target,
                                          outcome.payloads[i].kwargs, Top.depth + 1)]
    /\ ret' = outcome.returns
    /\ UNCHANGED <<loop, phase, exc, raised, urls>>

FunctionReturns(outcome) ==
    /\ Calling(outcome) /\ outcome.raises = "nothing" /\ Extracts(outcome.payloads)
    /\ Proceed([i \in DOMAIN outcome.payloads |->
                   ExecutePayload(outcome.payloads[i].target, outcome.payloads[i].kwargs,
                                  Top.depth + 1)]
               \o << LeaveTry(outcome.returns, Top.depth) >>, outcome.returns)
    /\ UNCHANGED urls

ReturnsInvalid(outcome) ==
    /\ Calling(outcome) /\ outcome.raises = "nothing" /\ ~Extracts(outcome.payloads)
    /\ Raise("FailButContinue", "function", << LeaveTry(outcome.returns, Top.depth) >>)
    /\ UNCHANGED urls

\* Mutant: what the nested execute_payload returned is not kept.
EndTryForgetting ==
    Reached("leave_try") /\ Proceed(<< >>, Top.before) /\ UNCHANGED urls

EndTry == Reached("leave_try") /\ Proceed(<< >>, ret) /\ UNCHANGED urls

\* Mutant: an Action's paths are executed in its place, not within it.
PassOnInPlace ==
    /\ Reached("fan_out") /\ Range(Top.action.paths) \subseteq Enum
    /\ LET targets == Top.action.paths \o Top.action.queues
       IN  Proceed([i \in DOMAIN targets |->
                       ExecutePayload(targets[i], Top.kwargs, Top.depth)], ret)
    /\ UNCHANGED urls

\* Both lists are made into Payloads, and validated, before one is executed.
PassOn ==
    /\ Reached("fan_out")
    /\ Range(Top.action.paths) \subseteq Enum /\ Range(Top.action.queues) \subseteq Queue
    /\ LET targets == Top.action.paths \o Top.action.queues
       IN  Proceed([i \in DOMAIN targets |->
                       ExecutePayload(targets[i], Top.kwargs, Top.depth + 1)], ret)
    /\ UNCHANGED urls

\* The first of the queues that is no Queue is a falsy value.
MissesQueue(queues) ==
    \E i \in DOMAIN queues :
        queues[i] = NoQueue /\ \A j \in 1 .. i - 1 : queues[j] \in Queue

\* InvalidPathError of normalize_path, or InvalidPayloadError of Payload().
PassOnFails ==
    /\ Reached("fan_out")
    /\ ~(Range(Top.action.paths) \subseteq Enum) \/ MissesQueue(Top.action.queues)
    /\ Raise("FailButContinue", "execute_action", << >>)
    /\ UNCHANGED urls

\* The assertion in Payload.validate, which nothing makes another exception of.
PassOnToNoQueue ==
    /\ Reached("fan_out") /\ Range(Top.action.paths) \subseteq Enum
    /\ ~(Range(Top.action.queues) \subseteq Queue) /\ ~MissesQueue(Top.action.queues)
    /\ Raise("AssertionError", "execute_action", << >>)
    /\ UNCHANGED urls

-----------------------------------------------------------------------------
(* An exception in flight: the try around a function, then the record's.   *)

Unwinding == phase = "run" /\ exc # NoException /\ agenda # << >>

\* Mutant: the clause that lets LPBaseExceptions pass is missing.
AtHandlerOfAll == Top.do = "leave_try"

\* Mutant: the handler is for one class of error only.
AtHandlerOfAssertions == Top.do = "leave_try" /\ exc.kind = "AssertionError"

AtHandler == Top.do = "leave_try" /\ exc.kind \notin LPBaseException

Unwind ==
    /\ Unwinding /\ ~AtHandler
    /\ agenda' = Rest
    /\ UNCHANGED <<loop, phase, ret, exc, urls, raised>>

\* Mutant: the except clause returns from execute_action.
SwallowReturning ==
    /\ Unwinding /\ AtHandler
    /\ \E i \in DOMAIN agenda :
          /\ agenda[i].do = "fan_out" /\ \A j \in 1 .. i - 1 : agenda[j].do # "fan_out"
          /\ agenda' = SubSeq(agenda, i + 1, Len(agenda))
    /\ ret' = Top.before
    /\ exc' = NoException
    /\ UNCHANGED <<loop, phase, urls, raised>>

\* "except Exception": logged, and the Action goes on with its next function.
Swallow ==
    /\ Unwinding /\ AtHandler
    /\ agenda' = Rest
    /\ ret' = Top.before
    /\ exc' = NoException
    /\ UNCHANGED <<loop, phase, urls, raised>>

\* log_exception's exception_handler raises within that except clause.
SwallowFails ==
    /\ Unwinding /\ AtHandler
    /\ \E kind \in HandlerRaises : Raise(kind, "exception_handler", << >>)
    /\ UNCHANGED urls

\* The record's try block is reached: by a return or by an exception.
AtRecord(kinds) == phase = "run" /\ agenda = << >> /\ exc.kind \in kinds

Settle(newSuccessful, newExceptions, newOutput) ==
    /\ successful' = newSuccessful
    /\ exceptions' = newExceptions
    /\ output' = newOutput
    /\ phase' = "next"
    /\ exc' = NoException
    /\ UNCHANGED <<dep, batch, n, agenda, ret, urls, deleted, stats, raised>>

Succeed ==
    /\ AtRecord({"nothing"})
    /\ Settle(successful \cup {n}, exceptions, Append(output, ret))

\* Mutant: successful_records.append in a finally clause.
DropRecordFinally ==
    /\ AtRecord({"FailButContinue"})
    /\ Settle(successful \cup {n}, exceptions, output)

\* Mutant: the continue is missing.
DropRecordWithOutput ==
    /\ AtRecord({"FailButContinue"})
    /\ Settle(successful, exceptions, Append(output, ret))

\* Mutant: a dropped record is tried again.
DropRecordRetried ==
    /\ AtRecord({"FailButContinue"})
    /\ n' = n - 1
    /\ phase' = "next"
    /\ exc' = NoException
    /\ UNCHANGED <<dep, batch, successful, exceptions, output, agenda, ret, urls,
                   deleted, stats, raised>>

\* Mutant: the clause is for all other errors as well.
DropRecordAnyway ==
    /\ AtRecord({"FailButContinue", "LPBaseException", "Exception"})
    /\ Settle(successful, exceptions, output)

DropRecord ==
    /\ AtRecord({"FailButContinue"})
    /\ Settle(successful, exceptions, output)

\* Mutant: the record is counted before its failure is.
FailRecordCounted ==
    /\ AtRecord({"FailCatastrophically"})
    /\ Settle(successful \cup {n}, exceptions \cup {n}, Append(output, "None"))

\* Mutant: the failure is raised at once, not at the end of the batch.
FailRecordAtOnce ==
    /\ AtRecord({"FailCatastrophically"})
    /\ exceptions' = exceptions \cup {n}
    /\ phase' = "raised"
    /\ UNCHANGED <<dep, batch, n, successful, output, agenda, ret, exc, urls, deleted,
                   stats, raised>>

FailRecord ==
    /\ AtRecord({"FailCatastrophically"})
    /\ Settle(successful, exceptions \cup {n}, Append(output, "None"))

EscapeRecord ==
    /\ AtRecord({"LPBaseException", "AssertionError", "Exception"})
    /\ phase' = Outermost(exc.kind)
    /\ UNCHANGED <<loop, agenda, ret, exc, urls, raised>>

\* The exception_handler raises within one of the record's except clauses.
HandlerFailsOnRecord ==
    /\ AtRecord({"FailButContinue", "FailCatastrophically"})
    /\ \E kind \in HandlerRaises :
          /\ exc' = [kind |-> kind, origin |-> "exception_handler"]
          /\ phase' = Outermost(kind)
    /\ UNCHANGED <<loop, agenda, ret, urls, raised>>

-----------------------------------------------------------------------------
(* The end of the batch.                                                   *)

Respond ==
    /\ phase = "next" /\ n = Len(batch)
    /\ stats' = [received |-> n, successes |-> Cardinality(successful)]
    /\ UNCHANGED <<dep, batch, n, successful, exceptions, output, agenda, ret, exc,
                   urls, raised>>

Finish == Respond /\ exceptions = {} /\ phase' = "returned" /\ UNCHANGED deleted

\* advanced_cleanup: the second is no function of lpipe/contrib/sqs.py, the
\* others are asked of the keys of "messages", which are strings.  An
\* AttributeError is logged as a warning, and nothing is deleted.
CleanupAsksFor == {"sqs.get_queue_url", "sqs.batch_delete_messages",
                   "str.message_id", "str.receipt_handle"}

CleanedUp ==
    IF dep.source = "SQS" /\ CleanupAsksFor \subseteq Attributes THEN successful ELSE {}

FinishFailed ==
    /\ Respond /\ exceptions # {}
    /\ deleted' = CleanedUp
    /\ phase' = "raised"

\* A timeout or the end of the container: its memory is lost.
Kill ==
    /\ phase \in {"next", "run"}
    /\ phase' = "killed"
    /\ agenda' = << >> /\ exc' = NoException /\ ret' = "None"
    /\ urls' = {}
    /\ UNCHANGED <<loop, raised>>

Init ==
    /\ dep \in Deployments
    /\ batch = << >> /\ n = 0 /\ successful = {} /\ exceptions = {} /\ output = << >>
    /\ phase = "idle"
    /\ agenda = << >> /\ ret = "None" /\ exc = NoException
    /\ urls = {} /\ deleted = {} /\ stats = PE!NoStats /\ raised = {}

Payloads == ExecutePath \/ EmptyPath \/ UndefinedPath \/ RecursionLimit
                \/ Put \/ PutFails

Functions ==
    \/ AcceptAction \/ RejectAction \/ NotAnAction
    \/ NotAFunction \/ CallFails
    \/ \E f \in Func : \E outcome \in Does[f] :
          FunctionRaises(outcome) \/ FunctionReturns(outcome) \/ ReturnsInvalid(outcome)
    \/ EndTry \/ PassOn \/ PassOnFails \/ PassOnToNoQueue

Handlers == Unwind \/ Swallow \/ SwallowFails

Work ==
    \/ Take \/ Undecodable \/ ParseToPayload \/ FailToParse
    \/ Payloads \/ Functions \/ Handlers
    \/ Succeed \/ DropRecord \/ FailRecord \/ EscapeRecord \/ HandlerFailsOnRecord
    \/ Finish \/ FinishFailed

Next ==
    \/ \E event \in Events : Invoke(event) \/ Refuse(event)
    \/ Work
    \/ Kill

\* A running lambda goes on until it ends; nobody has to invoke it, or kill it.
Spec == Init /\ [][Next]_vars /\ WF_vars(Work)

-----------------------------------------------------------------------------
(* Properties.                                                             *)

IsItem(item) ==
    /\ item.do \in {"parse_record", "execute_payload", "execute_action", "call_function",
                   "fan_out", "leave_try"}
    /\ item.depth \in 0 .. MaxDepth + 1
    /\ item.do = "parse_record" => item.depth = 0
    /\ item.do # "execute_payload" => item.depth <= MaxDepth
    /\ item.do \in {"execute_action", "call_function", "fan_out"} => IsEntry(item.action)
    /\ item.do \in {"call_function", "fan_out"} => item.action.kind = "Action"
    /\ item.do = "leave_try" => item.before \in Return

IsStack(items) == IsList(items) /\ \A i \in DOMAIN items : IsItem(items[i])

TypeOK ==
    /\ dep \in Deployments
    /\ batch \in {e.records : e \in Events} \cup {<< >>}
    /\ PE!TypeOK
    /\ output \in Seq(Return)
    /\ ret \in Return
    /\ exc.kind \in Exception \cup {"nothing"}
    /\ urls \subseteq Queue
    /\ raised \subseteq (1 .. n) \X Exception
    /\ IsStack(agenda)
    /\ phase # "run" => agenda = << >>

OneVerdict == PE!OneVerdict

(***************************************************************************)
(* pipeline.py:196-203, through the handlers of 310-319 and 367-369:       *)
(* whenever anything raises FailCatastrophically for a record, however     *)
(* deep in functions, returned Payloads and fan-out, no handler on the way *)
(* loses it: once the record is done, it is among the failed ones.         *)
(***************************************************************************)
CatastropheRecorded ==
    phase \in {"next", "returned", "raised"} =>
        \A i \in 1 .. n : <<i, "FailCatastrophically">> \in raised => i \in exceptions

(***************************************************************************)
(* pipeline.py:182-186: a record counted as successful, and so a candidate *)
(* for deletion from the invoking queue, met no exception of the library's *)
(* flow control on any level.                                              *)
(***************************************************************************)
SuccessIsClean ==
    \A i \in successful : \A kind \in LPBaseException : <<i, kind>> \notin raised

(***************************************************************************)
(* pipeline.py:315-319 and README.md:154: an error of a user's function    *)
(* that does not inherit from LPBaseException never ends the invocation,   *)
(* be it raised by the function or by the binding of its arguments.        *)
(***************************************************************************)
UserErrorsContained ==
    phase \in {"escaped", "emptied"} /\ exc.origin = "function" =>
        exc.kind = "LPBaseException"

(***************************************************************************)
(* pipeline.py:172-204: of every record the loop is done with, also when   *)
(* the invocation was cut short after it (an error that escapes, an        *)
(* exception_handler that raises, the response (0, 0), the end of the      *)
(* container): it is kept as failed exactly if some FailCatastrophically   *)
(* was raised for it, on whatever level, and it has no verdict exactly if  *)
(* some FailButContinue was.  No record is failed, or passed over, for     *)
(* anything else, and no other exception takes the place of these two.     *)
(***************************************************************************)
VerdictsHaveReasons ==
    \A i \in 1 .. n : i < n \/ phase \in {"next", "returned", "raised"} =>
        /\ i \in exceptions <=> <<i, "FailCatastrophically">> \in raised
        /\ i \notin successful \cup exceptions <=> <<i, "FailButContinue">> \in raised

\* The Actions of a path.
ActionsOf(p) == Range(NormalizedActions(Paths[p]))

\* The steps from a path to what its Actions pass on to, and from a path to
\* what the Payloads are for that its functions may return.
PassesOn ==
    {step \in (DOMAIN Paths) \X (Enum \cup Queue) :
        \E action \in ActionsOf(step[1]) :
            action.kind = "Action" /\ step[2] \in Range(action.paths) \cup Range(action.queues)}

Returns ==
    {step \in (DOMAIN Paths) \X (Enum \cup Queue) :
        \E action \in ActionsOf(step[1]) :
            /\ action.kind = "Action"
            /\ \E f \in Range(action.functions) : \E outcome \in Does[f] :
                  \E i \in DOMAIN outcome.payloads : step[2] = outcome.payloads[i].target}

Nodes(steps) == {PathOf(batch[n])} \cup {step[2] : step \in steps}

\* A chain of such steps, of this length, from the current record's own path.
Chain(steps, target, depth) ==
    \E chain \in [1 .. depth -> Nodes(steps)] :
        /\ chain[1] = PathOf(batch[n]) /\ chain[depth] = target
        /\ \A i \in 1 .. depth - 1 : <<chain[i], chain[i + 1]>> \in steps

\* What the record's path passes on to within the recursion limit.  Payloads
\* that functions return are left out: what becomes of them happens within
\* the try block around the function.
Passed == {t \in Nodes(PassesOn) : \E depth \in 1 .. MaxDepth : Chain(PassesOn, t, depth)}

\* With them, it is all that may be executed for the record.
Executable(p) == \E depth \in 1 .. MaxDepth : Chain(PassesOn \cup Returns, p, depth)

(***************************************************************************)
(* What can end an invocation early, by where it is raised.                *)
(***************************************************************************)
RecordIsUndecodable ==
    /\ exc.origin = "decoding" /\ n < Len(batch)
    /\ exc.kind = DecodeError(Upcoming.shape) /\ exc.kind # "nothing"

HandlerIsBroken == exc.origin = "exception_handler" /\ exc.kind \in HandlerRaises

RecordIsNoObject ==
    /\ exc.origin = "parse_record" /\ exc.kind = "Exception" /\ n > 0
    /\ DefaultPath = NoPath /\ batch[n].shape \in NoObject

PathIsMissing ==
    /\ exc.origin = "state.paths" /\ exc.kind = "Exception"
    /\ \E p \in Passed \cap Enum : p \notin DOMAIN Paths

PathIsEmpty ==
    /\ exc.origin = "execute_payload" /\ exc.kind = "AssertionError"
    /\ \E p \in Passed \cap DOMAIN Paths : Paths[p] = << >>

RecursionIsTooDeep ==
    /\ exc.origin = "execute_payload" /\ exc.kind = "Exception"
    /\ \E target \in Nodes(PassesOn) : Chain(PassesOn, target, MaxDepth + 1)

ActionIsMalformed ==
    /\ exc.origin = "execute_action" /\ exc.kind = "AssertionError"
    /\ \E p \in Passed \cap DOMAIN Paths : \E action \in ActionsOf(p) :
          \/ action.kind # "Action"
          \/ ~Inferred(action) /\ \E f \in Range(action.functions) : ~Def[f].isFunction
          \/ ~(Range(action.queues) \subseteq Queue)

QueueIsUnavailable ==
    /\ exc.origin = "put_record" /\ exc.kind \in ServiceError
    /\ \E q \in Passed \cap Queue : QueueType[q] # "SQS" \/ q \notin HasUrl

FunctionGivesUp ==
    /\ exc.origin = "function" /\ exc.kind = "LPBaseException"
    /\ \E p \in DOMAIN Paths :
          /\ \E action \in ActionsOf(p) :
                /\ action.kind = "Action"
                /\ \E f \in Range(action.functions) : \E outcome \in Does[f] :
                      outcome.raises = "LPBaseException"
          /\ Executable(p)

\* The faults of a deployment, and all.
DeploymentFault ==
    \/ PathIsMissing \/ PathIsEmpty \/ RecursionIsTooDeep \/ ActionIsMalformed
    \/ QueueIsUnavailable \/ FunctionGivesUp

Cause == RecordIsUndecodable \/ HandlerIsBroken \/ RecordIsNoObject \/ DeploymentFault

(***************************************************************************)
(* pipeline.py:166-207: what ends an invocation once its records were      *)
(* found, before the end of the batch, and so costs the records that were  *)
(* not tried, is always one of a few faults: a record that does not decode *)
(* or is no object, the exception_handler, something that the record's own *)
(* path passes on to within the recursion limit (an undefined path, an     *)
(* empty one, an Action that is none, has a function that is none or a     *)
(* queue that is none, a queue whose service fails, a chain longer than    *)
(* that limit), or a function that may be executed for the record and      *)
(* raises LPBaseException itself.  Nothing else that a message, a Payload  *)
(* or a function does ends it: whatever comes of the Payloads a function   *)
(* returns is swallowed around that function.                              *)
(***************************************************************************)
EndsForACause == phase \in {"escaped", "emptied"} /\ exc # NoException => Cause

(***************************************************************************)
(* pipeline.py:281-308: a function waiting to be called for an Action      *)
(* without required_params still has arguments that its own hints allow,   *)
(* whatever was executed since they were selected.  If it takes **kwargs,  *)
(* it can be called with them unless a required parameter of it is called  *)
(* "args" or "kwargs", which validate does not miss (signature.py:82), and *)
(* is not among them: then the call fails.                                 *)
(***************************************************************************)
ArgumentsFit ==
    \A i \in DOMAIN agenda :
        agenda[i].do = "call_function" /\ Inferred(agenda[i].action) =>
            LET f      == agenda[i].f
                kwargs == agenda[i].kwargs
            IN  /\ \A p \in DOMAIN Def[f].params \cap DOMAIN TypeHints(f) :
                      p \in DOMAIN kwargs => kwargs[p] \in TypeHints(f)[p]
                /\ TakesAnyKeyword(f) =>
                      (Binds(f, kwargs) <=> HiddenNames(f) \subseteq DOMAIN kwargs)

(***************************************************************************)
(* README.md:77 and pipeline.py:338-339,363-366: the Payloads a function   *)
(* returns, and all they lead to, are executed before anything that was    *)
(* waiting when the function was called.                                   *)
(***************************************************************************)
DeeperFirst ==
    \A i, j \in DOMAIN agenda : i <= j => agenda[i].depth >= agenda[j].depth

(***************************************************************************)
(* pipeline.py:195,204,220: the output has one entry for every record that *)
(* was not dropped, so that a response without failures has as many        *)
(* entries as successes, whatever was swallowed on the way.                *)
(***************************************************************************)
OutputPerVerdict ==
    Len(output) = Cardinality(successful) + Cardinality(exceptions)

\* How much may still come of an item: it only leads to items of lower rank.
Rank(item) ==
    4 * (MaxDepth + 1 - item.depth)
        + (IF item.do = "execute_payload" THEN 3
           ELSE IF item.do = "execute_action" THEN 2
           ELSE IF item.do \in {"call_function", "fan_out"} THEN 1
           ELSE 0)

(***************************************************************************)
(* pipeline.py:225-370: each step within a record takes the innermost item *)
(* from the stack and puts there, at most, items of lower rank: though     *)
(* paths may lead back to themselves, and functions return any Payloads,   *)
(* there is no way to go on forever within the recursion limit.            *)
(***************************************************************************)
WorkDescends ==
    [][phase = "run" /\ phase' = "run" =>
        \E k \in 0 .. Len(agenda') :
            /\ SubSeq(agenda', k + 1, Len(agenda')) = Rest
            /\ \A i \in 1 .. k : Rank(agenda'[i]) < Rank(Top)]_vars

(***************************************************************************)
(* pipeline.py:105-222: whatever paths lead to each other and whatever     *)
(* their functions do, every invocation comes to an end.                   *)
(***************************************************************************)
EveryInvocationEnds == phase \in {"next", "run"} ~> phase \in Ended

\* Pipeline does what ProcessEvent promises.
ProcessEventSpec == PE!Spec

-----------------------------------------------------------------------------
(* What the documentation says and the code does not do: each is violated. *)

(***************************************************************************)
(* README.md:145,150 and pipeline.py:188-193: a malformed message raises   *)
(* InvalidPayloadError, a FailButContinue, and the batch continues.        *)
(***************************************************************************)
InvalidPayloadsAreDropped ==
    phase \in {"escaped", "emptied"} /\ batch # << >> => exc.kind # "FailButContinue"

(***************************************************************************)
(* README.md:149: a path that was not defined raises InvalidPathError, a   *)
(* FailButContinue, which drops the record and leaves the batch alone.     *)
(***************************************************************************)
UndefinedPathsAreDropped ==
    phase \in {"escaped", "emptied"} => exc.origin # "state.paths"

(***************************************************************************)
(* README.md:123: a record that failed makes the invocation raise.         *)
(***************************************************************************)
FailedRecordsRaise == phase \in {"returned", "emptied"} => exceptions = {}

(***************************************************************************)
(* README.md:154: any error that is neither FailButContinue nor            *)
(* FailCatastrophically is logged and costs its own record only.  Stated   *)
(* of the errors of functions and of the queues an Action passes on to.    *)
(***************************************************************************)
OtherErrorsAreDropped ==
    phase \in {"escaped", "emptied"} /\ exc.origin \in {"function", "put_record"} =>
        exc.kind \in {"FailButContinue", "FailCatastrophically"}

(***************************************************************************)
(* README.md:122: when a batch with failures has ended, its successful     *)
(* records are deleted from the invoking queue.                            *)
(***************************************************************************)
SuccessfulRecordsDeleted ==
    phase = "raised" /\ dep.source = "SQS" => deleted = successful

=============================================================================
