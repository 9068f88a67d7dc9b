---------------------------- MODULE QueueClient ----------------------------
(***************************************************************************)
(* How lpipe hands messages to SQS and Kinesis: put_record of              *)
(* lpipe/pipeline.py, batch_put_messages of contrib/sqs.py and             *)
(* batch_put_records of contrib/kinesis.py, with utils.batch, utils.call   *)
(* and check_status under them and mock_sqs and mock_kinesis around them.  *)
(*                                                                         *)
(* AWS is outside: it accepts a request, refuses some of its entries in an *)
(* answer that succeeds, or fails, then possibly after it has accepted.    *)
(* Messages are known by their position in the call's list.                *)
(***************************************************************************)
EXTENDS Integers, Sequences, FiniteSets

CONSTANTS
    Queue, QueueType, HasUrl,  \* as in PutRecord
    Message,   \* contents of messages
    Lists,     \* the lists of messages batch_put_* are called with
    Sizes,     \* the batch_size they are called with
    Limit,     \* Limit[t]: the most entries AWS takes in one request
    MockAws    \* the values MOCK_AWS takes

ASSUME QueueClientAssumption ==
    /\ QueueType \in [Queue -> {"SQS", "KINESIS"}]
    /\ HasUrl \subseteq Queue
    /\ Lists \subseteq Seq(Message)
    /\ Sizes \subseteq Int
    /\ Limit \in [{"SQS", "KINESIS"} -> Nat \ {0}]

VARIABLES
    mockAws,    \* MOCK_AWS, "" where it is not set
    debug,      \* is the root logger enabled for DEBUG?
    urls,       \* the queues whose url was resolved
    before,     \* history: urls when the call began
    op,         \* "put" for put_record, "batch" for batch_put_*
    queue,      \* the queue or stream of the call
    messages,   \* its messages
    size,       \* its batch_size
    phase,      \* "lookup" and "send" within a call, "idle" between calls
    at,         \* ndx of utils.batch
    requests,   \* history: the batches handed to AWS, as intervals of positions
    accepted,   \* AWS: the positions it accepted
    refused,    \* AWS: those it refused in an answer that succeeded
    result      \* how the call ended

call == <<op, queue, messages, size, before>>
aws  == <<requests, accepted, refused>>
environment == <<mockAws, debug>>
vars == <<environment, urls, call, phase, at, aws, result>>

PR == INSTANCE PutRecord

Type == QueueType[queue]

\* Not cast to a boolean: every string but the empty one, "False" included.
Mocking == mockAws # ""

\* What a request may raise: one of the four exceptions of botocore that
\* MOCK_AWS stands in for, or another.
Botocore == "botocore"
RequestError == {Botocore, "Exception"}

\* What an answer holds at ResponseMetadata, HTTPStatusCode.
Response == {"2xx", "other status", "falsy", "missing"}

\* Mutant: an answer without a status passes.
CheckStatusLax(response) ==
    IF response = "other status" THEN "AssertionError"
    ELSE IF response = "missing" THEN "Exception" ELSE "ok"

\* get_nested returns what is falsy on the way, which // does not take.
CheckStatus(response) ==
    IF response = "other status" THEN "AssertionError"
    ELSE IF response \in {"missing", "falsy"} THEN "Exception" ELSE "ok"

\* What mock_sqs and mock_kinesis make of it.  The debug method of the root
\* logger, when enabled, takes no "function" and no "params".
Mock(kind) == IF kind = Botocore /\ Mocking /\ ~debug THEN "None" ELSE "Exception"

-----------------------------------------------------------------------------
(* The calls.                                                              *)

Begin(what, q, l, n) ==
    /\ phase = "idle"
    /\ op' = what /\ queue' = q /\ messages' = l /\ size' = n /\ before' = urls
    /\ at' = 0 /\ requests' = << >> /\ accepted' = {} /\ refused' = {}
    /\ result' = "none yet"
    /\ UNCHANGED <<environment, urls>>

\* Mutant: every queue without a url is looked up.
PutRecordAny(q, m) ==
    /\ Begin("put", q, << m >>, Limit[QueueType[q]])
    /\ phase' = IF q \notin HasUrl \cup urls THEN "lookup" ELSE "send"

PutRecord(q, m) ==
    /\ Begin("put", q, << m >>, Limit[QueueType[q]])
    /\ phase' = IF PR!LooksUp(q) THEN "lookup" ELSE "send"

\* The caller has the url, or the name of the stream.
BatchPut(q, l, n) ==
    /\ Begin("batch", q, l, n)
    /\ phase' = "send"

End(outcome) == phase' = "idle" /\ result' = outcome

\* put_record wraps what the sending to SQS raises, not what the look-up does.
Raised(kind) ==
    IF op = "put" /\ Type = "SQS" THEN "FailCatastrophically" ELSE kind

\* Between calls the environment and the logger may be set.
Configure(value, level) ==
    /\ phase = "idle"
    /\ mockAws' = value /\ debug' = level /\ result' = "none yet"
    /\ UNCHANGED <<urls, call, phase, at, aws>>

-----------------------------------------------------------------------------
(* get_queue_url.                                                          *)

LookUp(response) ==
    /\ phase = "lookup"
    /\ IF CheckStatus(response) = "ok"
       THEN urls' = urls \cup {queue} /\ phase' = "send" /\ UNCHANGED result
       ELSE End(CheckStatus(response)) /\ UNCHANGED urls
    /\ UNCHANGED <<environment, call, at, aws>>

\* Mutant: the look-up is within the try.
LookUpFailsWrapped(kind) ==
    /\ phase = "lookup"
    /\ IF Mock(kind) = "None" THEN phase' = "send" /\ UNCHANGED result
       ELSE End("FailCatastrophically")
    /\ UNCHANGED <<environment, urls, call, at, aws>>

\* A mocked look-up returns None, and put_record goes on with it.
LookUpFails(kind) ==
    /\ phase = "lookup"
    /\ IF Mock(kind) = "None" THEN phase' = "send" /\ UNCHANGED result
       ELSE End(Mock(kind))
    /\ UNCHANGED <<environment, urls, call, at, aws>>

-----------------------------------------------------------------------------
(* batch_put_messages and batch_put_records.                               *)

\* The assertion, which mock_sqs lets through, and range with a step of 0.
TooLarge == op = "batch" /\ Type = "SQS" /\ size > Limit["SQS"]

BadSize ==
    /\ phase = "send"
    /\ \/ TooLarge /\ End("AssertionError")
       \/ size = 0 /\ End("Exception")
    /\ UNCHANGED <<environment, urls, call, at, aws>>

\* boto3 has no region to make a client for, or fails otherwise.
NoClient(kind) ==
    /\ phase = "send" /\ requests = << >> /\ ~TooLarge
    /\ End(IF Mock(kind) = "None" THEN "None" ELSE Raised(Mock(kind)))
    /\ UNCHANGED <<environment, urls, call, at, aws>>

Sending == phase = "send" /\ ~TooLarge /\ size # 0

\* A negative size makes the range empty.
More == size > 0 /\ at < Len(messages)

Smaller(i, j) == IF i < j THEN i ELSE j

\* Mutant: the last index is taken for the end of the list.
BatchShort == [from |-> at + 1, to |-> Smaller(at + size, Len(messages) - 1)]

Batch == [from |-> at + 1, to |-> Smaller(at + size, Len(messages))]

In(b) == b.from .. b.to

(***************************************************************************)
(* AWS, or botocore before it, takes no request without a queue, with too  *)
(* many entries, or whose entries do not have an Id each: the Id of an SQS *)
(* entry is the hash of its content.                                       *)
(***************************************************************************)
Takes ==
    /\ op = "put" /\ Type = "SQS" => queue \in HasUrl \cup urls
    /\ Cardinality(In(Batch)) <= Limit[Type]
    /\ Type = "SQS" => \A i, j \in In(Batch) : messages[i] = messages[j] => i = j

\* AWS takes every entry, or refuses some in an answer that succeeds; an
\* answer with another status says nothing of what was accepted.
Answers(response) ==
    \E some \in SUBSET In(Batch) :
       /\ accepted' = accepted \cup some
       /\ refused' = IF response = "2xx" THEN refused \cup (In(Batch) \ some) ELSE refused

Send(response) ==
    /\ Sending /\ More /\ Takes
    /\ requests' = Append(requests, Batch)
    /\ Answers(response)
    /\ IF CheckStatus(response) = "ok"
       THEN at' = at + size /\ UNCHANGED <<phase, result>>
       ELSE End(Raised(CheckStatus(response))) /\ UNCHANGED at
    /\ UNCHANGED <<environment, urls, call>>

\* No answer: the request may yet have been accepted, unless it was refused.
SendFails(kind) ==
    /\ Sending /\ More /\ (~Takes => kind = Botocore)
    /\ requests' = Append(requests, Batch)
    /\ accepted' \in {accepted} \cup (IF kind = Botocore THEN {} ELSE {accepted \cup In(Batch)})
    /\ End(IF Mock(kind) = "None" THEN "None" ELSE Raised(Mock(kind)))
    /\ UNCHANGED <<environment, urls, call, at, refused>>

Return ==
    /\ Sending /\ ~More
    /\ End("responses")
    /\ UNCHANGED <<environment, urls, call, at, aws>>

-----------------------------------------------------------------------------

Init ==
    /\ mockAws \in MockAws /\ debug \in BOOLEAN /\ urls = {} /\ before = {}
    /\ op = "none" /\ queue \in Queue /\ messages = << >> /\ size = 0
    /\ phase = "idle" /\ at = 0
    /\ requests = << >> /\ accepted = {} /\ refused = {}
    /\ result = "none yet"

Next ==
    \/ \E q \in Queue, m \in Message : PutRecord(q, m)
    \/ \E q \in Queue, l \in Lists, n \in Sizes : BatchPut(q, l, n)
    \/ \E value \in MockAws, level \in BOOLEAN : Configure(value, level)
    \/ \E response \in Response : LookUp(response) \/ Send(response)
    \/ \E kind \in RequestError : LookUpFails(kind) \/ NoClient(kind) \/ SendFails(kind)
    \/ BadSize \/ Return

Spec == Init /\ [][Next]_vars

-----------------------------------------------------------------------------

Exception == {"AssertionError", "Exception", "FailCatastrophically"}

LookedUp == {q \in Queue \ HasUrl : QueueType[q] = "SQS"}

TypeOK ==
    /\ mockAws \in MockAws /\ debug \in BOOLEAN
    /\ urls \subseteq LookedUp
    /\ op \in {"none", "put", "batch"} /\ queue \in Queue
    /\ messages \in Seq(Message) /\ size \in Int /\ before \subseteq urls
    /\ phase \in {"idle", "send"} \/ (phase = "lookup" /\ queue \in LookedUp)
    /\ at \in Nat
    /\ requests \in Seq([from : Nat \ {0}, to : Nat])
    /\ accepted \subseteq DOMAIN messages /\ refused \subseteq DOMAIN messages
    /\ result \in {"none yet", "responses", "None"} \cup Exception

(***************************************************************************)
(* utils.py:17-25, sqs.py:54, kinesis.py:46: the batches follow each other *)
(* in the order of the messages, without gap and without overlap, none is  *)
(* empty or larger than batch_size, and a call that returns answers has    *)
(* handed over every message, unless its batch_size was negative.          *)
(***************************************************************************)
EachOnceInOrder ==
    /\ \A i \in DOMAIN requests :
          LET b == requests[i] IN
          /\ b.from = (IF i = 1 THEN 0 ELSE requests[i - 1].to) + 1
          /\ b.from <= b.to /\ b.to < b.from + size /\ b.to <= Len(messages)
    /\ result = "responses" /\ size > 0 /\ messages # << >> =>
          requests # << >> /\ requests[Len(requests)].to = Len(messages)

(***************************************************************************)
(* utils.py:66-86, sqs.py:24-41, kinesis.py:20-37: the answers a call      *)
(* returns tell of every one of its messages either that AWS accepted it   *)
(* or that it was refused; only with a negative batch_size (utils.py:24)   *)
(* they tell of none, and AWS was asked for none.  However a call ends,    *)
(* the same is known of every message of its batches but the last.  None   *)
(* is returned only under MOCK_AWS.                                        *)
(***************************************************************************)
FailureIsTold ==
    /\ result = "responses" =>
          accepted \cup refused = (IF size > 0 THEN DOMAIN messages ELSE {})
    /\ \A i \in 1 .. Len(requests) - 1 : In(requests[i]) \subseteq accepted \cup refused
    /\ accepted \cap refused = {}
    /\ result = "None" => Mocking

(***************************************************************************)
(* pipeline.py:533-544: whatever a call of put_record met on its way, it   *)
(* ends in one of the ways Pipeline takes it to end, and has remembered    *)
(* the url Pipeline takes it to remember; nothing else remembers one.      *)
(***************************************************************************)
Began == INSTANCE PutRecord WITH urls <- IF phase = "idle" THEN urls ELSE before

PutKeepsPromise ==
    [][IF op = "put" /\ phase # "idle" /\ phase' = "idle"
       THEN IF result' \in Exception
            THEN Began!PutRaises(queue, result', Mocking)
            ELSE Began!PutReturns(queue, Mocking)
       ELSE UNCHANGED (IF phase = "idle" THEN urls ELSE before)]_vars

=============================================================================
