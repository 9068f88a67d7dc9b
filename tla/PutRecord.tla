----------------------------- MODULE PutRecord -----------------------------
(***************************************************************************)
(* What put_record of lpipe/pipeline.py promises its caller: which         *)
(* exceptions it may raise, and what it remembers of the url of a queue.   *)
(* Pipeline is built on this promise, QueueClient is shown to keep it.     *)
(***************************************************************************)
CONSTANTS
    Queue,          \* the queues Actions and Payloads refer to
    QueueType,      \* QueueType[q] is "SQS" or "KINESIS"
    HasUrl          \* the queues declared with a url

ASSUME PutRecordAssumption ==
    /\ QueueType \in [Queue -> {"SQS", "KINESIS"}]
    /\ HasUrl \subseteq Queue

VARIABLE urls       \* the queues whose url was resolved in this container

\* What a call of an AWS service raises: ClientError, or check_status.
ServiceError == {"AssertionError", "Exception"}

\* An SQS queue without a url is looked up, and once found keeps its url.
LooksUp(q) == QueueType[q] = "SQS" /\ q \notin HasUrl \cup urls

\* A look-up that MOCK_AWS stands in for finds nothing.
Resolved(q, mock) ==
    urls' \in IF ~LooksUp(q) THEN {urls}
              ELSE IF mock THEN {urls, urls \cup {q}} ELSE {urls \cup {q}}

SendError(q) == IF QueueType[q] = "SQS" THEN {"FailCatastrophically"} ELSE ServiceError

PutReturns(q, mock) == Resolved(q, mock)

PutRaises(q, kind, mock) ==
    \/ LooksUp(q) /\ kind \in ServiceError /\ UNCHANGED urls
    \/ kind \in SendError(q) /\ Resolved(q, mock)

=============================================================================
