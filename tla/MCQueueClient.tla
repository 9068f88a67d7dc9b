--------------------------- MODULE MCQueueClient ---------------------------
(* A queue to look up, one with a url and a stream; lists with and without   *)
(* equal messages, longer than two batches; sizes on both sides of AWS's     *)
(* limits and of 0.                                                          *)
EXTENDS QueueClient

MCQueueType == [sqs |-> "SQS", sqs_url |-> "SQS", kinesis |-> "KINESIS"]

MCLists == {<< >>, <<"a", "b", "c", "d", "e">>, <<"a", "a", "b">>}

MCLimit == [SQS |-> 2, KINESIS |-> 3]

MCSizes == -1 .. 4

=============================================================================
