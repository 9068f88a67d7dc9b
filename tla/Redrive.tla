------------------------------ MODULE Redrive ------------------------------
(***************************************************************************)
(* Several lambdas that take batches from one SQS queue and hand them to   *)
(* process_event.  A message is on the queue until somebody deletes it:    *)
(* the Lambda runtime deletes the whole batch of an invocation that        *)
(* responds, and nothing of one that raises or is killed; what is not      *)
(* deleted is delivered again when its visibility timeout is over, and is  *)
(* set aside by the redrive policy when it was received too often.         *)
(*                                                                         *)
(* Each worker does what ProcessEvent allows.  The queue, the runtime and  *)
(* the redrive policy are AWS's; lpipe relies on them: "trigger redrive".  *)
(***************************************************************************)
EXTENDS Naturals, Sequences, FiniteSets, Functions

CONSTANTS
    Message,
    Worker,         \* the containers of the lambda
    Batches,        \* the batches of messages that may be received together
    MaxReceives     \* maxReceiveCount of the redrive policy

ASSUME RedriveAssumption ==
    /\ MaxReceives \in Nat
    /\ \A b \in Batches : b \in Seq(Message) /\ IsInjective(b)
    /\ Worker \cap {"visible", "dead", "deleted"} = {}

VARIABLES
    at,          \* where a message is: a worker it is in flight at, or below
    receives,    \* how often it was received
    batch,       \* the batch of a worker's current or last invocation
    n,           \* from here to deleted: as in ProcessEvent, for each worker
    successful,
    exceptions,
    phase,
    deleted,
    settled,     \* history: messages that succeeded or were dropped once
    emptied      \* history: messages of a batch that was answered (0, 0)

queue   == <<at, receives>>
history == <<settled, emptied>>
vars    == <<at, receives, batch, n, successful, exceptions, phase, deleted,
             settled, emptied>>

Place == {"visible", "dead", "deleted"} \cup Worker

PE(w) == INSTANCE ProcessEvent WITH
             Sizes      <- {Len(b) : b \in Batches},
             size       <- Len(batch[w]),
             n          <- n[w],
             successful <- successful[w],
             exceptions <- exceptions[w],
             phase      <- phase[w],
             deleted    <- deleted[w],
             stats      <- IF phase[w] \in {"returned", "raised"}
                           THEN [received |-> n[w], successes |-> Cardinality(successful[w])]
                           ELSE [received |-> 0, successes |-> 0]

Ended   == {"idle", "returned", "emptied", "raised", "escaped", "killed"}
Running == {"next", "busy"}

Init ==
    /\ at = [m \in Message |-> "visible"]
    /\ receives = [m \in Message |-> 0]
    /\ batch = [w \in Worker |-> << >>]
    /\ n = [w \in Worker |-> 0]
    /\ successful = [w \in Worker |-> {}]
    /\ exceptions = [w \in Worker |-> {}]
    /\ phase = [w \in Worker |-> "idle"]
    /\ deleted = [w \in Worker |-> {}]
    /\ settled = {} /\ emptied = {}

-----------------------------------------------------------------------------
(* The queue.                                                              *)

\* A poll of the event source mapping that invokes a lambda.
Receive(w, b) ==
    /\ phase[w] \in Ended
    /\ \A m \in Range(b) : at[m] = "visible" /\ receives[m] < MaxReceives
    /\ at' = [m \in Message |-> IF m \in Range(b) THEN w ELSE at[m]]
    /\ receives' = [m \in Message |-> IF m \in Range(b) THEN receives[m] + 1 ELSE receives[m]]
    /\ batch' = [batch EXCEPT ![w] = b]
    /\ n' = [n EXCEPT ![w] = 0]
    /\ successful' = [successful EXCEPT ![w] = {}]
    /\ exceptions' = [exceptions EXCEPT ![w] = {}]
    /\ phase' = [phase EXCEPT ![w] = "next"]
    /\ deleted' = [deleted EXCEPT ![w] = {}]
    /\ UNCHANGED history

\* The visibility timeout, be the worker done with the message or not.
Expire(m) ==
    /\ at[m] \in Worker
    /\ at' = [at EXCEPT ![m] = "visible"]
    /\ UNCHANGED <<receives, batch, n, successful, exceptions, phase, deleted, history>>

DeadLetter(m) ==
    /\ at[m] = "visible" /\ receives[m] >= MaxReceives
    /\ at' = [at EXCEPT ![m] = "dead"]
    /\ UNCHANGED <<receives, batch, n, successful, exceptions, phase, deleted, history>>

\* A delete with the receipt handle of w: it works if w received the message
\* last, and may or may not work if its handle is out of date.
Delete(w, messages) ==
    \E stale \in SUBSET {m \in messages : at[m] \in (Worker \ {w}) \cup {"visible"}} :
        at' = [m \in Message |-> IF m \in stale \/ (m \in messages /\ at[m] = w)
                                 THEN "deleted" ELSE at[m]]

-----------------------------------------------------------------------------
(* The workers.                                                            *)

Goes(w, newPhase) == phase' = [phase EXCEPT ![w] = newPhase]

\* Mutant: the loop runs once too often.
TakeOneMore(w) ==
    /\ phase[w] = "next" /\ n[w] <= Len(batch[w])
    /\ n' = [n EXCEPT ![w] = @ + 1]
    /\ Goes(w, "busy")
    /\ UNCHANGED <<queue, batch, successful, exceptions, deleted, history>>

Take(w) ==
    /\ phase[w] = "next" /\ n[w] < Len(batch[w])
    /\ n' = [n EXCEPT ![w] = @ + 1]
    /\ Goes(w, "busy")
    /\ UNCHANGED <<queue, batch, successful, exceptions, deleted, history>>

Current(w) == batch[w][n[w]]

Settle(w, newSuccessful, newExceptions, newSettled) ==
    /\ phase[w] = "busy"
    /\ successful' = [successful EXCEPT ![w] = newSuccessful]
    /\ exceptions' = [exceptions EXCEPT ![w] = newExceptions]
    /\ settled' = newSettled
    /\ Goes(w, "next")
    /\ UNCHANGED <<queue, batch, n, deleted, emptied>>

Succeed(w) ==
    Settle(w, successful[w] \cup {n[w]}, exceptions[w], settled \cup {Current(w)})

Drop(w) == Settle(w, successful[w], exceptions[w], settled \cup {Current(w)})

\* Mutant: a failure is counted as a success, and deleted by the cleanup.
FailCounted(w) == Settle(w, successful[w] \cup {n[w]}, exceptions[w] \cup {n[w]}, settled)

\* Mutant: the record that failed is tried once more before it is given up.
FailRetried(w) ==
    /\ phase[w] = "busy"
    /\ n' = [n EXCEPT ![w] = @ - 1]
    /\ Goes(w, "next")
    /\ UNCHANGED <<queue, batch, successful, exceptions, deleted, history>>

Fail(w) == Settle(w, successful[w], exceptions[w] \cup {n[w]}, settled)

\* The next record does not decode, or an exception leaves the record's try:
\* it leaves the invocation, and the batch stays on the queue.
Escape(w) ==
    /\ phase[w] = "busy" \/ (phase[w] = "next" /\ n[w] < Len(batch[w]))
    /\ Goes(w, "escaped")
    /\ UNCHANGED <<queue, batch, n, successful, exceptions, deleted, history>>

\* The same with an AssertionError, which becomes the response (0, 0): the
\* runtime deletes the batch, tried or not.
Empty(w) ==
    /\ phase[w] = "busy" \/ (phase[w] = "next" /\ n[w] < Len(batch[w]))
    /\ Goes(w, "emptied")
    /\ emptied' = emptied \cup Range(batch[w])
    /\ Delete(w, Range(batch[w]))
    /\ UNCHANGED <<receives, batch, n, successful, exceptions, deleted, settled>>

Responding(w) == phase[w] = "next" /\ n[w] = Len(batch[w])

\* Mutant: the response is returned from within the loop.
FinishEarly(w) ==
    /\ phase[w] = "next" /\ n[w] > 0 /\ exceptions[w] = {}
    /\ Goes(w, "returned")
    /\ Delete(w, Range(batch[w]))
    /\ UNCHANGED <<receives, batch, n, successful, exceptions, deleted, history>>

\* Mutant: the invocation ends only if every record was a success.
FinishSuccesses(w) ==
    /\ Responding(w) /\ successful[w] = 1 .. n[w]
    /\ Goes(w, "returned")
    /\ Delete(w, Range(batch[w]))
    /\ UNCHANGED <<receives, batch, n, successful, exceptions, deleted, history>>

Finish(w) ==
    /\ Responding(w) /\ exceptions[w] = {}
    /\ Goes(w, "returned")
    /\ Delete(w, Range(batch[w]))
    /\ UNCHANGED <<receives, batch, n, successful, exceptions, deleted, history>>

\* advanced_cleanup, as far as it gets, and the raise.
FinishFailed(w) ==
    /\ Responding(w) /\ exceptions[w] # {}
    /\ Goes(w, "raised")
    /\ \E cleaned \in {{}, successful[w]} :
          /\ deleted' = [deleted EXCEPT ![w] = cleaned]
          /\ Delete(w, {batch[w][i] : i \in cleaned})
    /\ UNCHANGED <<receives, batch, n, successful, exceptions, history>>

\* A timeout or the end of the container.
Kill(w) ==
    /\ phase[w] \in Running
    /\ Goes(w, "killed")
    /\ UNCHANGED <<queue, batch, n, successful, exceptions, deleted, history>>

Work(w) ==
    \/ Take(w) \/ Succeed(w) \/ Drop(w) \/ Fail(w)
    \/ Escape(w) \/ Empty(w) \/ Finish(w) \/ FinishFailed(w)

Poll == \E w \in Worker, b \in Batches : Receive(w, b)

Next ==
    \/ Poll
    \/ \E m \in Message : Expire(m) \/ DeadLetter(m)
    \/ \E w \in Worker : Work(w) \/ Kill(w)

(***************************************************************************)
(* AWS keeps polling, visibility timeouts end, the redrive policy is       *)
(* applied, and an invocation goes on until it ends or is killed.          *)
(***************************************************************************)
Fairness ==
    /\ WF_vars(Poll)
    /\ \A m \in Message : WF_vars(Expire(m)) /\ WF_vars(DeadLetter(m))
    /\ \A w \in Worker : WF_vars(Work(w))

Spec == Init /\ [][Next]_vars /\ Fairness

-----------------------------------------------------------------------------

Tried(w) == {batch[w][i] : i \in 1 .. n[w]}
Failed(w) == {batch[w][i] : i \in exceptions[w]}
Succeeded(w) == {batch[w][i] : i \in successful[w]}

TypeOK ==
    /\ at \in [Message -> Place]
    /\ receives \in [Message -> 0 .. MaxReceives]
    /\ batch \in [Worker -> Batches \cup {<< >>}]
    /\ \A w \in Worker : PE(w)!TypeOK
    /\ settled \subseteq Message /\ emptied \subseteq Message

(***************************************************************************)
(* pipeline.py:182-222 (see README.md:122-123): however deliveries of a    *)
(* message interleave, expire and are killed, it is gone from the queue    *)
(* only if one of them handled it or dropped it on the floor, or was in a  *)
(* batch that an AssertionError ended (pipeline.py:205-207).               *)
(***************************************************************************)
NothingLost ==
    \A m \in Message : at[m] = "deleted" => m \in settled \cup emptied

(***************************************************************************)
(* pipeline.py:182-222, "preserve poisoned records, trigger redrive": what *)
(* removes a message from the queue is the end of an invocation it was     *)
(* delivered to, whatever other deliveries of it came to.  If that one     *)
(* responds, it has tried its whole batch and kept no record as failed; if *)
(* it raises, the message is one of its successes and was not kept as      *)
(* failed.  The exception is the response (0, 0) of pipeline.py:205-207,   *)
(* which removes all of its batch, what it kept as failed and what it has  *)
(* not come to included.                                                   *)
(***************************************************************************)
RemovedByItsInvocation ==
    [][\A m \in Message : at[m] # "deleted" /\ at'[m] = "deleted" =>
          \E w \in Worker :
             /\ phase[w] \in Running
             /\ \/ /\ phase'[w] = "returned"
                   /\ m \in Tried(w) /\ Tried(w) = Range(batch[w]) /\ Failed(w) = {}
                \/ phase'[w] = "raised" /\ m \in Succeeded(w) \ Failed(w)
                \/ phase'[w] = "emptied" /\ m \in Range(batch[w])]_vars

(***************************************************************************)
(* The batch loop and its ends, under AWS's redelivery: every message      *)
(* leaves the queue, handled or set aside, however often its invocations   *)
(* fail or are killed.                                                     *)
(***************************************************************************)
QueueDrains == \A m \in Message : <>(at[m] \in {"deleted", "dead"})

\* Every worker does what ProcessEvent promises.
WorkersProcessEvents ==
    /\ \A w \in Worker : PE(w)!Init
    /\ [][\A w \in Worker : [PE(w)!Next]_(PE(w)!vars)]_vars

=============================================================================
