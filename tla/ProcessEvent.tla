---------------------------- MODULE ProcessEvent ----------------------------
(***************************************************************************)
(* What process_event (lpipe/pipeline.py) promises to whoever invokes the  *)
(* lambda, one record at a time and without the work a record stands for:  *)
(* which records count as successful, which failures are kept, and in      *)
(* which ways an invocation may end.                                       *)
(*                                                                         *)
(* Pipeline implements this specification.                                 *)
(***************************************************************************)
EXTENDS Naturals, FiniteSets

CONSTANT Sizes        \* the batch sizes an event source may deliver

VARIABLES
    size,             \* how many records the event holds
    n,                \* n_records: how many were taken from the event so far
    successful,       \* successful_records, by position in the event
    exceptions,       \* _exceptions, by position of the record that failed
    phase,            \* where the invocation is, or how it ended
    stats,            \* the "stats" of the response, if one was built
    deleted           \* records cleanup removed from the invoking queue

vars == <<size, n, successful, exceptions, phase, stats, deleted>>

(***************************************************************************)
(* "returned": a response.  "emptied": the response (0, 0) of the outer    *)
(* handler.  "raised": the FailCatastrophically of the end of the batch.   *)
(* "escaped": any other exception left process_event.  "killed": the       *)
(* lambda was stopped (timeout, out of memory).                            *)
(***************************************************************************)
Ended   == {"idle", "returned", "emptied", "raised", "escaped", "killed"}
Running == {"next", "busy"}

NoStats == [received |-> 0, successes |-> 0]

Positions == 1 .. n

TypeOK ==
    /\ size \in Sizes \cup {0}
    /\ n \in 0 .. size
    /\ successful \subseteq Positions
    /\ exceptions \subseteq Positions
    /\ phase \in Ended \cup Running
    /\ phase = "busy" => n \in 1 .. size
    /\ stats \in [received : Nat, successes : Nat]
    /\ deleted \subseteq successful

Init ==
    /\ size = 0 /\ n = 0
    /\ successful = {} /\ exceptions = {} /\ deleted = {}
    /\ phase = "idle"
    /\ stats = NoStats

-----------------------------------------------------------------------------

\* A call of the handler: every list of process_event starts empty.
Start(newPhase) ==
    /\ phase \in Ended
    /\ n' = 0 /\ successful' = {} /\ exceptions' = {} /\ deleted' = {}
    /\ stats' = NoStats
    /\ phase' = newPhase

Invoke == size' \in Sizes /\ Start("next")

\* The call itself, or the event, is refused before the first record.
Refuse == size' = 0 /\ Start("escaped")

Take ==
    /\ phase = "next" /\ n < size
    /\ n' = n + 1
    /\ phase' = "busy"
    /\ UNCHANGED <<size, successful, exceptions, stats, deleted>>

\* The next record cannot be decoded: that ends the loop, not the record.
Undecodable ==
    /\ phase = "next" /\ n < size
    /\ phase' \in {"escaped", "emptied"}
    /\ UNCHANGED <<size, n, successful, exceptions, stats, deleted>>

Settle(newSuccessful, newExceptions) ==
    /\ phase = "busy"
    /\ successful' = newSuccessful
    /\ exceptions' = newExceptions
    /\ phase' = "next"
    /\ UNCHANGED <<size, n, stats, deleted>>

Succeed == Settle(successful \cup {n}, exceptions)
Drop    == Settle(successful, exceptions)
Fail    == Settle(successful, exceptions \cup {n})

\* An exception no handler of the loop is for.
Abort ==
    /\ phase = "busy"
    /\ phase' \in {"escaped", "emptied"}
    /\ UNCHANGED <<size, n, successful, exceptions, stats, deleted>>

Respond ==
    /\ phase = "next" /\ n = size
    /\ stats' = [received |-> n, successes |-> Cardinality(successful)]
    /\ UNCHANGED <<size, n, successful, exceptions>>

Finish == Respond /\ exceptions = {} /\ phase' = "returned" /\ UNCHANGED deleted

FinishFailed ==
    /\ Respond /\ exceptions # {}
    /\ phase' = "raised"
    /\ deleted' \in SUBSET successful

Kill ==
    /\ phase \in Running
    /\ phase' = "killed"
    /\ UNCHANGED <<size, n, successful, exceptions, stats, deleted>>

Next ==
    \/ Invoke \/ Refuse \/ Take \/ Undecodable
    \/ Succeed \/ Drop \/ Fail \/ Abort
    \/ Finish \/ FinishFailed \/ Kill

Spec == Init /\ [][Next]_vars

-----------------------------------------------------------------------------

(***************************************************************************)
(* pipeline.py:183-203: no record is both counted as a success, and so a   *)
(* candidate for deletion, and kept as a failure.                          *)
(***************************************************************************)
OneVerdict == successful \cap exceptions = {}

=============================================================================
