--------------------------- MODULE RedriveProofs ---------------------------
(***************************************************************************)
(* What holds of Redrive for any number of messages, workers, batches and  *)
(* receives.                                                               *)
(***************************************************************************)
EXTENDS Redrive, FiniteSetTheorems, TLAPS

(* The part of TypeOK that speaks of one worker.                            *)
WorkerOK(w) ==
    /\ batch[w] \in Batches \cup {<< >>}
    /\ n[w] \in 0 .. Len(batch[w])
    /\ successful[w] \subseteq 1 .. n[w]
    /\ exceptions[w] \subseteq 1 .. n[w]
    /\ phase[w] \in Ended \cup Running
    /\ phase[w] = "busy" => n[w] \in 1 .. Len(batch[w])
    /\ deleted[w] \subseteq successful[w]

Maps ==
    /\ batch \in [Worker -> Batches \cup {<< >>}]
    /\ n \in [Worker -> Nat]
    /\ successful \in [Worker -> SUBSET Nat]
    /\ exceptions \in [Worker -> SUBSET Nat]
    /\ phase \in [Worker -> Ended \cup Running]
    /\ deleted \in [Worker -> SUBSET Nat]
    /\ at \in [Message -> Place]
    /\ receives \in [Message -> 0 .. MaxReceives]
    /\ settled \subseteq Message /\ emptied \subseteq Message

TInv == Maps /\ \A w \in Worker : WorkerOK(w)

LEMMA BatchesAreLists ==
    ASSUME NEW b \in Batches \cup {<< >>}
    PROVE  b \in Seq(Message) /\ Len(b) \in Nat /\ Range(b) \subseteq Message /\ IsInjective(b)
           /\ \A i \in 1 .. Len(b) : b[i] \in Message
<1>1. CASE b = << >>
  BY <1>1 DEF Range, IsInjective
<1>2. CASE b \in Batches
  <2>1. b \in Seq(Message) /\ IsInjective(b)
    BY <1>2, RedriveAssumption DEF RedriveAssumption
  <2> QED
    BY <2>1 DEF Range
<1> QED
  BY <1>1, <1>2

LEMMA TypeIsInvariant == Spec => []TInv
<1>1. Init => TInv
  BY RedriveAssumption
  DEF RedriveAssumption, Init, TInv, Maps, WorkerOK, Ended, Running, Place
<1>2. TInv /\ [Next]_vars => TInv'
  <2> SUFFICES ASSUME TInv, [Next]_vars PROVE TInv'
    OBVIOUS
  <2>1. ASSUME NEW w \in Worker, NEW b \in Batches, Receive(w, b) PROVE TInv'
    <3>1. at' \in [Message -> Place]
      BY <2>1 DEF TInv, Maps, Receive, Place
    <3>2. receives' \in [Message -> 0 .. MaxReceives]
      BY <2>1, RedriveAssumption DEF TInv, Maps, Receive, RedriveAssumption
    <3>3. Maps'
      BY <2>1, <3>1, <3>2 DEF TInv, Maps, Receive, Running, history
    <3>4. ASSUME NEW v \in Worker PROVE WorkerOK(v)'
      <4>1. CASE v = w
        BY <2>1, <4>1, BatchesAreLists DEF TInv, Maps, WorkerOK, Receive, Running
      <4>2. CASE v # w
        BY <2>1, <4>2 DEF TInv, Maps, WorkerOK, Receive
      <4> QED
        BY <4>1, <4>2
    <3> QED
      BY <3>3, <3>4 DEF TInv
  <2>2. ASSUME NEW m \in Message, Expire(m) \/ DeadLetter(m) PROVE TInv'
    BY <2>2 DEF TInv, Maps, WorkerOK, Expire, DeadLetter, Place, history
  <2>3. ASSUME NEW w \in Worker, Take(w) PROVE TInv'
    BY <2>3, BatchesAreLists DEF TInv, Maps, WorkerOK, Take, Goes, Ended, Running, history, queue
  <2>4. ASSUME NEW w \in Worker, Succeed(w) \/ Drop(w) \/ Fail(w) PROVE TInv'
    <3>1. phase[w] = "busy" /\ n[w] \in 1 .. Len(batch[w]) /\ Current(w) \in Message
      BY <2>4, BatchesAreLists
      DEF TInv, Maps, WorkerOK, Succeed, Drop, Fail, Settle, Current
    <3>2. PICK S \in SUBSET (1 .. n[w]), X \in SUBSET (1 .. n[w]), T \in SUBSET Message :
             Settle(w, S, X, T) /\ successful[w] \subseteq S
      <4>0. /\ successful[w] \in SUBSET (1 .. n[w]) /\ exceptions[w] \in SUBSET (1 .. n[w])
            /\ n[w] \in 1 .. n[w] /\ settled \in SUBSET Message
        BY <3>1 DEF TInv, Maps, WorkerOK
      <4>1. CASE Succeed(w)
        BY <3>1, <4>0, <4>1 DEF Succeed
      <4>2. CASE Drop(w)
        BY <3>1, <4>0, <4>2 DEF Drop
      <4>3. CASE Fail(w)
        BY <3>1, <4>0, <4>3 DEF Fail
      <4> QED
        BY <2>4, <4>1, <4>2, <4>3
    <3>3. Maps'
      BY <3>1, <3>2 DEF TInv, Maps, Settle, Goes, Ended, Running, queue
    <3>4. ASSUME NEW v \in Worker PROVE WorkerOK(v)'
      BY <3>1, <3>2 DEF TInv, Maps, WorkerOK, Settle, Goes, Ended, Running
    <3> QED
      BY <3>3, <3>4 DEF TInv
  <2>5. ASSUME NEW w \in Worker, Escape(w) \/ Kill(w) PROVE TInv'
    BY <2>5 DEF TInv, Maps, WorkerOK, Escape, Kill, Goes, Ended, Running, history, queue
  <2>6. ASSUME NEW w \in Worker, NEW M, Delete(w, M) PROVE at' \in [Message -> Place]
    BY <2>6 DEF TInv, Maps, Delete, Place
  <2>7. ASSUME NEW w \in Worker, Empty(w) PROVE TInv'
    BY <2>6, <2>7, BatchesAreLists DEF TInv, Maps, WorkerOK, Empty, Goes, Ended, Running
  <2>8. ASSUME NEW w \in Worker, Finish(w) PROVE TInv'
    BY <2>6, <2>8 DEF TInv, Maps, WorkerOK, Finish, Goes, Ended, Running, history
  <2>9. ASSUME NEW w \in Worker, FinishFailed(w) PROVE TInv'
    BY <2>6, <2>9 DEF TInv, Maps, WorkerOK, FinishFailed, Goes, Ended, Running, history
  <2>10. CASE UNCHANGED vars
    BY <2>10 DEF TInv, Maps, WorkerOK, vars
  <2> QED
    BY <2>1, <2>2, <2>3, <2>4, <2>5, <2>7, <2>8, <2>9, <2>10 DEF Next, Poll, Work
<1> QED
  BY <1>1, <1>2, PTL DEF Spec

(***************************************************************************)
(* Redrive: every variable keeps its type, and each worker the type        *)
(* invariant of ProcessEvent.                                              *)
(***************************************************************************)
THEOREM RedriveTypeCorrect == Spec => []TypeOK
<1>1. TInv => TypeOK
  <2> SUFFICES ASSUME TInv PROVE TypeOK
    OBVIOUS
  <2>1. ASSUME NEW w \in Worker PROVE PE(w)!TypeOK
    <3>1. Cardinality(successful[w]) \in Nat
      <4>1. IsFiniteSet(1 .. n[w]) /\ successful[w] \subseteq 1 .. n[w]
        BY FS_Interval DEF TInv, Maps, WorkerOK
      <4> QED
        BY <4>1, FS_Subset, FS_CardinalityType
    <3>2. Len(batch[w]) \in {Len(b) : b \in Batches} \cup {0}
      <4>1. batch[w] \in Batches \/ batch[w] = << >>
        BY DEF TInv, WorkerOK
      <4> QED
        BY <4>1
    <3> QED
      BY <3>1, <3>2
      DEF TInv, Maps, WorkerOK, PE!TypeOK, PE!Positions, PE!Ended, PE!Running, Ended, Running
  <2> QED
    BY <2>1 DEF TInv, Maps, TypeOK
<1> QED
  BY <1>1, TypeIsInvariant, PTL

-----------------------------------------------------------------------------
(* Verdicts: what a worker has recorded, and what was settled.              *)

SettledOrFailed(w, i) == i \in exceptions[w] \/ batch[w][i] \in settled

VerdictsOf(w) ==
    /\ successful[w] \cap exceptions[w] = {}
    /\ \A i \in successful[w] : batch[w][i] \in settled
    /\ phase[w] = "next" => \A i \in 1 .. n[w] : SettledOrFailed(w, i)
    /\ phase[w] = "busy" =>
          /\ n[w] \notin successful[w] \cup exceptions[w]
          /\ \A i \in 1 .. n[w] - 1 : SettledOrFailed(w, i)

Verdicts == \A w \in Worker : VerdictsOf(w)

LEMMA VerdictsAreKept ==
    ASSUME TInv, Verdicts, [Next]_vars
    PROVE  Verdicts' /\ settled \subseteq settled'
<1> USE DEF Verdicts
<1>1. ASSUME NEW w \in Worker, NEW b \in Batches, Receive(w, b)
      PROVE  Verdicts' /\ settled \subseteq settled'
  BY <1>1 DEF TInv, Maps, Receive, VerdictsOf, SettledOrFailed, history
<1>2. ASSUME NEW m \in Message, Expire(m) \/ DeadLetter(m)
      PROVE  Verdicts' /\ settled \subseteq settled'
  BY <1>2 DEF Expire, DeadLetter, VerdictsOf, SettledOrFailed, history
<1>3. ASSUME NEW w \in Worker, Take(w)
      PROVE  Verdicts' /\ settled \subseteq settled'
  <2> SUFFICES ASSUME NEW v \in Worker PROVE VerdictsOf(v)'
    BY <1>3 DEF Take, history
  <2>1. CASE v = w
    BY <1>3, <2>1 DEF TInv, Maps, WorkerOK, Take, Goes, VerdictsOf, SettledOrFailed, history
  <2>2. CASE v # w
    BY <1>3, <2>2 DEF TInv, Maps, Take, Goes, VerdictsOf, SettledOrFailed, history
  <2> QED
    BY <2>1, <2>2
<1>4. ASSUME NEW w \in Worker, Succeed(w) \/ Drop(w) \/ Fail(w)
      PROVE  Verdicts' /\ settled \subseteq settled'
  <2>1. /\ phase[w] = "busy" /\ n[w] \in 1 .. Len(batch[w])
        /\ batch' = batch /\ n' = n
        /\ phase' = [phase EXCEPT ![w] = "next"]
        /\ settled \subseteq settled'
    BY <1>4 DEF TInv, WorkerOK, Succeed, Drop, Fail, Settle, Goes
  <2>2. ASSUME NEW v \in Worker, v # w PROVE VerdictsOf(v)'
    BY <1>4, <2>1, <2>2 DEF TInv, Maps, Succeed, Drop, Fail, Settle, VerdictsOf, SettledOrFailed
  <2>3. \A i \in 1 .. n[w] : i \in 1 .. n[w] - 1 \/ i = n[w]
    BY <2>1
  <2>4. VerdictsOf(w)'
    <3>1. CASE Succeed(w)
      BY <2>1, <2>3, <3>1
      DEF TInv, Maps, Succeed, Settle, Current, VerdictsOf, SettledOrFailed
    <3>2. CASE Drop(w)
      BY <2>1, <2>3, <3>2
      DEF TInv, Maps, Drop, Settle, Current, VerdictsOf, SettledOrFailed
    <3>3. CASE Fail(w)
      BY <2>1, <2>3, <3>3
      DEF TInv, Maps, Fail, Settle, VerdictsOf, SettledOrFailed
    <3> QED
      BY <1>4, <3>1, <3>2, <3>3
  <2> QED
    BY <2>1, <2>2, <2>4
<1>5. ASSUME NEW w \in Worker, Escape(w) \/ Kill(w) \/ Empty(w) \/ Finish(w) \/ FinishFailed(w)
      PROVE  Verdicts' /\ settled \subseteq settled'
  <2>1. /\ UNCHANGED <<batch, n, successful, exceptions, settled>>
        /\ \E p \in Ended : phase' = [phase EXCEPT ![w] = p]
    BY <1>5 DEF Escape, Kill, Empty, Finish, FinishFailed, Goes, Ended, history
  <2> QED
    BY <2>1 DEF TInv, Maps, VerdictsOf, SettledOrFailed, Ended
<1>6. CASE UNCHANGED vars
  BY <1>6 DEF vars, VerdictsOf, SettledOrFailed
<1> QED
  BY <1>1, <1>2, <1>3, <1>4, <1>5, <1>6 DEF Next, Poll, Work

LEMMA InitialVerdicts == Init => Verdicts
  BY DEF Init, Verdicts, VerdictsOf

LEMMA DeleteOnlyThese ==
    ASSUME NEW w \in Worker, NEW M, Delete(w, M), NEW m \in Message,
           at'[m] = "deleted"
    PROVE  at[m] = "deleted" \/ m \in M
  BY DEF Delete

(* Who deletes a message, and with which verdict.                           *)
DeletedBy(w, m) ==
    /\ phase[w] \in Running
    /\ \/ /\ phase'[w] = "returned"
          /\ m \in Tried(w) /\ Tried(w) = Range(batch[w]) /\ Failed(w) = {}
       \/ phase'[w] = "raised" /\ m \in Succeeded(w) \ Failed(w)
       \/ phase'[w] = "emptied" /\ m \in Range(batch[w])
    /\ phase'[w] # "emptied" => m \in settled /\ settled' = settled
    /\ phase'[w] = "emptied" => m \in emptied'

LEMMA WhoDeletes ==
    ASSUME TInv, Verdicts, [Next]_vars,
           NEW m \in Message, at[m] # "deleted", at'[m] = "deleted"
    PROVE  \E w \in Worker : DeletedBy(w, m)
<1>1. ASSUME NEW w \in Worker, Empty(w) PROVE DeletedBy(w, m)
  <2>1. m \in Range(batch[w])
    BY <1>1, DeleteOnlyThese DEF Empty
  <2> QED
    BY <1>1, <2>1 DEF TInv, Maps, Empty, Goes, DeletedBy, Running
<1>2. ASSUME NEW w \in Worker, Finish(w) PROVE DeletedBy(w, m)
  <2>1. PICK i \in 1 .. n[w] : m = batch[w][i]
    <3>1. m \in Range(batch[w])
      BY <1>2, DeleteOnlyThese DEF Finish
    <3> QED
      BY <1>2, <3>1, BatchesAreLists DEF TInv, WorkerOK, Finish, Responding, Range
  <2>2. m \in Tried(w) /\ Failed(w) = {} /\ Tried(w) = Range(batch[w])
    BY <1>2, <2>1, BatchesAreLists DEF TInv, WorkerOK, Finish, Responding, Tried, Failed, Range
  <2>3. m \in settled
    BY <1>2, <2>1 DEF Finish, Responding, Verdicts, VerdictsOf, SettledOrFailed
  <2> QED
    BY <1>2, <2>2, <2>3
    DEF TInv, Maps, Finish, Responding, Goes, DeletedBy, Running, history
<1>3. ASSUME NEW w \in Worker, FinishFailed(w) PROVE DeletedBy(w, m)
  <2>1. PICK i \in successful[w] : m = batch[w][i]
    BY <1>3, DeleteOnlyThese DEF FinishFailed
  <2>2. i \in 1 .. n[w] /\ m \in Succeeded(w)
    BY <2>1 DEF TInv, WorkerOK, Succeeded
  <2>3. m \notin Failed(w)
    <3> SUFFICES ASSUME NEW j \in exceptions[w], batch[w][j] = m PROVE FALSE
      BY DEF Failed
    <3>1. i \in DOMAIN batch[w] /\ j \in DOMAIN batch[w] /\ IsInjective(batch[w])
      BY <2>2, BatchesAreLists DEF TInv, WorkerOK
    <3>2. i = j
      BY <2>1, <3>1 DEF IsInjective
    <3> QED
      BY <3>2 DEF Verdicts, VerdictsOf
  <2>4. m \in settled
    BY <2>1 DEF Verdicts, VerdictsOf
  <2> QED
    BY <1>3, <2>2, <2>3, <2>4
    DEF TInv, Maps, FinishFailed, Responding, Goes, DeletedBy, Running, history
<1>4. ASSUME \A w \in Worker : ~(Empty(w) \/ Finish(w) \/ FinishFailed(w)) PROVE FALSE
  <2>1. ASSUME NEW w \in Worker, NEW b \in Batches, Receive(w, b) PROVE FALSE
    BY <2>1, RedriveAssumption DEF Receive, RedriveAssumption
  <2>2. ASSUME NEW l \in Message, Expire(l) \/ DeadLetter(l) PROVE FALSE
    BY <2>2 DEF TInv, Maps, Expire, DeadLetter
  <2>3. ASSUME NEW w \in Worker,
               Take(w) \/ Succeed(w) \/ Drop(w) \/ Fail(w) \/ Escape(w) \/ Kill(w)
        PROVE  FALSE
    BY <2>3 DEF Take, Succeed, Drop, Fail, Settle, Escape, Kill, queue
  <2>4. CASE UNCHANGED vars
    BY <2>4 DEF vars
  <2> QED
    BY <1>4, <2>1, <2>2, <2>3, <2>4 DEF Next, Poll, Work
<1> QED
  BY <1>1, <1>2, <1>3, <1>4

(***************************************************************************)
(* Redrive: whatever is gone from the queue was handled or dropped in some *)
(* delivery, or was in a batch that was answered (0, 0).                   *)
(***************************************************************************)
THEOREM NoMessageIsLost == Spec => []NothingLost
<1>1. Init => NothingLost
  BY DEF Init, NothingLost
<1>2. TInv /\ Verdicts /\ NothingLost /\ [Next]_vars => NothingLost'
  <2> SUFFICES ASSUME TInv, Verdicts, NothingLost, [Next]_vars,
                      NEW m \in Message, at'[m] = "deleted"
               PROVE  m \in settled' \cup emptied'
    BY DEF NothingLost
  <2>1. settled \subseteq settled'
    BY VerdictsAreKept
  <2>2. emptied \subseteq emptied'
    BY DEF Next, Poll, Work, Receive, Expire, DeadLetter, Take, Succeed, Drop, Fail, Settle,
           Escape, Kill, Empty, Finish, FinishFailed, history, vars
  <2>3. CASE at[m] = "deleted"
    BY <2>1, <2>2, <2>3 DEF NothingLost
  <2>4. CASE at[m] # "deleted"
    BY <2>1, <2>4, WhoDeletes DEF DeletedBy
  <2> QED
    BY <2>3, <2>4
<1>3. TInv /\ Verdicts /\ [Next]_vars => Verdicts'
  BY VerdictsAreKept
<1> QED
  BY <1>1, <1>2, <1>3, TypeIsInvariant, InitialVerdicts, PTL DEF Spec

(***************************************************************************)
(* Redrive: a message leaves the queue by the end of an invocation that    *)
(* tried it and did not keep it as failed, or that was answered (0, 0).    *)
(***************************************************************************)
THEOREM RemovalsAreByInvocations == Spec => RemovedByItsInvocation
<1>1. ASSUME TInv, Verdicts, [Next]_vars
      PROVE  [\A m \in Message : at[m] # "deleted" /\ at'[m] = "deleted" =>
                 \E w \in Worker :
                    /\ phase[w] \in Running
                    /\ \/ /\ phase'[w] = "returned"
                          /\ m \in Tried(w) /\ Tried(w) = Range(batch[w]) /\ Failed(w) = {}
                       \/ phase'[w] = "raised" /\ m \in Succeeded(w) \ Failed(w)
                       \/ phase'[w] = "emptied" /\ m \in Range(batch[w])]_vars
  BY <1>1, WhoDeletes DEF DeletedBy
<1>2. TInv /\ Verdicts /\ [Next]_vars => Verdicts'
  BY VerdictsAreKept
<1> QED
  BY <1>1, <1>2, TypeIsInvariant, InitialVerdicts, PTL DEF Spec, RemovedByItsInvocation

-----------------------------------------------------------------------------
(* Every worker does what ProcessEvent allows.                              *)

LEMMA SameCardinality ==
    ASSUME NEW w, NEW S PROVE PE(w)!Cardinality(S) = Cardinality(S)
  BY DEF PE!Cardinality, Cardinality

OwnVariables(w) ==
    <<batch[w], n[w], successful[w], exceptions[w], phase[w], deleted[w]>>

LEMMA StutterElsewhere ==
    ASSUME NEW v \in Worker, UNCHANGED OwnVariables(v)
    PROVE  [PE(v)!Next]_(PE(v)!vars)
  BY DEF OwnVariables, PE!vars

LEMMA OneWorkerMoves ==
    ASSUME TInv, NEW w \in Worker, NEW v \in Worker, v # w,
           Work(w) \/ Kill(w) \/ \E b \in Batches : Receive(w, b)
    PROVE  UNCHANGED OwnVariables(v)
<1>1. CASE \E b \in Batches : Receive(w, b)
  BY <1>1 DEF TInv, Maps, Receive, OwnVariables
<1>2. CASE Take(w) \/ Escape(w) \/ Kill(w) \/ Empty(w) \/ Finish(w) \/ FinishFailed(w)
  BY <1>2 DEF TInv, Maps, Take, Escape, Kill, Empty, Finish, FinishFailed, Goes, OwnVariables
<1>3. CASE Succeed(w) \/ Drop(w) \/ Fail(w)
  BY <1>3 DEF TInv, Maps, Succeed, Drop, Fail, Settle, Goes, OwnVariables
<1> QED
  BY <1>1, <1>2, <1>3 DEF Work

LEMMA ReceiveInvokes ==
    ASSUME TInv, NEW w \in Worker, NEW b \in Batches, Receive(w, b)
    PROVE  PE(w)!Next
<1>1. batch'[w] = b /\ n'[w] = 0 /\ successful'[w] = {} /\ exceptions'[w] = {}
      /\ phase'[w] = "next" /\ deleted'[w] = {} /\ phase[w] \in Ended
  BY DEF TInv, Maps, Receive
<1> QED
  BY <1>1 DEF PE!Next, PE!Invoke, PE!Start, PE!Ended, PE!NoStats, Ended

LEMMA WorkIsProcessEvents ==
    ASSUME TInv, NEW w \in Worker, Work(w) \/ Kill(w)
    PROVE  PE(w)!Next
<1> USE SameCardinality DEF TInv, Maps, Goes, history, queue
<1>1. CASE Take(w)
  BY <1>1 DEF Take, PE!Next, PE!Take
<1>2. CASE Succeed(w)
  BY <1>2 DEF Succeed, Settle, PE!Next, PE!Succeed, PE!Settle
<1>3. CASE Drop(w)
  BY <1>3 DEF Drop, Settle, PE!Next, PE!Drop, PE!Settle
<1>4. CASE Fail(w)
  BY <1>4 DEF Fail, Settle, PE!Next, PE!Fail, PE!Settle
<1>5. CASE Escape(w)
  BY <1>5 DEF Escape, PE!Next, PE!Undecodable, PE!Abort
<1>6. CASE Empty(w)
  BY <1>6 DEF Empty, PE!Next, PE!Undecodable, PE!Abort
<1>7. CASE Finish(w)
  BY <1>7 DEF Finish, Responding, PE!Next, PE!Finish, PE!Respond
<1>8. CASE FinishFailed(w)
  BY <1>8 DEF FinishFailed, Responding, PE!Next, PE!FinishFailed, PE!Respond
<1>9. CASE Kill(w)
  BY <1>9 DEF Kill, PE!Next, PE!Kill, PE!Running, Running
<1> QED
  BY <1>1, <1>2, <1>3, <1>4, <1>5, <1>6, <1>7, <1>8, <1>9 DEF Work

(***************************************************************************)
(* Redrive: seen from one worker, every behaviour of the whole system is   *)
(* one of ProcessEvent.                                                    *)
(***************************************************************************)
THEOREM WorkersImplementProcessEvent == Spec => WorkersProcessEvents
<1>1. Init => \A w \in Worker : PE(w)!Init
  BY DEF Init, PE!Init, PE!NoStats
<1>2. ASSUME TInv, [Next]_vars, NEW v \in Worker
      PROVE  [PE(v)!Next]_(PE(v)!vars)
  <2>1. CASE UNCHANGED vars
    BY <2>1, StutterElsewhere DEF vars, OwnVariables
  <2>2. ASSUME NEW m \in Message, Expire(m) \/ DeadLetter(m) PROVE UNCHANGED OwnVariables(v)
    BY <2>2 DEF Expire, DeadLetter, OwnVariables
  <2>3. ASSUME NEW w \in Worker, NEW b \in Batches, Receive(w, b)
        PROVE  PE(v)!Next \/ UNCHANGED OwnVariables(v)
    <3>1. CASE v = w
      <4>1. PE(w)!Next
        BY <1>2, <2>3, ReceiveInvokes
      <4> QED
        BY <3>1, <4>1
    <3>2. CASE v # w
      BY <1>2, <2>3, <3>2, OneWorkerMoves
    <3> QED
      BY <3>1, <3>2
  <2>4. ASSUME NEW w \in Worker, Work(w) \/ Kill(w)
        PROVE  PE(v)!Next \/ UNCHANGED OwnVariables(v)
    <3>1. CASE v = w
      <4>1. PE(w)!Next
        BY <1>2, <2>4, WorkIsProcessEvents
      <4> QED
        BY <3>1, <4>1
    <3>2. CASE v # w
      BY <1>2, <2>4, <3>2, OneWorkerMoves
    <3> QED
      BY <3>1, <3>2
  <2> QED
    BY <1>2, <2>1, <2>2, <2>3, <2>4, StutterElsewhere DEF Next, Poll
<1>3. TInv /\ [Next]_vars => [\A w \in Worker : [PE(w)!Next]_(PE(w)!vars)]_vars
  BY <1>2
<1> QED
  BY <1>1, <1>3, TypeIsInvariant, PTL DEF Spec, WorkersProcessEvents

=============================================================================
