------------------------- MODULE QueueClientProofs -------------------------
(***************************************************************************)
(* What holds of QueueClient for any queues, messages, batch sizes and     *)
(* limits, and whatever AWS answers.                                       *)
(***************************************************************************)
EXTENDS QueueClient, TLAPS

Request == [from : Nat \ {0}, to : Nat]

LEMMA LenType ==
    ASSUME NEW S, NEW s \in Seq(S)
    PROVE  Len(s) \in Nat /\ DOMAIN s = 1 .. Len(s)
  OBVIOUS

LEMMA EmptyDomain == ASSUME NEW s, s = << >> PROVE DOMAIN s = {}
  OBVIOUS

LEMMA Lengths ==
    ASSUME TypeOK
    PROVE  /\ Len(messages) \in Nat /\ DOMAIN messages = 1 .. Len(messages)
           /\ messages # << >> => Len(messages) # 0
           /\ Len(requests) \in Nat /\ DOMAIN requests = 1 .. Len(requests)
           /\ requests = << >> <=> Len(requests) = 0
           /\ size \in Int /\ at \in Nat
<1>1. messages \in Seq(Message) /\ size \in Int /\ at \in Nat
  BY DEF TypeOK
<1>2. requests \in Seq(Request)
  BY DEF TypeOK, Request
<1> QED
  BY <1>1, <1>2

LEMMA BatchIsRequest ==
    ASSUME TypeOK, More
    PROVE  /\ Batch \in Request /\ In(Batch) \subseteq DOMAIN messages
           /\ Batch.from = at + 1 /\ Batch.from <= Batch.to
           /\ Batch.to < Batch.from + size /\ Batch.to <= Len(messages)
           /\ Batch.to = Smaller(at + size, Len(messages))
           /\ Len(messages) \in Nat /\ size \in Nat \ {0} /\ at \in Nat /\ at < Len(messages)
           /\ DOMAIN messages = 1 .. Len(messages)
           /\ at + size \in Nat
<1>1. /\ Len(messages) \in Nat /\ size \in Nat \ {0} /\ at \in Nat /\ at < Len(messages)
      /\ DOMAIN messages = 1 .. Len(messages)
  BY Lengths DEF More
<1>2. Batch.from = at + 1 /\ Batch.to = Smaller(at + size, Len(messages))
  BY DEF Batch
<1> QED
  BY <1>1, <1>2 DEF Batch, Request, In, Smaller

LEMMA Appended ==
    ASSUME TypeOK, NEW b \in Request, requests' = Append(requests, b)
    PROVE  /\ requests' \in Seq(Request)
           /\ Len(requests) \in Nat /\ DOMAIN requests = 1 .. Len(requests)
           /\ Len(requests') = Len(requests) + 1
           /\ DOMAIN requests' = 1 .. Len(requests) + 1
           /\ \A i \in 1 .. Len(requests) : requests'[i] = requests[i]
           /\ requests'[Len(requests) + 1] = b
<1>1. requests \in Seq(Request)
  BY DEF TypeOK, Request
<1> QED
  BY <1>1

-----------------------------------------------------------------------------
(* Types.                                                                  *)

Outcome == {"none yet", "responses", "None"} \cup Exception

LEMMA Outcomes ==
    /\ \A kind : Mock(kind) \in {"None", "Exception"}
    /\ \A r \in Response : CheckStatus(r) \in {"ok", "AssertionError", "Exception"}
    /\ \A kind \in {"AssertionError", "Exception"} : Raised(kind) \in Exception
    /\ {"AssertionError", "Exception", "responses", "None"} \subseteq Outcome
  BY DEF Mock, CheckStatus, Raised, Exception, Outcome

LEMMA TypeStep == TypeOK /\ [Next]_vars => TypeOK'
<1> SUFFICES ASSUME TypeOK, [Next]_vars PROVE TypeOK'
  OBVIOUS
<1> USE DEF call, aws, environment
<1>1. ASSUME op' \in {"put", "batch"}, queue' \in Queue, messages' \in Seq(Message),
             size' \in Int, before' = urls, at' = 0, requests' = << >>, accepted' = {},
             refused' = {}, result' = "none yet", UNCHANGED <<environment, urls>>,
             phase' = "send" \/ (phase' = "lookup" /\ queue' \in LookedUp)
      PROVE  TypeOK'
  <2>1. << >> \in Seq(Request)
    OBVIOUS
  <2>2. requests' \in Seq([from : Nat \ {0}, to : Nat])
    BY <1>1, <2>1 DEF Request
  <2> QED
    BY <1>1, <2>2 DEF TypeOK
<1>2. ASSUME NEW q \in Queue, NEW m \in Message, PutRecord(q, m) PROVE TypeOK'
  <2>1. Limit[QueueType[q]] \in Int /\ << m >> \in Seq(Message)
    BY QueueClientAssumption DEF QueueClientAssumption
  <2>2. phase' = "send" \/ (phase' = "lookup" /\ q \in LookedUp)
    BY <1>2 DEF PutRecord, LookedUp, PR!LooksUp
  <2> QED
    BY <1>1, <1>2, <2>1, <2>2 DEF PutRecord, Begin
<1>3. ASSUME NEW q \in Queue, NEW l \in Lists, NEW k \in Sizes, BatchPut(q, l, k) PROVE TypeOK'
  <2>1. l \in Seq(Message) /\ k \in Int
    BY QueueClientAssumption DEF QueueClientAssumption
  <2> QED
    BY <1>1, <1>3, <2>1 DEF BatchPut, Begin
<1>4. ASSUME NEW value \in MockAws, NEW level \in BOOLEAN, Configure(value, level) PROVE TypeOK'
  BY <1>4 DEF TypeOK, Configure
<1>5. ASSUME NEW r \in Response, Send(r) PROVE TypeOK'
  <2>1. Batch \in Request /\ In(Batch) \subseteq DOMAIN messages /\ at + size \in Nat
    BY <1>5, BatchIsRequest DEF Send
  <2>2. requests' \in Seq([from : Nat \ {0}, to : Nat])
    BY <1>5, <2>1, Appended DEF Send, Request
  <2>3. accepted' \subseteq DOMAIN messages /\ refused' \subseteq DOMAIN messages
    BY <1>5, <2>1 DEF Send, Answers, TypeOK
  <2>4. at' \in Nat /\ (phase' \in {"idle", "send"} \/ (phase' = "lookup" /\ queue \in LookedUp))
        /\ result' \in Outcome
    BY <1>5, <2>1, Outcomes DEF Send, End, TypeOK, Outcome
  <2> QED
    BY <1>5, <2>2, <2>3, <2>4 DEF Send, TypeOK, Outcome
<1>6. ASSUME NEW kind \in RequestError, SendFails(kind) PROVE TypeOK'
  <2>1. Batch \in Request /\ In(Batch) \subseteq DOMAIN messages
    BY <1>6, BatchIsRequest DEF SendFails
  <2>2. requests' \in Seq([from : Nat \ {0}, to : Nat])
    BY <1>6, <2>1, Appended DEF SendFails, Request
  <2>3. accepted' \subseteq DOMAIN messages
    BY <1>6, <2>1 DEF SendFails, TypeOK
  <2>4. phase' = "idle" /\ result' \in Outcome
    BY <1>6, Outcomes DEF SendFails, End, Outcome
  <2> QED
    BY <1>6, <2>2, <2>3, <2>4 DEF SendFails, TypeOK, Outcome
<1>7. ASSUME NEW r \in Response, LookUp(r) PROVE TypeOK'
  <2>1. phase = "lookup"
    BY <1>7 DEF LookUp
  <2>2. (phase' \in {"idle", "send"} \/ (phase' = "lookup" /\ queue \in LookedUp))
        /\ result' \in Outcome
    BY <1>7, Outcomes DEF LookUp, End, TypeOK, Outcome
  <2> QED
    BY <1>7, <2>2 DEF LookUp, TypeOK, Outcome
<1>8. ASSUME NEW kind \in RequestError, LookUpFails(kind) \/ NoClient(kind) PROVE TypeOK'
  <2>1. (phase' \in {"idle", "send"} \/ (phase' = "lookup" /\ queue \in LookedUp))
        /\ result' \in Outcome
    BY <1>8, Outcomes DEF LookUpFails, NoClient, End, TypeOK, Outcome
  <2> QED
    BY <1>8, <2>1 DEF LookUpFails, NoClient, TypeOK, Outcome
<1>9. CASE BadSize \/ Return
  BY <1>9 DEF BadSize, Return, End, TypeOK, Exception
<1>10. CASE UNCHANGED vars
  BY <1>10 DEF vars, TypeOK
<1> QED
  BY <1>2, <1>3, <1>4, <1>5, <1>6, <1>7, <1>8, <1>9, <1>10 DEF Next

(***************************************************************************)
(* QueueClient: every variable keeps its type, and only an SQS queue that  *)
(* was declared without a url is looked up.                                *)
(***************************************************************************)
THEOREM QueueClientTypeCorrect == Spec => []TypeOK
<1>1. Init => TypeOK
  <2> SUFFICES ASSUME Init PROVE TypeOK
    OBVIOUS
  <2>1. << >> \in Seq(Request) /\ << >> \in Seq(Message)
    OBVIOUS
  <2>2. requests \in Seq([from : Nat \ {0}, to : Nat]) /\ messages \in Seq(Message)
    BY <2>1 DEF Init, Request
  <2>3. accepted \subseteq DOMAIN messages /\ refused \subseteq DOMAIN messages
    BY DEF Init
  <2>4. urls = {} /\ before = {} /\ size = 0 /\ at = 0
    BY DEF Init
  <2>5. mockAws \in MockAws /\ debug \in BOOLEAN /\ op \in {"none", "put", "batch"}
        /\ queue \in Queue /\ phase \in {"idle", "send"} /\ result \in {"none yet", "responses", "None"}
    BY DEF Init
  <2>6. urls \subseteq LookedUp /\ before \subseteq urls
    BY <2>4
  <2>7. size \in Int /\ at \in Nat
    BY <2>4
  <2> QED
    BY <2>2, <2>3, <2>5, <2>6, <2>7 DEF TypeOK
<1> QED
  BY <1>1, TypeStep, PTL DEF Spec

-----------------------------------------------------------------------------
(* The batches.                                                            *)

Handed == IF requests = << >> THEN 0 ELSE requests[Len(requests)].to

Ordered ==
    \A i \in DOMAIN requests :
       LET b == requests[i] IN
       /\ b.from = (IF i = 1 THEN 0 ELSE requests[i - 1].to) + 1
       /\ b.from <= b.to /\ b.to < b.from + size /\ b.to <= Len(messages)

\* Where the loop is: all up to ndx has been handed over, and answered.
Progress ==
    /\ Ordered
    /\ phase = "lookup" => at = 0 /\ requests = << >> /\ accepted = {} /\ refused = {}
    /\ phase = "send" => /\ Handed = Smaller(at, Len(messages))
                         /\ accepted \cup refused \subseteq 1 .. Handed
    /\ result = "responses" /\ phase = "idle" /\ size > 0 => Handed = Len(messages)
    /\ result = "responses" => phase = "idle"

LEMMA NoRequests ==
    ASSUME requests' = << >>
    PROVE  Ordered' /\ Handed' = 0
  BY DEF Ordered, Handed

LEMMA NewBatch ==
    ASSUME TypeOK, Progress, phase = "send", More,
           requests' = Append(requests, Batch), UNCHANGED <<messages, size>>
    PROVE  /\ Ordered'
           /\ Handed' = Smaller(at + size, Len(messages))
           /\ 1 .. Handed \cup In(Batch) = 1 .. Handed'
           /\ 1 .. Handed \cap In(Batch) = {}
           /\ at + size \in Nat
<1>1. /\ Batch \in Request /\ In(Batch) \subseteq DOMAIN messages
      /\ Batch.from = at + 1 /\ Batch.from <= Batch.to
      /\ Batch.to < Batch.from + size /\ Batch.to <= Len(messages)
      /\ Batch.to = Smaller(at + size, Len(messages))
      /\ Len(messages) \in Nat /\ size \in Nat \ {0} /\ at \in Nat /\ at < Len(messages)
      /\ at + size \in Nat
  BY BatchIsRequest
<1>2. PICK n \in Nat : n = Len(requests)
  BY Lengths
<1>3. /\ DOMAIN requests = 1 .. n /\ Len(requests') = n + 1 /\ DOMAIN requests' = 1 .. n + 1
      /\ \A i \in 1 .. n : requests'[i] = requests[i]
      /\ requests'[n + 1] = Batch
  BY <1>1, <1>2, Appended
<1>4. Handed = at
  BY <1>1 DEF Progress, Smaller
<1>5. Handed = IF n = 0 THEN 0 ELSE requests[n].to
  BY <1>2, Lengths DEF Handed
<1>6. Handed' = Batch.to
  BY <1>2, <1>3 DEF Handed
<1>7. ASSUME NEW i \in 1 .. n + 1
      PROVE  LET b == requests'[i] IN
             /\ b.from = (IF i = 1 THEN 0 ELSE requests'[i - 1].to) + 1
             /\ b.from <= b.to /\ b.to < b.from + size /\ b.to <= Len(messages)
  <2>1. CASE i = n + 1
    BY <1>1, <1>2, <1>3, <1>4, <1>5, <2>1
  <2>2. CASE i \in 1 .. n
    <3>1. i = 1 \/ i - 1 \in 1 .. n
      BY <1>2, <2>2
    <3> QED
      BY <1>2, <1>3, <2>2, <3>1 DEF Progress, Ordered
  <2> QED
    BY <1>2, <1>7, <2>1, <2>2
<1>8. Ordered'
  BY <1>3, <1>7 DEF Ordered
<1>9. In(Batch) = Handed + 1 .. Handed' /\ Handed' \in Nat /\ Handed \in Nat /\ Handed <= Handed'
  BY <1>1, <1>4, <1>6 DEF In, Request
<1> QED
  BY <1>1, <1>6, <1>8, <1>9

LEMMA ProgressStep == TypeOK /\ Progress /\ [Next]_vars => Progress'
<1> SUFFICES ASSUME TypeOK, Progress, [Next]_vars PROVE Progress'
  OBVIOUS
<1> USE DEF call, aws, environment
<1>1. ASSUME phase' \in {"lookup", "send"}, at' = 0, requests' = << >>, accepted' = {},
             refused' = {}, result' = "none yet", messages' \in Seq(Message)
      PROVE  Progress'
  <2>0. messages' \in Seq(Message) /\ at' = 0
    BY <1>1
  <2>1. Len(messages') \in Nat
    BY <2>0, LenType
  <2>2. Ordered' /\ Handed' = 0
    BY <1>1, NoRequests
  <2>3. Smaller(at', Len(messages')) = 0
    BY <2>0, <2>1 DEF Smaller
  <2>4. accepted' \cup refused' = {} /\ at' = 0 /\ result' # "responses" /\ requests' = << >>
        /\ accepted' = {} /\ refused' = {}
    BY <1>1
  <2> QED
    BY <2>2, <2>3, <2>4 DEF Progress
<1>2. ASSUME NEW q \in Queue, NEW m \in Message, PutRecord(q, m) PROVE Progress'
  <2>1. << m >> \in Seq(Message)
    OBVIOUS
  <2> QED
    BY <1>1, <1>2, <2>1 DEF PutRecord, Begin
<1>3. ASSUME NEW q \in Queue, NEW l \in Lists, NEW k \in Sizes, BatchPut(q, l, k) PROVE Progress'
  <2>1. l \in Seq(Message)
    BY QueueClientAssumption DEF QueueClientAssumption
  <2> QED
    BY <1>1, <1>3, <2>1 DEF BatchPut, Begin
<1>4. ASSUME NEW value \in MockAws, NEW level \in BOOLEAN, Configure(value, level) PROVE Progress'
  BY <1>4 DEF Progress, Ordered, Handed, Configure
<1>5. ASSUME NEW r \in Response, Send(r) PROVE Progress'
  <2>1. /\ phase = "send" /\ More /\ requests' = Append(requests, Batch)
        /\ UNCHANGED <<messages, size>> /\ result # "responses"
    BY <1>5 DEF Send, Sending, Progress
  <2>2. /\ Ordered' /\ Handed' = Smaller(at + size, Len(messages))
        /\ 1 .. Handed \cup In(Batch) = 1 .. Handed'
    BY <2>1, NewBatch
  <2>3. accepted' \cup refused' \subseteq 1 .. Handed'
    BY <1>5, <2>1, <2>2 DEF Send, Answers, Progress
  <2>4. CASE CheckStatus(r) = "ok"
    BY <1>5, <2>1, <2>2, <2>3, <2>4 DEF Send, Progress
  <2>5. CASE CheckStatus(r) # "ok"
    <3>1. phase' = "idle" /\ result' \in Exception
      BY <1>5, <2>5, Outcomes DEF Send, End
    <3> QED
      BY <2>2, <3>1 DEF Progress, Exception
  <2> QED
    BY <2>4, <2>5
<1>6. ASSUME NEW kind \in RequestError, SendFails(kind) PROVE Progress'
  <2>1. /\ phase = "send" /\ More /\ requests' = Append(requests, Batch)
        /\ UNCHANGED <<messages, size>>
    BY <1>6 DEF SendFails, Sending
  <2>2. Ordered'
    BY <2>1, NewBatch
  <2>3. phase' = "idle" /\ result' # "responses"
    BY <1>6, Outcomes DEF SendFails, End, Exception
  <2> QED
    BY <2>2, <2>3 DEF Progress
<1>7. ASSUME NEW r \in Response, LookUp(r) PROVE Progress'
  <2>1. phase = "lookup" /\ UNCHANGED <<requests, messages, size, at, accepted, refused>>
        /\ (\/ phase' = "send" /\ result' = result
            \/ phase' = "idle" /\ result' # "responses")
    BY <1>7, Outcomes DEF LookUp, End, Exception
  <2> QED
    BY <2>1, Lengths, NoRequests DEF Progress, Smaller
<1>8. ASSUME NEW kind \in RequestError, LookUpFails(kind) PROVE Progress'
  <2>1. phase = "lookup" /\ UNCHANGED <<requests, messages, size, at, accepted, refused>>
        /\ (\/ phase' = "send" /\ result' = result
            \/ phase' = "idle" /\ result' # "responses")
    BY <1>8, Outcomes DEF LookUpFails, End, Exception
  <2> QED
    BY <2>1, Lengths, NoRequests DEF Progress, Smaller
<1>9. ASSUME NEW kind \in RequestError, NoClient(kind) PROVE Progress'
  <2>1. phase' = "idle" /\ result' # "responses"
    BY <1>9, Outcomes DEF NoClient, End, Exception
  <2> QED
    BY <1>9, <2>1 DEF NoClient, Progress, Ordered
<1>10. CASE BadSize
  BY <1>10 DEF BadSize, End, Progress, Ordered
<1>11. CASE Return
  <2>1. size > 0 => Handed = Len(messages)
    <3>1. Len(messages) \in Nat /\ at \in Nat
      BY Lengths
    <3> QED
      BY <1>11, <3>1 DEF Return, Sending, More, Progress, Smaller
  <2> QED
    BY <1>11, <2>1 DEF Return, End, Progress, Ordered, Handed
<1>12. CASE UNCHANGED vars
  BY <1>12 DEF vars, Progress, Ordered, Handed, Smaller
<1> QED
  BY <1>2, <1>3, <1>4, <1>5, <1>6, <1>7, <1>8, <1>9, <1>10, <1>11, <1>12 DEF Next

LEMMA ProgressAlways == Spec => [](TypeOK /\ Progress)
<1>1. Init => Progress
  <2> SUFFICES ASSUME Init PROVE Progress
    OBVIOUS
  <2>1. DOMAIN requests = {}
    BY EmptyDomain DEF Init
  <2> QED
    BY <2>1 DEF Init, Progress, Ordered
<1> QED
  BY <1>1, QueueClientTypeCorrect, ProgressStep, PTL DEF Spec

(***************************************************************************)
(* utils.py:17-25, sqs.py:54, kinesis.py:46: the batches of a call follow  *)
(* each other without gap or overlap, are of the size asked for, and cover *)
(* all messages of a call that returns answers.                            *)
(***************************************************************************)
THEOREM MessagesGoOnceInOrder == Spec => []EachOnceInOrder
<1>1. TypeOK /\ Progress => EachOnceInOrder
  <2> SUFFICES ASSUME TypeOK, Progress PROVE EachOnceInOrder
    OBVIOUS
  <2>1. ASSUME result = "responses", size > 0, messages # << >>
        PROVE  requests # << >> /\ requests[Len(requests)].to = Len(messages)
    <3>1. Len(messages) # 0
      BY <2>1, Lengths
    <3> QED
      BY <2>1, <3>1 DEF Progress, Handed
  <2> QED
    BY <2>1 DEF EachOnceInOrder, Progress, Ordered
<1> QED
  BY <1>1, ProgressAlways, PTL

-----------------------------------------------------------------------------
(* What became of the messages.                                            *)

\* As in FailureIsTold, with all that was handed over answered while the call
\* goes on.
Told ==
    /\ \A i \in DOMAIN requests :
          \/ In(requests[i]) \subseteq accepted \cup refused
          \/ i = Len(requests) /\ phase = "idle" /\ result # "responses"
    /\ phase = "send" => 1 .. Handed \subseteq accepted \cup refused
    /\ size <= 0 => at = 0
    /\ result = "responses" =>
          accepted \cup refused = (IF size > 0 THEN DOMAIN messages ELSE {})
    /\ accepted \cap refused = {}
    /\ result = "None" => Mocking /\ phase = "idle"

LEMMA ToldStep == TypeOK /\ Progress /\ Told /\ [Next]_vars => Told'
<1> SUFFICES ASSUME TypeOK, Progress, Told, [Next]_vars PROVE Told'
  OBVIOUS
<1> USE DEF call, aws, environment
<1>1. ASSUME requests' = << >>, accepted' = {}, refused' = {}, result' = "none yet", at' = 0
      PROVE  Told'
  <2>1. DOMAIN requests' = {} /\ Handed' = 0
    BY <1>1, EmptyDomain, NoRequests
  <2>2. 1 .. Handed' = {}
    BY <2>1
  <2>3. result' # "responses" /\ result' # "None"
    BY <1>1
  <2>4. accepted' \cap refused' = {}
    BY <1>1
  <2>5. at' = 0
    BY <1>1
  <2> QED
    BY <2>1, <2>2, <2>3, <2>4, <2>5 DEF Told
<1>2. ASSUME NEW q \in Queue, NEW m \in Message, PutRecord(q, m) PROVE Told'
  BY <1>1, <1>2 DEF PutRecord, Begin
<1>3. ASSUME NEW q \in Queue, NEW l \in Lists, NEW k \in Sizes, BatchPut(q, l, k) PROVE Told'
  BY <1>1, <1>3 DEF BatchPut, Begin
<1>4. ASSUME NEW value \in MockAws, NEW level \in BOOLEAN, Configure(value, level) PROVE Told'
  BY <1>4 DEF Told, Configure
<1>5. ASSUME phase \in {"lookup", "send"}, UNCHANGED <<aws, call, at>>,
             \/ phase = "lookup" /\ phase' = "send" /\ UNCHANGED result
             \/ phase' = "idle" /\ result' \notin {"None", "responses"}
             \/ phase' = "idle" /\ result' = "None" /\ Mocking /\ UNCHANGED environment
      PROVE  Told'
  <2>1. result # "responses" /\ (phase' # "idle" => result' # "responses")
    BY <1>5 DEF Progress
  <2>2. phase' = "send" => 1 .. Handed' = {}
    BY <1>5 DEF Progress, Handed
  <2>3. size' = size /\ at' = at /\ result' # "responses"
    BY <1>5, <2>1
  <2>4. UNCHANGED <<requests, accepted, refused>>
    BY <1>5
  <2>5. result' = "None" => Mocking' /\ phase' = "idle"
    BY <1>5 DEF Told, Mocking
  <2>6. \A i \in DOMAIN requests :
           \/ In(requests[i]) \subseteq accepted \cup refused
           \/ i = Len(requests) /\ phase' = "idle" /\ result' # "responses"
    BY <1>5, <2>3 DEF Told
  <2> QED
    BY <2>2, <2>3, <2>4, <2>5, <2>6 DEF Told, In
<1>6. ASSUME NEW r \in Response, LookUp(r) PROVE Told'
  <2>1. End(CheckStatus(r)) /\ CheckStatus(r) # "ok" =>
            phase' = "idle" /\ result' \notin {"None", "responses"}
    BY Outcomes DEF End
  <2> QED
    BY <1>5, <1>6, <2>1 DEF LookUp
<1>7. \A kind : Mock(kind) = "None" => Mocking
  BY DEF Mock
<1>8. ASSUME NEW kind \in RequestError, LookUpFails(kind) PROVE Told'
  BY <1>5, <1>7, <1>8, Outcomes DEF LookUpFails, End
<1>9. ASSUME NEW kind \in RequestError, NoClient(kind) PROVE Told'
  <2>1. Mock(kind) # "None" => Raised(Mock(kind)) \notin {"None", "responses"}
    BY Outcomes DEF Exception
  <2> QED
    BY <1>5, <1>7, <1>9, <2>1 DEF NoClient, End
<1>10. CASE BadSize
  BY <1>5, <1>10 DEF BadSize, End
<1>16. CASE Return
  <2>1. /\ phase = "send" /\ ~More /\ size # 0 /\ phase' = "idle" /\ result' = "responses"
        /\ UNCHANGED <<messages, size, at, requests, accepted, refused>>
    BY <1>16 DEF Return, Sending, End
  <2>2. accepted \cup refused = 1 .. Smaller(at, Len(messages))
    BY <2>1 DEF Told, Progress
  <2>3. size \in Int /\ at \in Nat /\ Len(messages) \in Nat
        /\ DOMAIN messages = 1 .. Len(messages)
    BY Lengths DEF TypeOK
  <2>4. size > 0 => Smaller(at, Len(messages)) = Len(messages)
    BY <2>1, <2>3 DEF More, Smaller
  <2>5. ~(size > 0) => Smaller(at, Len(messages)) = 0
    BY <2>1, <2>3 DEF Told, Smaller
  <2>6. accepted \cup refused = (IF size > 0 THEN DOMAIN messages ELSE {})
    BY <2>2, <2>3, <2>4, <2>5
  <2>7. \A i \in DOMAIN requests : In(requests[i]) \subseteq accepted \cup refused
    BY <2>1 DEF Told
  <2> QED
    BY <2>1, <2>6, <2>7 DEF Told, In
<1>11. ASSUME phase = "send", More, requests' = Append(requests, Batch),
              accepted \subseteq accepted', refused \subseteq refused'
       PROVE  /\ \A i \in 1 .. Len(requests) : In(requests'[i]) \subseteq accepted' \cup refused'
              /\ DOMAIN requests' = 1 .. Len(requests) + 1 /\ Len(requests) \in Nat
              /\ requests'[Len(requests) + 1] = Batch /\ Len(requests') = Len(requests) + 1
  <2>1. Batch \in Request
    BY <1>11, BatchIsRequest
  <2>2. /\ DOMAIN requests = 1 .. Len(requests)
        /\ \A i \in 1 .. Len(requests) : requests'[i] = requests[i]
    BY <1>11, <2>1, Appended
  <2>3. \A i \in 1 .. Len(requests) : In(requests[i]) \subseteq accepted \cup refused
    BY <1>11, <2>2 DEF Told
  <2> QED
    BY <1>11, <2>1, <2>2, <2>3, Appended
<1>12. ASSUME phase = "send", More, UNCHANGED <<messages, size>>
       PROVE  In(Batch) \cap (accepted \cup refused) = {}
  <2>1. /\ Batch.from = at + 1 /\ Batch.to \in Nat /\ at \in Nat /\ at < Len(messages)
        /\ Len(messages) \in Nat
    BY <1>12, BatchIsRequest DEF Request
  <2>2. accepted \cup refused \subseteq 1 .. at
    BY <1>12, <2>1 DEF Progress, Smaller
  <2> QED
    BY <2>1, <2>2 DEF In
<1>13. ASSUME NEW r \in Response, Send(r) PROVE Told'
  <2>1. /\ phase = "send" /\ More /\ requests' = Append(requests, Batch)
        /\ UNCHANGED <<messages, size, environment>>
    BY <1>13 DEF Send, Sending
  <2>2. accepted \subseteq accepted' /\ refused \subseteq refused' /\ accepted' \cap refused' = {}
    BY <1>12, <1>13, <2>1 DEF Send, Answers, Told
  <2>3. /\ \A i \in 1 .. Len(requests) : In(requests'[i]) \subseteq accepted' \cup refused'
        /\ DOMAIN requests' = 1 .. Len(requests) + 1 /\ Len(requests) \in Nat
        /\ requests'[Len(requests) + 1] = Batch /\ Len(requests') = Len(requests) + 1
    BY <1>11, <2>1, <2>2
  <2>4. CASE CheckStatus(r) = "ok"
    <3>1. r = "2xx"
      BY <2>4 DEF CheckStatus, Response
    <3>2. In(Batch) \subseteq accepted' \cup refused'
      BY <1>13, <3>1 DEF Send, Answers
    <3>3. \A i \in DOMAIN requests' : In(requests'[i]) \subseteq accepted' \cup refused'
      BY <2>3, <3>2
    <3>4. UNCHANGED <<phase, result, environment>> /\ size > 0 /\ size' = size
      BY <1>13, <2>4 DEF Send, More
    <3>5. 1 .. Handed' \subseteq accepted' \cup refused'
      BY <2>1, <2>2, <3>2, NewBatch DEF Told
    <3>6. result' # "responses" /\ result' # "None"
      BY <2>1, <3>4 DEF Progress, Told
    <3>7. size \in Nat \ {0}
      BY <2>1, BatchIsRequest
    <3>8. ~(size' <= 0)
      BY <3>4, <3>7
    <3> QED
      BY <2>2, <3>3, <3>5, <3>6, <3>8 DEF Told
  <2>5. CASE CheckStatus(r) # "ok"
    <3>1. phase' = "idle" /\ result' \in Exception /\ at' = at /\ size' = size
      BY <1>13, <2>5, Outcomes DEF Send, End
    <3>2. result' # "responses" /\ result' # "None"
      BY <3>1 DEF Exception
    <3> QED
      BY <2>2, <2>3, <3>1, <3>2 DEF Told
  <2> QED
    BY <2>4, <2>5
<1>14. ASSUME NEW kind \in RequestError, SendFails(kind) PROVE Told'
  <2>1. /\ phase = "send" /\ More /\ requests' = Append(requests, Batch)
        /\ UNCHANGED <<messages, size, environment>>
    BY <1>14 DEF SendFails, Sending
  <2>2. accepted \subseteq accepted' /\ refused' = refused /\ accepted' \cap refused' = {}
    BY <1>12, <1>14, <2>1 DEF SendFails, Told
  <2>3. /\ \A i \in 1 .. Len(requests) : In(requests'[i]) \subseteq accepted' \cup refused'
        /\ DOMAIN requests' = 1 .. Len(requests) + 1 /\ Len(requests) \in Nat
        /\ requests'[Len(requests) + 1] = Batch /\ Len(requests') = Len(requests) + 1
    BY <1>11, <2>1, <2>2
  <2>4. phase' = "idle" /\ result' # "responses" /\ (result' = "None" => Mocking')
        /\ at' = at /\ size' = size
    BY <1>7, <1>14, <2>1, Outcomes DEF SendFails, End, Exception, Mocking
  <2> QED
    BY <2>2, <2>3, <2>4 DEF Told
<1>15. CASE UNCHANGED vars
  BY <1>15 DEF vars, Told, Mocking, Handed, In
<1> QED
  BY <1>2, <1>3, <1>4, <1>6, <1>8, <1>9, <1>10, <1>16, <1>13, <1>14, <1>15
  DEF Next

(***************************************************************************)
(* utils.py:66-86, sqs.py:24-41, kinesis.py:20-37: answers tell of every   *)
(* message of their call, unless its batch_size was negative; however a    *)
(* call ends, they tell of all its batches but the last.                   *)
(***************************************************************************)
THEOREM CallsTellFailure == Spec => []FailureIsTold
<1>1. Init => Told
  <2> SUFFICES ASSUME Init PROVE Told
    OBVIOUS
  <2>1. DOMAIN requests = {}
    BY EmptyDomain DEF Init
  <2> QED
    BY <2>1 DEF Init, Told
<1>2. TypeOK /\ Told => FailureIsTold
  <2> SUFFICES ASSUME TypeOK, Told PROVE FailureIsTold
    OBVIOUS
  <2>1. PICK k \in Nat : k = Len(requests) /\ DOMAIN requests = 1 .. k
    BY Lengths
  <2>2. \A i \in 1 .. k - 1 : i \in 1 .. k /\ i # k
    OBVIOUS
  <2> QED
    BY <2>1, <2>2 DEF Told, FailureIsTold
<1> QED
  BY <1>1, <1>2, QueueClientTypeCorrect, ProgressAlways, ToldStep, PTL DEF Spec

-----------------------------------------------------------------------------
(* put_record and its promise.                                             *)

\* What put_record has done so far, as its caller will come to see it.
Promise ==
    /\ phase = "idle" \/ op \in {"put", "batch"}
    /\ phase # "idle" /\ op = "put" => size = Limit[Type]
    /\ phase = "lookup" => op = "put" /\ urls = before
    /\ phase = "send" /\ op = "batch" => urls = before
    /\ phase = "send" /\ op = "put" =>
          urls \in IF queue \notin LookedUp \/ queue \in before THEN {before}
                   ELSE IF Mocking THEN {before, before \cup {queue}}
                   ELSE {before \cup {queue}}
    /\ phase = "lookup" => queue \notin before

LEMMA PromiseStep == TypeOK /\ Promise /\ [Next]_vars => Promise'
<1> SUFFICES ASSUME TypeOK, Promise, [Next]_vars PROVE Promise'
  OBVIOUS
<1> USE DEF call, aws, environment
<1>1. ASSUME NEW q \in Queue, NEW m \in Message, PutRecord(q, m) PROVE Promise'
  BY <1>1 DEF PutRecord, Begin, Promise, PR!LooksUp, LookedUp, Type
<1>2. ASSUME NEW q \in Queue, NEW l \in Lists, NEW k \in Sizes, BatchPut(q, l, k) PROVE Promise'
  BY <1>2 DEF BatchPut, Begin, Promise
<1>3. ASSUME NEW value \in MockAws, NEW level \in BOOLEAN, Configure(value, level) PROVE Promise'
  BY <1>3 DEF Promise, Configure
<1>4. ASSUME phase' = "idle" PROVE Promise'
  BY <1>4 DEF Promise
<1>5. ASSUME phase = "send", phase' = "send", UNCHANGED <<environment, urls, call>> PROVE Promise'
  BY <1>5 DEF Promise, Type, Mocking
<1>6. ASSUME NEW r \in Response, Send(r) PROVE Promise'
  BY <1>4, <1>5, <1>6 DEF Send, Sending, End
<1>7. ASSUME NEW r \in Response, LookUp(r) PROVE Promise'
  <2>1. phase = "lookup" /\ op = "put" /\ urls = before /\ size = Limit[Type]
        /\ UNCHANGED <<environment, call>>
    BY <1>7 DEF LookUp, Promise
  <2>2. CASE CheckStatus(r) = "ok"
    <3>1. phase' = "send" /\ urls' = before \cup {queue}
      BY <1>7, <2>1, <2>2 DEF LookUp
    <3>2. queue \in LookedUp /\ queue \notin before
      BY <2>1 DEF TypeOK, Promise
    <3>3. phase' # "idle" /\ phase' # "lookup" /\ op' = "put" /\ queue' = queue /\ before' = before
      BY <2>1, <3>1
    <3>4. size' = Limit[Type']
      BY <2>1 DEF Type
    <3> QED
      BY <3>1, <3>2, <3>3, <3>4 DEF Promise
  <2>3. CASE CheckStatus(r) # "ok"
    BY <1>4, <1>7, <2>3 DEF LookUp, End
  <2> QED
    BY <2>2, <2>3
<1>8. ASSUME NEW kind \in RequestError, LookUpFails(kind) PROVE Promise'
  BY <1>4, <1>8 DEF LookUpFails, End, Promise, Type, Mocking, Mock
<1>9. ASSUME NEW kind \in RequestError, NoClient(kind) \/ SendFails(kind) PROVE Promise'
  BY <1>4, <1>9 DEF NoClient, SendFails, End
<1>10. CASE BadSize \/ Return
  BY <1>4, <1>10 DEF BadSize, Return, End
<1>11. CASE UNCHANGED vars
  BY <1>11 DEF vars, Promise, Type, Mocking
<1> QED
  BY <1>1, <1>2, <1>3, <1>6, <1>7, <1>8, <1>9, <1>10, <1>11 DEF Next

\* The url Pipeline sees put_record remember.
Seen == IF phase = "idle" THEN urls ELSE before

LEMMA PromiseKept ==
    ASSUME TypeOK, Promise, Next,
           op = "put", phase # "idle", phase' = "idle"
    PROVE  IF result' \in Exception
           THEN Began!PutRaises(queue, result', Mocking)
           ELSE Began!PutReturns(queue, Mocking)
<1> USE DEF call, aws, environment
<1>1. Seen = before /\ Seen' = urls'
  BY DEF Seen
<1>2. QueueType[queue] \in {"SQS", "KINESIS"} /\ (queue \in LookedUp => QueueType[queue] = "SQS")
      /\ (queue \notin LookedUp => QueueType[queue] # "SQS" \/ queue \in HasUrl)
      /\ (queue \in LookedUp => queue \notin HasUrl)
  BY QueueClientAssumption DEF QueueClientAssumption, TypeOK, LookedUp
<1>3. size # 0
  BY QueueClientAssumption, <1>2 DEF QueueClientAssumption, Promise, Type, TypeOK
<1>4. ~TooLarge
  BY DEF TooLarge
<1>5. ASSUME phase = "lookup", urls' = urls, result' \in {"AssertionError", "Exception"}
      PROVE  Began!PutRaises(queue, result', Mocking)
  <2>1. queue \in LookedUp /\ queue \notin before /\ urls = before
    BY <1>5 DEF Promise, TypeOK
  <2> QED
    BY <1>1, <1>2, <1>5, <2>1
       DEF Seen, Began!PutRaises, Began!LooksUp, Began!ServiceError
<1>6. ASSUME phase = "send", urls' = urls PROVE Began!Resolved(queue, Mocking)
  BY <1>1, <1>2, <1>6 DEF Seen, Began!Resolved, Began!LooksUp, Promise
<1>7. ASSUME phase = "send", urls' = urls, result' \notin Exception
      PROVE  Began!PutReturns(queue, Mocking)
  BY <1>6, <1>7 DEF Began!PutReturns
<1>8. ASSUME phase = "send", urls' = urls, NEW kind \in {"AssertionError", "Exception"},
             result' = Raised(kind)
      PROVE  Began!PutRaises(queue, result', Mocking)
  BY <1>2, <1>6, <1>8
     DEF Raised, Type, Began!PutRaises, Began!SendError, Began!ServiceError
<1>9. ASSUME NEW r \in Response, LookUp(r) PROVE Began!PutRaises(queue, result', Mocking)
  BY <1>5, <1>9, Outcomes DEF LookUp, End
<1>10. ASSUME NEW kind \in RequestError, LookUpFails(kind)
       PROVE  Began!PutRaises(queue, result', Mocking)
  BY <1>5, <1>10, Outcomes DEF LookUpFails, End
<1>11. ASSUME NEW r \in Response, Send(r) PROVE Began!PutRaises(queue, result', Mocking)
  BY <1>8, <1>11, Outcomes DEF Send, Sending, End
<1>12. ASSUME NEW kind \in RequestError, NoClient(kind) \/ SendFails(kind)
       PROVE  IF result' \in Exception THEN Began!PutRaises(queue, result', Mocking)
              ELSE Began!PutReturns(queue, Mocking)
  <2>1. phase = "send" /\ urls' = urls
        /\ result' = IF Mock(kind) = "None" THEN "None" ELSE Raised(Mock(kind))
    BY <1>12 DEF NoClient, SendFails, Sending, End
  <2>2. CASE Mock(kind) = "None"
    BY <1>7, <2>1, <2>2 DEF Exception
  <2>3. CASE Mock(kind) # "None"
    <3>1. Mock(kind) = "Exception" /\ result' = Raised("Exception") /\ result' \in Exception
      BY <2>1, <2>3, Outcomes
    <3> QED
      BY <1>8, <2>1, <3>1
  <2> QED
    BY <2>2, <2>3
<1>13. CASE Return
  BY <1>7, <1>13 DEF Return, Sending, End, Exception
<1>14. ~BadSize
  BY <1>3, <1>4 DEF BadSize
<1>15. \A r \in Response : LookUp(r) \/ Send(r) => result' \in Exception
  BY Outcomes DEF LookUp, Send, Sending, End, Exception
<1>16. \A kind \in RequestError : LookUpFails(kind) => result' \in Exception
  BY Outcomes DEF LookUpFails, End, Exception
<1> QED
  BY <1>9, <1>10, <1>11, <1>12, <1>13, <1>14, <1>15, <1>16
     DEF Next, PutRecord, BatchPut, Begin, Configure

(***************************************************************************)
(* pipeline.py:533-544: put_record keeps the promise Pipeline is built on. *)
(***************************************************************************)
THEOREM PutRecordKeepsItsPromise == Spec => PutKeepsPromise
<1>1. Init => Promise
  BY DEF Init, Promise
<1>2. TypeOK /\ Promise /\ [Next]_vars =>
        [IF op = "put" /\ phase # "idle" /\ phase' = "idle"
         THEN IF result' \in Exception
              THEN Began!PutRaises(queue, result', Mocking)
              ELSE Began!PutReturns(queue, Mocking)
         ELSE UNCHANGED (IF phase = "idle" THEN urls ELSE before)]_vars
  <2> SUFFICES ASSUME TypeOK, Promise, Next PROVE
        IF op = "put" /\ phase # "idle" /\ phase' = "idle"
        THEN IF result' \in Exception
             THEN Began!PutRaises(queue, result', Mocking)
             ELSE Began!PutReturns(queue, Mocking)
        ELSE UNCHANGED (IF phase = "idle" THEN urls ELSE before)
    OBVIOUS
  <2>1. ASSUME phase = "idle" PROVE (IF phase' = "idle" THEN urls' ELSE before') = urls
    BY <2>1 DEF Next, PutRecord, BatchPut, Begin, Configure, LookUp, Send, Sending,
                LookUpFails, NoClient, SendFails, BadSize, Return, call
  <2>2. ASSUME phase # "idle", phase' = "idle", op # "put" PROVE urls' = before
    BY <2>2 DEF Next, PutRecord, BatchPut, Begin, Configure, LookUp, Send, Sending,
                LookUpFails, NoClient, SendFails, BadSize, Return, call, Promise, TypeOK
  <2>3. ASSUME phase # "idle", phase' # "idle" PROVE before' = before
    BY <2>3 DEF Next, PutRecord, BatchPut, Begin, Configure, LookUp, Send, Sending, End,
                LookUpFails, NoClient, SendFails, BadSize, Return, call
  <2> QED
    BY <2>1, <2>2, <2>3, PromiseKept
<1> QED
  BY <1>1, <1>2, QueueClientTypeCorrect, PromiseStep, PTL DEF Spec, PutKeepsPromise

============================================================================
