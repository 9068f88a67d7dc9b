--------------------------- MODULE PipelineProofs ---------------------------
(***************************************************************************)
(* Theorems about process_event and the recursion below it.  The steps     *)
(* within a record either push work and go on (Proceed), or push a mark    *)
(* and raise (Raise); most arguments are made once for each of the two.    *)
(***************************************************************************)
EXTENDS Pipeline, SequenceTheorems, FiniteSetTheorems, TLAPS

LEMMA ListShape ==
    ASSUME NEW s, IsList(s)
    PROVE  /\ Len(s) \in Nat
           /\ DOMAIN s = 1 .. Len(s)
           /\ s = [i \in 1 .. Len(s) |-> s[i]]
BY LenProperties DEF IsList

LEMMA MappedList ==
    ASSUME NEW s, IsList(s), NEW t, t = [i \in DOMAIN s |-> t[i]]
    PROVE  IsList(t) /\ DOMAIN t = DOMAIN s
<1>1. DOMAIN t = 1 .. Len(s) /\ Len(s) \in Nat
  BY ListShape
<1>2. t \in [1 .. Len(s) -> Range(t)]
  BY <1>1 DEF Range
<1> QED
  BY <1>1, <1>2, SeqDef, ListShape DEF IsList

LEMMA EntryLists ==
    ASSUME NEW e, IsEntry(e), e.kind = "Action"
    PROVE  IsList(e.functions) /\ IsList(e.paths) /\ IsList(e.queues)
BY SeqOfRange DEF IsEntry, IsList

LEMMA ConcatList ==
    ASSUME NEW s, IsList(s), NEW t, IsList(t)
    PROVE  /\ IsList(s \o t)
           /\ \A i \in DOMAIN (s \o t) :
                 \/ i \in DOMAIN s /\ (s \o t)[i] = s[i]
                 \/ i - Len(s) \in DOMAIN t /\ (s \o t)[i] = t[i - Len(s)]
<1> DEFINE S == Range(s) \cup Range(t)
<1>1. s \in Seq(S) /\ t \in Seq(S)
  BY SeqMonotonic DEF IsList
<1>2. s \o t \in Seq(S)
  BY <1>1, ConcatProperties
<1>3. DOMAIN s = 1 .. Len(s) /\ DOMAIN t = 1 .. Len(t) /\ Len(s) \in Nat /\ Len(t) \in Nat
  BY ListShape
<1>4. /\ Len(s \o t) = Len(s) + Len(t)
      /\ \A i \in 1 .. Len(s) + Len(t) :
            (s \o t)[i] = IF i <= Len(s) THEN s[i] ELSE t[i - Len(s)]
  BY <1>1, ConcatProperties
<1>5. DOMAIN (s \o t) = 1 .. Len(s) + Len(t)
  BY <1>2, <1>4, LenProperties
<1> HIDE DEF S
<1>6. IsList(s \o t)
  BY <1>2, SeqOfRange DEF IsList
<1> QED
  BY <1>3, <1>4, <1>5, <1>6

LEMMA ConcatAt ==
    ASSUME NEW s, IsList(s), NEW t, IsList(t)
    PROVE  /\ Len(s) \in Nat /\ DOMAIN s = 1 .. Len(s)
           /\ Len(t) \in Nat /\ DOMAIN t = 1 .. Len(t)
           /\ DOMAIN (s \o t) = 1 .. Len(s) + Len(t)
           /\ \A i \in DOMAIN s : (s \o t)[i] = s[i]
           /\ \A i \in DOMAIN t : (s \o t)[Len(s) + i] = t[i]
<1>1. s \in Seq(Range(s) \cup Range(t)) /\ t \in Seq(Range(s) \cup Range(t))
  BY SeqMonotonic DEF IsList
<1>2. /\ Len(s) \in Nat /\ DOMAIN s = 1 .. Len(s)
      /\ Len(t) \in Nat /\ DOMAIN t = 1 .. Len(t)
  BY ListShape
<1>3. /\ s \o t \in Seq(Range(s) \cup Range(t)) /\ Len(s \o t) = Len(s) + Len(t)
      /\ \A i \in 1 .. Len(s) + Len(t) :
            (s \o t)[i] = IF i <= Len(s) THEN s[i] ELSE t[i - Len(s)]
  BY <1>1, ConcatProperties
<1>4. DOMAIN (s \o t) = 1 .. Len(s) + Len(t)
  BY <1>3, LenProperties
<1> QED
  BY <1>2, <1>3, <1>4

LEMMA SingletonList ==
    ASSUME NEW x
    PROVE  IsList(<< x >>) /\ \A i \in DOMAIN << x >> : << x >>[i] = x
<1>1. << x >> \in Seq({x})
  OBVIOUS
<1>2. IsList(<< x >>)
  BY <1>1, SeqOfRange DEF IsList
<1> QED
  BY <1>2

LEMMA TailList ==
    ASSUME NEW s, IsList(s), s # << >>
    PROVE  /\ IsList(Tail(s))
           /\ 1 \in DOMAIN s /\ Head(s) = s[1]
           /\ \A i \in DOMAIN Tail(s) : i + 1 \in DOMAIN s /\ Tail(s)[i] = s[i + 1]
<1>1. s \in Seq(Range(s)) /\ Len(s) \in Nat /\ DOMAIN s = 1 .. Len(s)
  BY ListShape DEF IsList
<1>2. /\ Head(s) = s[1]
      /\ Tail(s) \in Seq(Range(s))
      /\ Len(Tail(s)) = Len(s) - 1
      /\ \A i \in 1 .. Len(Tail(s)) : Tail(s)[i] = s[i + 1]
  BY <1>1, HeadTailProperties
<1>3. Len(s) > 0
  BY <1>1, EmptySeq
<1>4. DOMAIN Tail(s) = 1 .. Len(s) - 1
  BY <1>2, LenProperties
<1>5. IsList(Tail(s))
  BY <1>2, SeqOfRange DEF IsList
<1> QED
  BY <1>1, <1>2, <1>3, <1>4, <1>5

-----------------------------------------------------------------------------
(* Pushing on the agenda, popping from it, and the items that are pushed.  *)

LEMMA PushStack ==
    ASSUME NEW items, IsStack(items), NEW stack, IsStack(stack), stack # << >>
    PROVE  IsStack(items \o Tail(stack))
<1>1. IsList(Tail(stack)) /\ \A i \in DOMAIN Tail(stack) : IsItem(Tail(stack)[i])
  BY TailList DEF IsStack
<1> QED
  BY <1>1, ConcatList DEF IsStack

LEMMA EmptyStack == IsStack(<< >>)
<1>1. << >> \in Seq(Range(<< >>)) /\ DOMAIN << >> = {}
  BY EmptySeq
<1> QED
  BY <1>1 DEF IsStack, IsList

LEMMA OneItemStack ==
    ASSUME NEW item, IsItem(item)
    PROVE  IsStack(<< item >>)
BY SingletonList DEF IsStack

LEMMA ConcatStack ==
    ASSUME NEW s, IsStack(s), NEW t, IsStack(t)
    PROVE  IsStack(s \o t)
BY ConcatList DEF IsStack

LEMMA MappedStack ==
    ASSUME NEW s, IsList(s), NEW t, t = [i \in DOMAIN s |-> t[i]],
           \A i \in DOMAIN s : IsItem(t[i])
    PROVE  IsStack(t)
BY MappedList DEF IsStack

LEMMA TopIsItem ==
    ASSUME IsStack(agenda), agenda # << >>
    PROVE  IsItem(Top)
BY TailList DEF IsStack, Top

-----------------------------------------------------------------------------
(* Type correctness.                                                       *)

\* The conjuncts of TypeOK about the variables no step within a record touches.
LEMMA ProceedType ==
    ASSUME TypeOK, agenda # << >>,
           NEW items, IsStack(items), NEW newRet \in Return,
           Proceed(items, newRet), urls' \subseteq Queue, phase = "run"
    PROVE  TypeOK'
<1>1. IsStack(items \o Rest)
  BY PushStack DEF TypeOK, Rest
<1> QED
  BY <1>1 DEF TypeOK, PE!TypeOK, PE!Ended, PE!Running, PE!Positions, Proceed, loop, IsStack, IsList

LEMMA RaiseType ==
    ASSUME TypeOK, agenda # << >>, phase = "run",
           NEW items, IsStack(items), NEW kind \in Exception, NEW origin,
           Raise(kind, origin, items), urls' \subseteq Queue
    PROVE  TypeOK'
<1>1. IsStack(items \o Rest)
  BY PushStack DEF TypeOK, Rest
<1>2. n \in 1 .. Len(batch)
  BY DEF TypeOK, PE!TypeOK
<1>3. raised' \subseteq (1 .. n) \X Exception
  BY <1>2 DEF TypeOK, Raise
<1>4. exc'.kind \in Exception
  BY DEF Raise
<1> QED
  BY <1>1, <1>3, <1>4 DEF TypeOK, PE!TypeOK, PE!Ended, PE!Running, PE!Positions, Raise, loop, IsStack, IsList

\* A path's entries, before and after normalize_actions.
LEMMA PathsAreLists ==
    ASSUME TypeOK, NEW p \in DOMAIN Paths
    PROVE  IsList(Paths[p]) /\ \A i \in DOMAIN Paths[p] : IsEntry(Paths[p][i])
<1>1. CASE Calls
  <2>1. Paths[p] = << Callable >>
    BY <1>1 DEF Paths
  <2>2. IsEntry(Callable)
    BY <1>1, PipelineAssumption DEF Calls, IsEntry, Callable, TypeOK, IsDeployment
  <2> QED
    BY <2>1, <2>2, SingletonList
<1>2. CASE ~Calls
  BY <1>2, PipelineAssumption DEF Paths, TypeOK, IsDeployment
<1> QED
  BY <1>1, <1>2

LEMMA NormalizedAreEntries ==
    ASSUME NEW entries, IsList(entries), \A i \in DOMAIN entries : IsEntry(entries[i])
    PROVE  /\ IsList(NormalizedActions(entries))
           /\ \A i \in DOMAIN NormalizedActions(entries) :
                 IsEntry(NormalizedActions(entries)[i])
<1>1. CASE \A i \in DOMAIN entries :
              entries[i].kind = "function" /\ Def[entries[i].f].isFunction
  <2> DEFINE fs == [i \in DOMAIN entries |-> entries[i].f]
             action == Action(fs, << >>, << >>)
  <2>1. IsList(fs) /\ DOMAIN fs = DOMAIN entries /\ IsList(<< >>)
    BY MappedList, EmptyStack DEF IsStack
  <2>2. fs \in Seq(Func)
    <3>1. \A i \in DOMAIN entries : entries[i].f \in Func
      BY <1>1 DEF IsEntry
    <3>2. DOMAIN entries = 1 .. Len(entries) /\ Len(entries) \in Nat
      BY ListShape
    <3>3. fs \in [1 .. Len(entries) -> Func]
      BY <3>1, <3>2
    <3> QED
      BY <3>2, <3>3, SeqDef
  <2>3. IsEntry(action)
    BY <2>1, <2>2 DEF IsEntry, Action
  <2>4. NormalizedActions(entries) = << action >>
    BY <1>1 DEF NormalizedActions
  <2> HIDE DEF action, fs
  <2> QED
    BY <2>3, <2>4, SingletonList
<1>2. CASE ~ \A i \in DOMAIN entries :
                entries[i].kind = "function" /\ Def[entries[i].f].isFunction
  BY <1>2 DEF NormalizedActions
<1> QED
  BY <1>1, <1>2

\* Everything above the first execute_payload has used its depth legally.
LEMMA TopDepth ==
    ASSUME TypeOK, NEW do, Reached(do)
    PROVE  /\ agenda # << >> /\ phase = "run"
           /\ IsItem(Top) /\ Top.do = do
           /\ Top.depth \in 0 .. MaxDepth + 1 /\ MaxDepth \in Nat
BY TopIsItem, PipelineAssumption DEF TypeOK, Reached, IsItem

LEMMA PayloadsType ==
    ASSUME TypeOK, Payloads
    PROVE  TypeOK'
<1> USE EmptyStack
<1>1. CASE ExecutePath
  <2> DEFINE actions == NormalizedActions(Paths[Top.target])
             items   == [i \in DOMAIN actions |->
                            ExecuteAction(actions[i], Top.kwargs, Top.depth)]
  <2>1. Reached("execute_payload") /\ Top.target \in DOMAIN Paths /\ Top.depth <= MaxDepth
    BY <1>1 DEF ExecutePath, Executing
  <2>2. IsList(actions) /\ \A i \in DOMAIN actions : IsEntry(actions[i])
    BY <2>1, PathsAreLists, NormalizedAreEntries
  <2>3. Proceed(items, "None") /\ UNCHANGED urls
    BY <1>1 DEF ExecutePath
  <2> HIDE DEF actions
  <2>4. \A i \in DOMAIN actions : IsItem(items[i])
    BY <2>1, <2>2, TopDepth DEF IsItem, ExecuteAction
  <2>5. IsStack(items)
    BY <2>2, <2>4, MappedStack
  <2> HIDE DEF items
  <2> QED
    BY <2>1, <2>3, <2>5, ProceedType, TopDepth DEF TypeOK, Return
<1>2. CASE EmptyPath \/ UndefinedPath
  BY <1>2, RaiseType, TopDepth DEF EmptyPath, UndefinedPath, Executing, Exception, TypeOK
<1>3. CASE RecursionLimit
  BY <1>3, RaiseType, TopDepth DEF RecursionLimit, Exception, LPBaseException, TypeOK
<1>4. ASSUME Put \/ PutFails PROVE urls' \subseteq Queue
  BY <1>4 DEF Put, PutFails, Executing, PutReturns, PutRaises, Resolved, TypeOK
<1>5. CASE Put
  BY <1>4, <1>5, ProceedType, TopDepth DEF Put, Executing, Return
<1>6. CASE PutFails
  BY <1>4, <1>6, RaiseType, TopDepth DEF PutFails, Executing
<1> QED
  BY <1>1, <1>2, <1>3, <1>5, <1>6 DEF Payloads

LEMMA FunctionsType ==
    ASSUME TypeOK, Functions
    PROVE  TypeOK'
<1> USE EmptyStack
<1>1. CASE AcceptAction
  <2> DEFINE kwargs == ActionKwargs(Top.action, Top.kwargs)
             fs     == Top.action.functions
             calls  == [i \in DOMAIN fs |->
                           CallFunction(Top.action, fs[i], kwargs, Top.depth)]
             last   == FanOut(Top.action, kwargs, Top.depth)
  <2>1. Reached("execute_action") /\ Top.action.kind = "Action" /\ UNCHANGED urls
    BY <1>1 DEF AcceptAction
  <2>2. Proceed(calls \o << last >>, "None")
    BY <1>1 DEF AcceptAction
  <2>3. IsEntry(Top.action) /\ IsList(fs) /\ Top.depth \in 0 .. MaxDepth
    BY <2>1, TopDepth, EntryLists DEF IsItem
  <2> HIDE DEF kwargs, fs
  <2>4. \A i \in DOMAIN fs : IsItem(calls[i])
    BY <2>1, <2>3, PipelineAssumption DEF IsItem, CallFunction
  <2>5. IsItem(last)
    BY <2>1, <2>3, PipelineAssumption DEF IsItem, FanOut
  <2> HIDE DEF calls, last
  <2>6. IsStack(calls)
    BY <2>3, <2>4, MappedStack DEF calls
  <2>7. IsStack(calls \o << last >>)
    BY <2>5, <2>6, OneItemStack, ConcatStack
  <2> QED
    BY <2>1, <2>2, <2>7, ProceedType, TopDepth DEF TypeOK, Return
<1>2. CASE RejectAction \/ NotAnAction \/ NotAFunction \/ PassOnFails \/ PassOnToNoQueue
  BY <1>2, RaiseType, TopDepth
     DEF RejectAction, NotAnAction, NotAFunction, PassOnFails, PassOnToNoQueue, Exception,
         LPBaseException, TypeOK
<1>3. ASSUME NEW before \in Return, Reached("call_function")
      PROVE  IsItem(LeaveTry(before, Top.depth)) /\ IsStack(<< LeaveTry(before, Top.depth) >>)
  <2>1. Top.depth \in 0 .. MaxDepth /\ MaxDepth \in Nat
    BY <1>3, TopDepth DEF IsItem
  <2>2. IsItem(LeaveTry(before, Top.depth))
    BY <1>3, <2>1 DEF IsItem, LeaveTry
  <2> QED
    BY <2>2, OneItemStack
<1>4. CASE CallFails
  BY <1>3, <1>4, RaiseType, TopDepth DEF CallFails, Exception, TypeOK
<1>5. ASSUME NEW f \in Func, NEW outcome \in Does[f], FunctionRaises(outcome)
      PROVE  TypeOK'
  <2>1. outcome.raises \in Exception
    BY <1>5, PipelineAssumption DEF IsOutcome, FunctionRaises
  <2> QED
    BY <1>3, <1>5, <2>1, RaiseType, TopDepth DEF FunctionRaises, Calling, TypeOK
<1>6. ASSUME NEW f \in Func, NEW outcome \in Does[f], FunctionReturns(outcome)
      PROVE  TypeOK'
  <2> DEFINE ps    == outcome.payloads
             items == [i \in DOMAIN ps |->
                          ExecutePayload(ps[i].target, ps[i].kwargs, Top.depth + 1)]
             last  == LeaveTry(outcome.returns, Top.depth)
  <2>1. Reached("call_function") /\ UNCHANGED urls
    BY <1>6 DEF FunctionReturns, Calling
  <2>2. Proceed(items \o << last >>, outcome.returns)
    BY <1>6 DEF FunctionReturns
  <2>3. IsList(ps) /\ outcome.returns \in Return
    BY PipelineAssumption DEF IsOutcome
  <2>4. Top.depth \in 0 .. MaxDepth /\ MaxDepth \in Nat
    BY <2>1, TopDepth DEF IsItem
  <2> HIDE DEF ps
  <2>5. \A i \in DOMAIN ps : IsItem(items[i])
    BY <2>4 DEF IsItem, ExecutePayload
  <2>6. IsStack(<< last >>)
    BY <1>3, <2>1, <2>3
  <2> HIDE DEF items, last
  <2>7. IsStack(items)
    BY <2>3, <2>5, MappedStack DEF items
  <2>8. IsStack(items \o << last >>)
    BY <2>6, <2>7, ConcatStack
  <2> QED
    BY <2>1, <2>2, <2>3, <2>8, ProceedType, TopDepth DEF TypeOK
<1>7. ASSUME NEW f \in Func, NEW outcome \in Does[f], ReturnsInvalid(outcome)
      PROVE  TypeOK'
  <2>1. outcome.returns \in Return
    BY PipelineAssumption DEF IsOutcome
  <2> QED
    BY <1>3, <1>7, <2>1, RaiseType, TopDepth
       DEF ReturnsInvalid, Calling, TypeOK, Exception, LPBaseException
<1>8. CASE EndTry
  BY <1>8, ProceedType, TopDepth DEF EndTry, TypeOK
<1>9. CASE PassOn
  <2> DEFINE targets == Top.action.paths \o Top.action.queues
             items   == [i \in DOMAIN targets |->
                            ExecutePayload(targets[i], Top.kwargs, Top.depth + 1)]
  <2>1. Reached("fan_out") /\ Proceed(items, ret) /\ UNCHANGED urls
    BY <1>9 DEF PassOn
  <2>2. IsEntry(Top.action) /\ Top.action.kind = "Action" /\ Top.depth \in 0 .. MaxDepth
    BY <2>1, TopDepth DEF IsItem
  <2>3. IsList(targets)
    BY <2>2, ConcatList, EntryLists
  <2> HIDE DEF targets
  <2>4. \A i \in DOMAIN targets : IsItem(items[i])
    BY <2>2, PipelineAssumption DEF IsItem, ExecutePayload
  <2>5. IsStack(items)
    BY <2>3, <2>4, MappedStack
  <2> HIDE DEF items
  <2> QED
    BY <2>1, <2>5, ProceedType, TopDepth DEF TypeOK
<1> QED
  BY <1>1, <1>2, <1>4, <1>5, <1>6, <1>7, <1>8, <1>9 DEF Functions

LEMMA HandlersType ==
    ASSUME TypeOK, Handlers
    PROVE  TypeOK'
<1>1. agenda # << >> /\ phase = "run" /\ IsItem(Top)
  BY TopIsItem DEF Handlers, Unwind, Swallow, SwallowFails, Unwinding, TypeOK
<1>2. IsStack(Rest)
  BY <1>1, TailList DEF TypeOK, IsStack, Rest
<1>3. CASE Unwind
  BY <1>2, <1>3 DEF Unwind, TypeOK, PE!TypeOK, PE!Ended, PE!Running, PE!Positions, loop,
                    Unwinding, IsStack, IsList
<1>4. CASE Swallow
  <2>1. ret' \in Return /\ exc'.kind = "nothing"
    BY <1>1, <1>4 DEF Swallow, AtHandler, IsItem, NoException
  <2> QED
    BY <1>2, <1>4, <2>1 DEF Swallow, TypeOK, PE!TypeOK, PE!Ended, PE!Running, PE!Positions,
                            loop, Unwinding, IsStack, IsList
<1>5. CASE SwallowFails
  BY <1>1, <1>5, EmptyStack, RaiseType, PipelineAssumption DEF SwallowFails, TypeOK
<1> QED
  BY <1>3, <1>4, <1>5 DEF Handlers

LEMMA InitType == Init => TypeOK
<1> SUFFICES ASSUME Init PROVE TypeOK
  OBVIOUS
<1> USE DEF Init
<1>1. Len(batch) = 0 /\ output \in Seq(Return) /\ IsStack(agenda)
  BY EmptySeq, EmptyStack
<1>2. PE!TypeOK
  BY <1>1 DEF PE!TypeOK, PE!Ended, PE!NoStats
<1> QED
  BY <1>1, <1>2 DEF TypeOK, Return, NoException

\* Calling the handler starts from empty lists, whatever came before.
LEMMA StartType ==
    ASSUME TypeOK, NEW records \in {e.records : e \in Events} \cup {<< >>},
           NEW newPhase \in {"next", "escaped"}, Start(records, newPhase)
    PROVE  TypeOK'
<1>1. /\ output' \in Seq(Return) /\ IsStack(agenda')
      /\ Len(<< >>) = 0
  BY EmptySeq, EmptyStack DEF Start
<1>2. Len(records) \in {Len(e.records) : e \in Events} \cup {0} /\ Len(records) \in Nat
  BY <1>1, ListShape, PipelineAssumption DEF IsEvent
<1>3. PE!TypeOK'
  BY <1>2 DEF Start, PE!TypeOK, PE!Ended, PE!Running, PE!NoStats, PE!Positions
<1> QED
  BY <1>1, <1>3 DEF Start, TypeOK, Return, NoException

LEMMA TakeType ==
    ASSUME TypeOK, Take
    PROVE  TypeOK'
<1>1. IsStack(agenda')
  <2>1. IsItem(ParseRecord(Upcoming))
    BY PipelineAssumption DEF IsItem, ParseRecord
  <2> QED
    BY <2>1, OneItemStack DEF Take
<1>2. n \in Nat /\ Len(batch) \in Nat /\ n' \in 1 .. Len(batch)
  <2>1. Len(batch) \in Nat
    BY ListShape, EmptyStack, PipelineAssumption DEF TypeOK, IsEvent, IsStack
  <2> QED
    BY <2>1 DEF TypeOK, PE!TypeOK, Take
<1>3. PE!TypeOK'
  BY <1>2 DEF Take, TypeOK, PE!TypeOK, PE!Running, PE!Positions
<1>4. raised' \subseteq (1 .. n') \X Exception
  BY <1>2 DEF Take, TypeOK
<1> QED
  BY <1>1, <1>3, <1>4 DEF Take, TypeOK, Return

\* A response counts records: the set it counts is finite.
LEMMA RespondType ==
    ASSUME TypeOK, Finish \/ FinishFailed
    PROVE  TypeOK'
<1>1. n \in Nat /\ successful \subseteq 1 .. n /\ agenda = << >>
  BY DEF TypeOK, PE!TypeOK, PE!Positions, Finish, FinishFailed, Respond
<1>2. Cardinality(successful) \in Nat
  <2>1. IsFiniteSet(1 .. n)
    BY <1>1, FS_Interval
  <2>2. IsFiniteSet(successful)
    BY <1>1, <2>1, FS_Subset
  <2> QED
    BY <2>2, FS_CardinalityType
<1>3. stats' \in [received : Nat, successes : Nat] /\ deleted' \subseteq successful'
  <2>1. stats' = [received |-> n, successes |-> Cardinality(successful)]
    BY DEF Finish, FinishFailed, Respond
  <2>2. successful' = successful /\ deleted' \in {deleted, successful, {}}
    BY DEF Finish, FinishFailed, Respond, CleanedUp
  <2> QED
    BY <1>1, <1>2, <2>1, <2>2 DEF TypeOK, PE!TypeOK
<1>4. phase' \in {"returned", "raised"}
  BY DEF Finish, FinishFailed
<1>5. PE!TypeOK'
  BY <1>3, <1>4 DEF Finish, FinishFailed, Respond, TypeOK, PE!TypeOK, PE!Ended, PE!Positions
<1> QED
  BY <1>1, <1>4, <1>5 DEF Finish, FinishFailed, Respond, TypeOK, IsStack, IsList

LEMMA VerdictType ==
    ASSUME TypeOK,
           Succeed \/ DropRecord \/ FailRecord \/ EscapeRecord \/ HandlerFailsOnRecord
    PROVE  TypeOK'
<1>1. n \in 1 .. Len(batch) /\ agenda = << >> /\ IsStack(agenda)
  BY DEF TypeOK, PE!TypeOK, Succeed, DropRecord, FailRecord, EscapeRecord,
         HandlerFailsOnRecord, AtRecord
<1>2. CASE Succeed \/ DropRecord \/ FailRecord
  <2>1. /\ successful' \subseteq 1 .. n /\ exceptions' \subseteq 1 .. n
        /\ deleted' \subseteq successful'
    <3>1. /\ successful' \in {successful, successful \cup {n}}
          /\ exceptions' \in {exceptions, exceptions \cup {n}}
          /\ deleted' = deleted
      BY <1>2 DEF Succeed, DropRecord, FailRecord, Settle
    <3>2. successful \subseteq 1 .. n /\ exceptions \subseteq 1 .. n /\ n \in 1 .. n
          /\ deleted \subseteq successful
      BY <1>1 DEF TypeOK, PE!TypeOK, PE!Positions
    <3> QED
      BY <3>1, <3>2
  <2>2. output' \in Seq(Return)
    BY <1>2, AppendProperties DEF Succeed, DropRecord, FailRecord, Settle, TypeOK, Return
  <2>3. PE!TypeOK'
    BY <1>2, <2>1
       DEF Succeed, DropRecord, FailRecord, Settle, TypeOK, PE!TypeOK, PE!Positions, PE!Running
  <2> QED
    BY <1>1, <1>2, <2>2, <2>3
       DEF Succeed, DropRecord, FailRecord, Settle, TypeOK, NoException
<1>3. CASE EscapeRecord \/ HandlerFailsOnRecord
  <2>1. phase' \in {"emptied", "escaped"} /\ exc'.kind \in Exception \cup {"nothing"}
    BY <1>3, PipelineAssumption DEF EscapeRecord, HandlerFailsOnRecord, Outermost, TypeOK
  <2>2. PE!TypeOK'
    BY <1>3, <2>1
       DEF EscapeRecord, HandlerFailsOnRecord, loop, TypeOK, PE!TypeOK, PE!Positions, PE!Ended
  <2> QED
    BY <1>1, <1>3, <2>1, <2>2 DEF EscapeRecord, HandlerFailsOnRecord, loop, TypeOK
<1> QED
  BY <1>2, <1>3

\* Steps that end the invocation from outside the record's try.
LEMMA CutShortType ==
    ASSUME TypeOK, Undecodable \/ Kill
    PROVE  TypeOK'
<1>1. /\ phase' \in PE!Ended
      /\ exc'.kind \in Exception \cup {"nothing"}
      /\ agenda' = << >> /\ urls' \subseteq Queue /\ ret' \in Return
  BY DEF Undecodable, Kill, DecodeError, Outermost, PE!Ended, Exception, LPBaseException,
         NoException, TypeOK, Return
<1>2. PE!TypeOK'
  BY <1>1 DEF Undecodable, Kill, loop, TypeOK, PE!TypeOK, PE!Positions, PE!Ended
<1> QED
  BY <1>1, <1>2, EmptyStack DEF Undecodable, Kill, loop, TypeOK

LEMMA ParsingType ==
    ASSUME TypeOK, ParseToPayload \/ FailToParse
    PROVE  TypeOK'
<1>1. CASE ParseToPayload
  <2> DEFINE item == ExecutePayload(PathOf(Top.record), Top.record.kwargs, 1)
  <2>1. Reached("parse_record") /\ Proceed(<< item >>, ret) /\ UNCHANGED urls
    BY <1>1 DEF ParseToPayload
  <2>2. IsItem(item)
    BY PipelineAssumption DEF IsItem, ExecutePayload
  <2> HIDE DEF item
  <2> QED
    BY <2>1, <2>2, OneItemStack, ProceedType, TopDepth DEF TypeOK
<1>2. CASE FailToParse
  BY <1>2, EmptyStack, RaiseType, TopDepth
     DEF FailToParse, Exception, LPBaseException, TypeOK
<1> QED
  BY <1>1, <1>2

LEMMA StepType == TypeOK /\ [Next]_vars => TypeOK'
<1> SUFFICES ASSUME TypeOK, [Next]_vars PROVE TypeOK'
  OBVIOUS
<1>1. ASSUME NEW event \in Events, Invoke(event) \/ Refuse(event) PROVE TypeOK'
  BY <1>1, StartType DEF Invoke, Refuse
<1>2. CASE Work
  BY <1>2, TakeType, CutShortType, ParsingType, PayloadsType, FunctionsType, HandlersType,
     VerdictType, RespondType DEF Work
<1>3. CASE Kill
  BY <1>3, CutShortType
<1>4. CASE UNCHANGED vars
  BY <1>4 DEF vars, TypeOK, PE!TypeOK, PE!Ended, PE!Running, PE!Positions, IsStack, IsList
<1> QED
  BY <1>1, <1>2, <1>3, <1>4 DEF Next

(***************************************************************************)
(* process_event's variables, and the call stack below it, keep their      *)
(* types, whatever the deployment, the events and the user's functions.    *)
(***************************************************************************)
THEOREM TypeCorrect == Spec => []TypeOK
BY InitType, StepType, PTL DEF Spec

-----------------------------------------------------------------------------
(* Which exceptions a record met and what became of it.                    *)

(***************************************************************************)
(* The properties speak of finished records.  What makes them inductive is *)
(* the record being run: it has no verdict yet, and an exception of the    *)
(* library's flow control that was raised for it is still in flight, since *)
(* no handler below process_event ends one.                                *)
(***************************************************************************)
Undecided == phase = "run" => n \notin successful /\ n \notin exceptions

StillInFlight ==
    phase = "run" =>
        \A kind \in LPBaseException : <<n, kind>> \in raised => exc.kind = kind

Recorded ==
    phase \in {"next", "run", "returned", "raised"} =>
        \A i \in 1 .. n : <<i, "FailCatastrophically">> \in raised =>
            i \in exceptions \/ (phase = "run" /\ i = n)

FlowInv == Undecided /\ StillInFlight /\ Recorded /\ SuccessIsClean /\ OneVerdict

\* A step that raises does so with nothing in flight, or from a handler that
\* is only reached by other exceptions.
LEMMA RaiseFlow ==
    ASSUME TypeOK, FlowInv, phase = "run", exc.kind \notin LPBaseException,
           NEW kind \in Exception, NEW origin, NEW items, Raise(kind, origin, items)
    PROVE  FlowInv'
<1>1. raised' = raised \cup {<<n, kind>>} /\ exc'.kind = kind /\ UNCHANGED <<loop, phase>>
  BY DEF Raise
<1>2. n \in 1 .. Len(batch)
  BY DEF TypeOK, PE!TypeOK
<1>3. StillInFlight'
  BY <1>1 DEF FlowInv, StillInFlight, loop
<1>4. Recorded'
  BY <1>1, <1>2 DEF FlowInv, Recorded, loop
<1>5. SuccessIsClean'
  BY <1>1 DEF FlowInv, SuccessIsClean, Undecided, loop
<1> QED
  BY <1>1, <1>3, <1>4, <1>5 DEF FlowInv, Undecided, OneVerdict, PE!OneVerdict, loop

LEMMA ProceedFlow ==
    ASSUME FlowInv, NEW items, NEW newRet, Proceed(items, newRet)
    PROVE  FlowInv'
BY DEF Proceed, loop, FlowInv, Undecided, StillInFlight, Recorded, SuccessIsClean, OneVerdict,
       PE!OneVerdict

\* The steps within a record, while no exception is in flight, are of two kinds.
Raising == \E kind \in Exception : \E origin, items :
               /\ phase = "run" /\ exc.kind \notin LPBaseException
               /\ Raise(kind, origin, items)

Proceeding == \E items, newRet : phase = "run" /\ Proceed(items, newRet)

LEMMA ExceptionKinds ==
    /\ HandlerRaises \subseteq Exception
    /\ LPBaseException \subseteq Exception
    /\ {"AssertionError", "Exception", "FailButContinue", "FailCatastrophically"}
            \subseteq Exception
    /\ NoException.kind \notin LPBaseException
BY PipelineAssumption DEF Exception, LPBaseException, NoException

LEMMA RunningStep ==
    ASSUME Payloads \/ Functions \/ ParseToPayload \/ FailToParse \/ SwallowFails
    PROVE  Raising \/ Proceeding
<1> USE ExceptionKinds DEF Raising, Proceeding, Reached
<1>1. CASE Payloads
  <2>1. CASE ExecutePath
    BY <2>1 DEF ExecutePath, Executing
  <2>2. CASE EmptyPath
    BY <2>2 DEF EmptyPath, Executing
  <2>3. CASE UndefinedPath
    BY <2>3 DEF UndefinedPath, Executing
  <2>4. CASE RecursionLimit
    BY <2>4 DEF RecursionLimit
  <2>5. CASE Put
    BY <2>5 DEF Put, Executing
  <2>6. CASE PutFails
    BY <2>6 DEF PutFails, Executing
  <2> QED
    BY <1>1, <2>1, <2>2, <2>3, <2>4, <2>5, <2>6 DEF Payloads
<1>2. CASE Functions
  <2>1. CASE AcceptAction
    BY <2>1 DEF AcceptAction
  <2>2. CASE RejectAction
    BY <2>2 DEF RejectAction
  <2>3. CASE NotAnAction
    BY <2>3 DEF NotAnAction
  <2>4. CASE NotAFunction
    BY <2>4 DEF NotAFunction
  <2>5. CASE CallFails
    BY <2>5 DEF CallFails
  <2>6. ASSUME NEW f \in Func, NEW outcome \in Does[f], FunctionRaises(outcome)
        PROVE  Raising
    <3>1. outcome.raises \in Exception
      BY <2>6, PipelineAssumption DEF IsOutcome, FunctionRaises
    <3> QED
      BY <2>6, <3>1 DEF FunctionRaises, Calling
  <2>7. ASSUME NEW f \in Func, NEW outcome \in Does[f], FunctionReturns(outcome)
        PROVE  Proceeding
    BY <2>7 DEF FunctionReturns, Calling
  <2>8. ASSUME NEW f \in Func, NEW outcome \in Does[f], ReturnsInvalid(outcome)
        PROVE  Raising
    BY <2>8 DEF ReturnsInvalid, Calling
  <2>9. CASE EndTry
    BY <2>9 DEF EndTry
  <2>10. CASE PassOn
    BY <2>10 DEF PassOn
  <2>11. CASE PassOnFails
    BY <2>11 DEF PassOnFails
  <2>12. CASE PassOnToNoQueue
    BY <2>12 DEF PassOnToNoQueue
  <2> QED
    BY <1>2, <2>1, <2>2, <2>3, <2>4, <2>5, <2>6, <2>7, <2>8, <2>9, <2>10, <2>11, <2>12
       DEF Functions
<1>3. CASE ParseToPayload
  BY <1>3 DEF ParseToPayload
<1>4. CASE FailToParse
  BY <1>4 DEF FailToParse
<1>5. CASE SwallowFails
  BY <1>5 DEF SwallowFails, Unwinding, AtHandler
<1> QED
  BY <1>1, <1>2, <1>3, <1>4, <1>5

LEMMA InitFlow == Init => FlowInv
BY DEF Init, FlowInv, Undecided, StillInFlight, Recorded, SuccessIsClean, OneVerdict,
       PE!OneVerdict

LEMMA StepFlow == TypeOK /\ FlowInv /\ [Next]_vars => FlowInv'
<1> SUFFICES ASSUME TypeOK, FlowInv, [Next]_vars PROVE FlowInv'
  OBVIOUS
<1> USE DEF FlowInv, Undecided, StillInFlight, Recorded, SuccessIsClean, OneVerdict,
            PE!OneVerdict
<1>1. ASSUME NEW event \in Events, Invoke(event) \/ Refuse(event) PROVE FlowInv'
  BY <1>1 DEF Invoke, Refuse, Start
<1>2. CASE Payloads \/ Functions \/ ParseToPayload \/ FailToParse \/ SwallowFails
  BY <1>2, RunningStep, RaiseFlow, ProceedFlow DEF Raising, Proceeding
<1>3. CASE Take
  <2>1. /\ raised \subseteq (1 .. n) \X Exception /\ n \in Nat
        /\ successful \subseteq 1 .. n /\ exceptions \subseteq 1 .. n
    BY DEF TypeOK, PE!TypeOK, PE!Positions
  <2> QED
    BY <1>3, <2>1 DEF Take
<1>4. CASE Unwind
  BY <1>4 DEF Unwind, loop
<1>5. CASE Swallow
  BY <1>5 DEF Swallow, AtHandler, Unwinding, loop
<1>6. CASE Succeed
  BY <1>6, ExceptionKinds DEF Succeed, AtRecord, Settle, LPBaseException
<1>7. CASE DropRecord
  BY <1>7 DEF DropRecord, AtRecord, Settle, LPBaseException
<1>8. CASE FailRecord
  BY <1>8 DEF FailRecord, AtRecord, Settle, LPBaseException
<1>9. CASE EscapeRecord \/ HandlerFailsOnRecord \/ Undecodable \/ Kill
  BY <1>9 DEF EscapeRecord, HandlerFailsOnRecord, Undecodable, Kill, Outermost, loop
<1>10. CASE Finish \/ FinishFailed
  BY <1>10 DEF Finish, FinishFailed, Respond
<1>11. CASE UNCHANGED vars
  BY <1>11 DEF vars
<1> QED
  BY <1>1, <1>2, <1>3, <1>4, <1>5, <1>6, <1>7, <1>8, <1>9, <1>10, <1>11
     DEF Next, Work, Handlers

(***************************************************************************)
(* A FailCatastrophically raised anywhere for a record is never lost by a  *)
(* handler on the way up: the record ends among the failed ones.           *)
(***************************************************************************)
THEOREM CatastropheIsRecorded == Spec => []CatastropheRecorded
<1>1. TypeOK /\ FlowInv => CatastropheRecorded
  BY DEF TypeOK, FlowInv, Recorded, CatastropheRecorded
<1> QED
  BY <1>1, InitType, StepType, InitFlow, StepFlow, PTL DEF Spec

(***************************************************************************)
(* A record counted as successful met no exception of the library's flow   *)
(* control on any level below process_event.                               *)
(***************************************************************************)
THEOREM SuccessesAreClean == Spec => []SuccessIsClean
<1>1. FlowInv => SuccessIsClean
  BY DEF FlowInv
<1> QED
  BY <1>1, InitType, StepType, InitFlow, StepFlow, PTL DEF Spec

(***************************************************************************)
(* pipeline.py:183-203: no record is both counted as a success, and so a   *)
(* candidate for deletion, and kept as a failure.                          *)
(***************************************************************************)
THEOREM EachHasOneVerdict == Spec => []OneVerdict
<1>1. FlowInv => OneVerdict
  BY DEF FlowInv
<1> QED
  BY <1>1, InitType, StepType, InitFlow, StepFlow, PTL DEF Spec

-----------------------------------------------------------------------------
(* Errors of the user's functions stay within the Action.                  *)

(***************************************************************************)
(* The property speaks of the end of an invocation; on the way there, an   *)
(* error of a function that is in flight has the try block around that     *)
(* function on top of the stack, whose handler takes it.                   *)
(***************************************************************************)
ContainedInv ==
    /\ exc.origin = "function" /\ exc.kind \notin LPBaseException =>
           phase = "run" /\ agenda # << >> /\ Top.do = "leave_try"
    /\ UserErrorsContained

LEMMA RaiseContained ==
    ASSUME NEW kind \in Exception, NEW origin, NEW items, Raise(kind, origin, items),
           phase = "run", origin # "function"
    PROVE  ContainedInv'
BY DEF Raise, ContainedInv, UserErrorsContained

\* A function's error is raised with the function's try block on the stack.
LEMMA FunctionErrorContained ==
    ASSUME TypeOK, agenda # << >>, phase = "run", NEW before \in Return, NEW kind,
           IsItem(LeaveTry(before, Top.depth)),
           Raise(kind, "function", << LeaveTry(before, Top.depth) >>)
    PROVE  ContainedInv'
<1> DEFINE item == LeaveTry(before, Top.depth)
<1>1. item.do = "leave_try"
  BY DEF LeaveTry
<1>2. agenda' = << item >> \o Rest /\ phase' = "run"
  BY DEF Raise
<1>3. IsList(Rest)
  BY TailList DEF TypeOK, IsStack, Rest
<1> HIDE DEF item
<1>4. /\ IsList(<< item >>) /\ Len(<< item >>) = 1 /\ << item >>[1] = item
      /\ << item >> \in Seq({item})
  BY SingletonList
<1>5. agenda' # << >> /\ Head(agenda') = item
  <2> DEFINE S == {item} \cup Range(Rest)
  <2>1. << item >> \in Seq(S) /\ Rest \in Seq(S)
    BY <1>3, <1>4, SeqMonotonic DEF IsList
  <2>2. Len(<< item >> \o Rest) = 1 + Len(Rest) /\ Len(Rest) \in Nat
    BY <1>4, <2>1, ConcatProperties, LenProperties
  <2>3. (<< item >> \o Rest)[1] = item
    BY <1>4, <2>1, <2>2, ConcatProperties
  <2>4. << item >> \o Rest \in Seq(S)
    BY <2>1, ConcatProperties
  <2>5. << item >> \o Rest # << >>
    BY <2>2, <2>4, EmptySeq
  <2> QED
    BY <1>2, <2>3, <2>4, <2>5, HeadTailProperties, TailList, SeqOfRange DEF IsList
<1> QED
  BY <1>1, <1>2, <1>5 DEF ContainedInv, UserErrorsContained, Top

LEMMA ProceedContained ==
    ASSUME NEW items, NEW newRet, Proceed(items, newRet), phase = "run",
           exc = NoException
    PROVE  ContainedInv'
BY DEF Proceed, ContainedInv, UserErrorsContained, NoException

LEMMA StepContained == TypeOK /\ ContainedInv /\ [Next]_vars => ContainedInv'
<1> SUFFICES ASSUME TypeOK, ContainedInv, [Next]_vars PROVE ContainedInv'
  OBVIOUS
<1> USE ExceptionKinds
<1>1. ASSUME NEW event \in Events, Invoke(event) \/ Refuse(event) PROVE ContainedInv'
  BY <1>1 DEF Invoke, Refuse, Start, ContainedInv, UserErrorsContained, NoException
<1>2. CASE Payloads
  <2>1. CASE ExecutePath \/ Put
    BY <2>1, ProceedContained DEF ExecutePath, Put, Executing, Reached
  <2>2. CASE EmptyPath \/ UndefinedPath \/ RecursionLimit
    BY <2>2, RaiseContained DEF EmptyPath, UndefinedPath, RecursionLimit, Executing, Reached
  <2>3. CASE PutFails
    BY <2>3, RaiseContained DEF PutFails, Executing, Reached
  <2> QED
    BY <1>2, <2>1, <2>2, <2>3 DEF Payloads
<1>3. CASE Functions
  <2>1. CASE AcceptAction \/ EndTry \/ PassOn
    BY <2>1, ProceedContained DEF AcceptAction, EndTry, PassOn, Reached
  <2>2. CASE RejectAction \/ NotAnAction \/ NotAFunction \/ PassOnFails \/ PassOnToNoQueue
    BY <2>2, RaiseContained
       DEF RejectAction, NotAnAction, NotAFunction, PassOnFails, PassOnToNoQueue, Reached
  <2>3. ASSUME NEW before \in Return, Reached("call_function")
        PROVE  IsItem(LeaveTry(before, Top.depth))
    BY <2>3, TopDepth DEF IsItem, LeaveTry
  <2>4. CASE CallFails
    BY <2>3, <2>4, FunctionErrorContained, TopDepth DEF CallFails, TypeOK
  <2>5. ASSUME NEW f \in Func, NEW outcome \in Does[f], FunctionRaises(outcome)
        PROVE  ContainedInv'
    BY <2>3, <2>5, FunctionErrorContained, TopDepth DEF FunctionRaises, Calling, TypeOK
  <2>6. ASSUME NEW f \in Func, NEW outcome \in Does[f], FunctionReturns(outcome)
        PROVE  ContainedInv'
    BY <2>6, ProceedContained DEF FunctionReturns, Calling, Reached
  <2>7. ASSUME NEW f \in Func, NEW outcome \in Does[f], ReturnsInvalid(outcome)
        PROVE  ContainedInv'
    <3>1. outcome.returns \in Return
      BY PipelineAssumption DEF IsOutcome
    <3> QED
      BY <2>3, <2>7, <3>1, FunctionErrorContained, TopDepth DEF ReturnsInvalid, Calling
  <2> QED
    BY <1>3, <2>1, <2>2, <2>4, <2>5, <2>6, <2>7 DEF Functions
<1>4. CASE ParseToPayload
  BY <1>4, ProceedContained DEF ParseToPayload, Reached
<1>5. CASE FailToParse
  BY <1>5, RaiseContained DEF FailToParse, Reached
<1>6. CASE Unwind
  BY <1>6 DEF Unwind, AtHandler, Unwinding, loop, ContainedInv, UserErrorsContained
<1>7. CASE Swallow
  BY <1>7 DEF Swallow, Unwinding, loop, NoException, ContainedInv, UserErrorsContained
<1>8. CASE SwallowFails
  BY <1>8, RaiseContained DEF SwallowFails, Unwinding
<1>9. CASE Take
  BY <1>9 DEF Take, ContainedInv, UserErrorsContained
<1>10. CASE Undecodable \/ HandlerFailsOnRecord \/ Kill
  BY <1>10 DEF Undecodable, HandlerFailsOnRecord, Kill, NoException, ContainedInv,
               UserErrorsContained
<1>11. CASE Succeed \/ DropRecord \/ FailRecord
  BY <1>11 DEF Succeed, DropRecord, FailRecord, Settle, NoException, ContainedInv,
               UserErrorsContained
<1>12. CASE EscapeRecord
  BY <1>12 DEF EscapeRecord, AtRecord, Outermost, LPBaseException, ContainedInv,
               UserErrorsContained
<1>13. CASE Finish \/ FinishFailed
  BY <1>13 DEF Finish, FinishFailed, Respond, ContainedInv, UserErrorsContained, Top
<1>14. CASE UNCHANGED vars
  BY <1>14 DEF vars, ContainedInv, UserErrorsContained, Top
<1> QED
  BY <1>1, <1>2, <1>3, <1>4, <1>5, <1>6, <1>7, <1>8, <1>9, <1>10, <1>11, <1>12, <1>13, <1>14
     DEF Next, Work, Handlers

(***************************************************************************)
(* An error of a user's function that is not an LPBaseException never ends *)
(* the invocation.                                                         *)
(***************************************************************************)
THEOREM UserErrorsAreContained == Spec => []UserErrorsContained
<1>1. Init => ContainedInv
  BY DEF Init, NoException, ContainedInv, UserErrorsContained
<1>2. ContainedInv => UserErrorsContained
  BY DEF ContainedInv
<1> QED
  BY <1>1, <1>2, InitType, StepType, StepContained, PTL DEF Spec

-----------------------------------------------------------------------------
(* Pipeline implements ProcessEvent.                                       *)

LEMMA InitRefines == Init => PE!Init
<1>1. Len(<< >>) = 0
  BY EmptySeq
<1> QED
  BY <1>1 DEF Init, PE!Init

\* ProcessEvent counts with an operator of its own, defined like Pipeline's.
LEMMA SameCardinality == \A S : PE!Cardinality(S) = Cardinality(S)
BY DEF PE!Cardinality, Cardinality, PE!IsFiniteSet, IsFiniteSet

LEMMA StepRefines == TypeOK /\ [Next]_vars => [PE!Next]_(PE!vars)
<1> SUFFICES ASSUME TypeOK, [Next]_vars PROVE [PE!Next]_(PE!vars)
  OBVIOUS
<1> USE DEF PE!Next
<1>1. ASSUME NEW event \in Events, Invoke(event) PROVE PE!Invoke
  BY <1>1 DEF Invoke, Start, Ended, PE!Invoke, PE!Start, PE!Ended
<1>2. ASSUME NEW event \in Events, Refuse(event) PROVE PE!Refuse
  <2>1. Len(<< >>) = 0
    BY EmptySeq
  <2> QED
    BY <1>2, <2>1 DEF Refuse, Start, Ended, PE!Refuse, PE!Start, PE!Ended
\* A step below process_event is not seen above it.
<1>3. CASE \/ Payloads \/ Functions \/ ParseToPayload \/ FailToParse \/ Handlers
  <2>1. UNCHANGED <<loop, phase>>
    BY <1>3, RunningStep DEF Handlers, Unwind, Swallow, Raising, Proceeding, Raise, Proceed
  <2> QED
    BY <2>1 DEF loop, PE!vars
<1>4. CASE Take
  BY <1>4 DEF Take, PE!Take
<1>5. CASE Undecodable
  BY <1>5 DEF Undecodable, Outermost, loop, PE!Undecodable
<1>6. CASE Succeed
  BY <1>6 DEF Succeed, AtRecord, Settle, PE!Succeed, PE!Settle
<1>7. CASE DropRecord
  BY <1>7 DEF DropRecord, AtRecord, Settle, PE!Drop, PE!Settle
<1>8. CASE FailRecord
  BY <1>8 DEF FailRecord, AtRecord, Settle, PE!Fail, PE!Settle
<1>9. CASE EscapeRecord \/ HandlerFailsOnRecord
  BY <1>9 DEF EscapeRecord, HandlerFailsOnRecord, AtRecord, Outermost, loop, PE!Abort
<1>10. CASE Finish
  BY <1>10, SameCardinality DEF Finish, Respond, PE!Finish, PE!Respond
<1>11. CASE FinishFailed
  BY <1>11, SameCardinality DEF FinishFailed, Respond, CleanedUp, PE!FinishFailed, PE!Respond
<1>12. CASE Kill
  BY <1>12 DEF Kill, loop, PE!Kill, PE!Running
<1>13. CASE UNCHANGED vars
  BY <1>13 DEF vars, PE!vars
<1> QED
  BY <1>1, <1>2, <1>3, <1>4, <1>5, <1>6, <1>7, <1>8, <1>9, <1>10, <1>11, <1>12, <1>13
     DEF Next, Work

(***************************************************************************)
(* All that happens below process_event is a stutter of ProcessEvent, and  *)
(* every step of its loop is one of ProcessEvent's.                        *)
(***************************************************************************)
THEOREM ImplementsProcessEvent == Spec => ProcessEventSpec
BY InitRefines, StepRefines, InitType, StepType, PTL DEF Spec, ProcessEventSpec, PE!Spec

-----------------------------------------------------------------------------
(* The verdicts and their reasons, and the output.                         *)

(***************************************************************************)
(* An exception in flight within a record is one that was raised for it,   *)
(* and between records there is none.                                      *)
(***************************************************************************)
VerdictInv ==
    /\ phase = "run" /\ exc.kind # "nothing" => <<n, exc.kind>> \in raised
    /\ phase = "next" => exc = NoException
    /\ VerdictsHaveReasons

LEMMA RaiseVerdict ==
    ASSUME TypeOK, VerdictInv, phase = "run",
           NEW kind, NEW origin, NEW items, Raise(kind, origin, items)
    PROVE  VerdictInv'
<1>1. /\ raised' = raised \cup {<<n, kind>>} /\ exc'.kind = kind
      /\ UNCHANGED <<phase, n, successful, exceptions>>
  BY DEF Raise, loop
<1>2. n \in Nat
  BY DEF TypeOK, PE!TypeOK
<1>3. \A i \in 1 .. n : i < n => \A k : <<i, k>> \in raised' <=> <<i, k>> \in raised
  BY <1>1, <1>2
<1> QED
  BY <1>1, <1>3 DEF VerdictInv, VerdictsHaveReasons

\* The record that is settled has the verdict its exception asks for.
LEMMA SettleVerdict ==
    ASSUME TypeOK, FlowInv, VerdictInv, Succeed \/ DropRecord \/ FailRecord
    PROVE  VerdictInv'
<1>1. /\ phase = "run" /\ phase' = "next" /\ exc' = NoException /\ UNCHANGED <<n, raised>>
      /\ n \notin successful /\ n \notin exceptions
  BY DEF Succeed, DropRecord, FailRecord, AtRecord, Settle, FlowInv, Undecided
<1>2. \A i \in 1 .. n : i # n =>
          /\ i \in exceptions' <=> i \in exceptions
          /\ i \in successful' <=> i \in successful
  BY DEF Succeed, DropRecord, FailRecord, Settle
<1>3. \A i \in 1 .. n : i # n => i < n
  BY DEF TypeOK, PE!TypeOK
<1>4. /\ n \in exceptions' <=> <<n, "FailCatastrophically">> \in raised
      /\ n \notin successful' \cup exceptions' <=> <<n, "FailButContinue">> \in raised
  <2>1. \A kind \in {"FailButContinue", "FailCatastrophically"} :
           <<n, kind>> \in raised <=> exc.kind = kind
    BY <1>1 DEF FlowInv, StillInFlight, VerdictInv, LPBaseException
  <2>2. CASE Succeed
    BY <1>1, <2>1, <2>2 DEF Succeed, AtRecord, Settle
  <2>3. CASE DropRecord
    BY <1>1, <2>1, <2>3 DEF DropRecord, AtRecord, Settle
  <2>4. CASE FailRecord
    BY <1>1, <2>1, <2>4 DEF FailRecord, AtRecord, Settle
  <2> QED
    BY <2>2, <2>3, <2>4
<1>5. ASSUME NEW i \in 1 .. n
      PROVE  /\ i \in exceptions' <=> <<i, "FailCatastrophically">> \in raised
             /\ i \notin successful' \cup exceptions' <=> <<i, "FailButContinue">> \in raised
  <2>1. CASE i = n
    BY <1>4, <2>1
  <2>2. CASE i # n
    <3>1. i < n
      BY <1>3, <2>2
    <3>2. /\ i \in exceptions <=> <<i, "FailCatastrophically">> \in raised
          /\ i \notin successful \cup exceptions <=> <<i, "FailButContinue">> \in raised
      BY <3>1 DEF VerdictInv, VerdictsHaveReasons
    <3> QED
      BY <1>2, <2>2, <3>2
  <2> QED
    BY <2>1, <2>2
<1> QED
  BY <1>1, <1>5 DEF VerdictInv, VerdictsHaveReasons

LEMMA StepVerdict == TypeOK /\ FlowInv /\ VerdictInv /\ [Next]_vars => VerdictInv'
<1> SUFFICES ASSUME TypeOK, FlowInv, VerdictInv, [Next]_vars PROVE VerdictInv'
  OBVIOUS
<1>1. ASSUME NEW event \in Events, Invoke(event) \/ Refuse(event) PROVE VerdictInv'
  BY <1>1 DEF Invoke, Refuse, Start, NoException, VerdictInv, VerdictsHaveReasons
<1>2. ASSUME UNCHANGED <<phase, n, successful, exceptions, raised>>,
             exc' = exc \/ exc' = NoException
      PROVE  VerdictInv'
  BY <1>2 DEF NoException, VerdictInv, VerdictsHaveReasons
<1>3. CASE Payloads \/ Functions \/ ParseToPayload \/ FailToParse \/ SwallowFails
  BY <1>2, <1>3, RunningStep, RaiseVerdict DEF Raising, Proceeding, Proceed, loop
<1>4. CASE Unwind \/ Swallow
  BY <1>2, <1>4 DEF Unwind, Swallow, loop
<1>5. CASE Take
  <2>1. n \in Nat /\ exc = NoException /\ UNCHANGED <<successful, exceptions, raised, exc>>
        /\ n' = n + 1 /\ phase = "next" /\ phase' = "run"
    BY <1>5 DEF Take, VerdictInv, TypeOK, PE!TypeOK
  <2>2. \A i \in 1 .. n + 1 : i < n + 1 => i \in 1 .. n
    BY <2>1
  <2> QED
    BY <2>1, <2>2 DEF NoException, VerdictInv, VerdictsHaveReasons
<1>6. CASE Succeed \/ DropRecord \/ FailRecord
  BY <1>6, SettleVerdict
<1>7. CASE EscapeRecord \/ HandlerFailsOnRecord \/ Undecodable \/ Kill
  <2>1. UNCHANGED <<n, successful, exceptions, raised>>
        /\ phase' \notin {"next", "run", "returned", "raised"}
    BY <1>7 DEF EscapeRecord, HandlerFailsOnRecord, Undecodable, Kill, Outermost, loop
  <2> QED
    BY <2>1 DEF VerdictInv, VerdictsHaveReasons
<1>8. CASE Finish \/ FinishFailed
  BY <1>8 DEF Finish, FinishFailed, Respond, VerdictInv, VerdictsHaveReasons
<1>9. CASE UNCHANGED vars
  BY <1>2, <1>9 DEF vars
<1> QED
  BY <1>1, <1>3, <1>4, <1>5, <1>6, <1>7, <1>8, <1>9 DEF Next, Work, Handlers

(***************************************************************************)
(* A record the loop is done with was kept as failed, or passed over, if   *)
(* and only if a FailCatastrophically, or a FailButContinue, was raised    *)
(* for it, also where the invocation is cut short later.                   *)
(***************************************************************************)
THEOREM VerdictsAreJustified == Spec => []VerdictsHaveReasons
<1>1. Init => VerdictInv
  BY DEF Init, VerdictInv, VerdictsHaveReasons
<1>2. VerdictInv => VerdictsHaveReasons
  BY DEF VerdictInv
<1> QED
  BY <1>1, <1>2, InitType, StepType, InitFlow, StepFlow, StepVerdict, PTL DEF Spec

LEMMA StepOutput == TypeOK /\ FlowInv /\ OutputPerVerdict /\ [Next]_vars => OutputPerVerdict'
<1> SUFFICES ASSUME TypeOK, FlowInv, OutputPerVerdict, [Next]_vars PROVE OutputPerVerdict'
  OBVIOUS
<1> USE DEF OutputPerVerdict
<1>1. IsFiniteSet(successful) /\ IsFiniteSet(exceptions)
  <2>1. n \in Nat /\ successful \subseteq 1 .. n /\ exceptions \subseteq 1 .. n
    BY DEF TypeOK, PE!TypeOK, PE!Positions
  <2>2. IsFiniteSet(1 .. n)
    BY <2>1, FS_Interval
  <2> QED
    BY <2>1, <2>2, FS_Subset
<1>2. Cardinality(successful) \in Nat /\ Cardinality(exceptions) \in Nat
  BY <1>1, FS_CardinalityType
<1>3. \A x : Len(Append(output, x)) = Len(output) + 1
  BY AppendProperties DEF TypeOK
<1>4. ASSUME NEW event \in Events, Invoke(event) \/ Refuse(event) PROVE OutputPerVerdict'
  <2>1. Len(<< >>) = 0 /\ Cardinality({}) = 0
    BY EmptySeq, FS_EmptySet
  <2>2. output' = << >> /\ successful' = {} /\ exceptions' = {}
    BY <1>4 DEF Invoke, Refuse, Start
  <2>3. Len(output') = 0 /\ Cardinality(successful') = 0 /\ Cardinality(exceptions') = 0
    BY <2>1, <2>2
  <2> QED
    BY <2>3
<1>5. CASE Succeed
  <2>1. n \notin successful /\ successful' = successful \cup {n}
        /\ exceptions' = exceptions /\ output' = Append(output, ret)
    BY <1>5 DEF Succeed, AtRecord, Settle, FlowInv, Undecided
  <2>2. Cardinality(successful') = Cardinality(successful) + 1
    BY <1>1, <2>1, FS_AddElement
  <2> QED
    BY <1>2, <1>3, <2>1, <2>2
<1>6. CASE FailRecord
  <2>1. n \notin exceptions /\ exceptions' = exceptions \cup {n}
        /\ successful' = successful /\ output' = Append(output, "None")
    BY <1>6 DEF FailRecord, AtRecord, Settle, FlowInv, Undecided
  <2>2. Cardinality(exceptions') = Cardinality(exceptions) + 1
    BY <1>1, <2>1, FS_AddElement
  <2> QED
    BY <1>2, <1>3, <2>1, <2>2
<1>7. CASE DropRecord
  BY <1>7 DEF DropRecord, Settle
<1>8. CASE \/ Payloads \/ Functions \/ ParseToPayload \/ FailToParse \/ Handlers
  <2>1. UNCHANGED loop
    BY <1>8, RunningStep DEF Handlers, Unwind, Swallow, Raising, Proceeding, Raise, Proceed
  <2> QED
    BY <2>1 DEF loop
<1>9. CASE Take \/ Undecodable \/ EscapeRecord \/ HandlerFailsOnRecord \/ Kill
  BY <1>9 DEF Take, Undecodable, EscapeRecord, HandlerFailsOnRecord, Kill, loop
<1>10. CASE Finish \/ FinishFailed
  BY <1>10 DEF Finish, FinishFailed, Respond
<1>11. CASE UNCHANGED vars
  BY <1>11 DEF vars
<1> QED
  BY <1>4, <1>5, <1>6, <1>7, <1>8, <1>9, <1>10, <1>11 DEF Next, Work

(***************************************************************************)
(* The output has one entry for each record that was not dropped.          *)
(***************************************************************************)
THEOREM OutputMatchesVerdicts == Spec => []OutputPerVerdict
<1>1. Init => OutputPerVerdict
  <2>1. Len(<< >>) = 0 /\ Cardinality({}) = 0
    BY EmptySeq, FS_EmptySet
  <2> QED
    BY <2>1 DEF Init, OutputPerVerdict
<1> QED
  BY <1>1, InitType, StepType, InitFlow, StepFlow, StepOutput, PTL DEF Spec

-----------------------------------------------------------------------------
(***************************************************************************)
(* The order in which a record's work is done: every call pushes items of  *)
(* its own depth or a deeper one, deepest first, so the agenda never rises *)
(* towards its bottom; and it pushes only items of lower rank, so that     *)
(* there is no way to go on forever.                                       *)
(***************************************************************************)

Descending(items) ==
    \A i, j \in DOMAIN items : i <= j => items[i].depth >= items[j].depth

\* What a call at this depth may push.
Below(items, depth) ==
    /\ IsList(items)
    /\ Descending(items)
    /\ \A i \in DOMAIN items : items[i].depth \in Nat /\ items[i].depth >= depth

LEMMA AgendaDepths ==
    ASSUME TypeOK
    PROVE  /\ IsList(agenda) /\ DOMAIN agenda \subseteq Nat
           /\ \A i \in DOMAIN agenda : agenda[i].depth \in Nat
<1>1. IsStack(agenda) /\ MaxDepth \in Nat
  BY PipelineAssumption DEF TypeOK
<1> QED
  BY <1>1, ListShape DEF IsStack, IsItem

LEMMA RestDescends ==
    ASSUME TypeOK, agenda # << >>, Descending(agenda)
    PROVE  /\ IsList(Rest) /\ Descending(Rest) /\ DOMAIN Rest \subseteq Nat
           /\ Top.depth \in Nat
           /\ \A i \in DOMAIN Rest : Rest[i].depth \in Nat /\ Top.depth >= Rest[i].depth
<1>1. /\ IsList(Rest) /\ 1 \in DOMAIN agenda /\ Top = agenda[1]
      /\ \A i \in DOMAIN Rest : i + 1 \in DOMAIN agenda /\ Rest[i] = agenda[i + 1]
  BY AgendaDepths, TailList DEF Top, Rest
<1>2. DOMAIN Rest \subseteq Nat
  BY <1>1, ListShape
<1> QED
  BY <1>1, <1>2, AgendaDepths DEF Descending

LEMMA PushDescends ==
    ASSUME TypeOK, agenda # << >>, Descending(agenda),
           NEW items, Below(items, Top.depth)
    PROVE  Descending(items \o Rest)
<1> DEFINE all == items \o Rest
<1>1. IsList(items) /\ Len(items) \in Nat /\ DOMAIN items = 1 .. Len(items)
  BY ListShape DEF Below
<1>2. /\ IsList(all)
      /\ \A i \in DOMAIN all : \/ i \in DOMAIN items /\ all[i] = items[i]
                               \/ i - Len(items) \in DOMAIN Rest /\ all[i] = Rest[i - Len(items)]
  BY <1>1, RestDescends, ConcatList
<1>3. DOMAIN all \subseteq Nat
  BY <1>2, ListShape
<1> HIDE DEF all
<1> SUFFICES ASSUME NEW i \in DOMAIN all, NEW j \in DOMAIN all, i <= j
             PROVE  all[i].depth >= all[j].depth
  BY DEF Descending, all
<1>4. CASE i \in DOMAIN items /\ all[i] = items[i] /\ j \in DOMAIN items /\ all[j] = items[j]
  BY <1>4 DEF Below, Descending
<1>5. CASE /\ i \in DOMAIN items /\ all[i] = items[i]
           /\ j - Len(items) \in DOMAIN Rest /\ all[j] = Rest[j - Len(items)]
  BY <1>5, RestDescends DEF Below
<1>6. CASE /\ i - Len(items) \in DOMAIN Rest /\ all[i] = Rest[i - Len(items)]
           /\ j - Len(items) \in DOMAIN Rest /\ all[j] = Rest[j - Len(items)]
  BY <1>1, <1>3, <1>6, RestDescends DEF Descending
<1>7. CASE /\ i - Len(items) \in DOMAIN Rest /\ all[i] = Rest[i - Len(items)]
           /\ j \in DOMAIN items /\ all[j] = items[j]
  <2>1. i - Len(items) >= 1
    BY <1>7, RestDescends, ListShape
  <2> QED
    BY <1>1, <1>3, <1>7, <2>1
<1> QED
  BY <1>2, <1>4, <1>5, <1>6, <1>7

LEMMA NothingIsBelow == \A depth : Below(<< >>, depth)
<1>1. IsList(<< >>) /\ DOMAIN << >> = {}
  BY EmptyStack, EmptySeq DEF IsStack
<1> QED
  BY <1>1 DEF Below, Descending

LEMMA OneBelow ==
    ASSUME NEW item, NEW depth \in Nat, item.depth \in Nat, item.depth >= depth
    PROVE  Below(<< item >>, depth)
<1>1. IsList(<< item >>) /\ \A i \in DOMAIN << item >> : << item >>[i] = item
  BY SingletonList
<1> QED
  BY <1>1 DEF Below, Descending

LEMMA MappedBelow ==
    ASSUME NEW s, IsList(s), NEW t, t = [i \in DOMAIN s |-> t[i]],
           NEW depth \in Nat, NEW level \in Nat, level >= depth,
           \A i \in DOMAIN s : t[i].depth = level
    PROVE  Below(t, depth)
<1>1. IsList(t) /\ DOMAIN t = DOMAIN s
  BY MappedList
<1> QED
  BY <1>1 DEF Below, Descending

LEMMA AppendedBelow ==
    ASSUME NEW items, NEW depth \in Nat, Below(items, depth),
           NEW item, item.depth = depth
    PROVE  Below(items \o << item >>, depth)
<1> DEFINE all == items \o << item >>
<1>1. IsList(items) /\ Len(items) \in Nat /\ DOMAIN items = 1 .. Len(items)
  BY ListShape DEF Below
<1>2. IsList(<< item >>) /\ \A i \in DOMAIN << item >> : << item >>[i] = item
  BY SingletonList
<1>3. /\ IsList(all)
      /\ \A i \in DOMAIN all : \/ i \in DOMAIN items /\ all[i] = items[i]
                               \/ i - Len(items) \in DOMAIN << item >> /\ all[i] = item
  BY <1>1, <1>2, ConcatList
<1>4. DOMAIN << item >> \subseteq Nat \ {0} /\ DOMAIN all \subseteq Nat
  BY <1>2, <1>3, ListShape
<1> HIDE DEF all
<1>5. ASSUME NEW i \in DOMAIN all, NEW j \in DOMAIN all, i <= j
      PROVE  all[i].depth >= all[j].depth
  <2>1. CASE j \in DOMAIN items /\ all[j] = items[j]
    <3>1. i \in DOMAIN items /\ all[i] = items[i]
      BY <1>1, <1>3, <1>4, <1>5, <2>1
    <3> QED
      BY <1>5, <2>1, <3>1 DEF Below, Descending
  <2>2. CASE all[j] = item
    BY <1>3, <2>2 DEF Below
  <2> QED
    BY <1>3, <2>1, <2>2
<1>6. Below(all, depth)
  BY <1>3, <1>5 DEF Below, Descending
<1> QED
  BY <1>6 DEF all

-----------------------------------------------------------------------------

LEMMA PushingStep ==
    ASSUME TypeOK, agenda # << >>, Descending(agenda),
           NEW items, Below(items, Top.depth), agenda' = items \o Rest
    PROVE  DeeperFirst'
<1>1. Descending(items \o Rest)
  BY PushDescends
<1> QED
  BY <1>1 DEF DeeperFirst, Descending

LEMMA TopLevel ==
    ASSUME TypeOK, NEW do, Reached(do)
    PROVE  agenda # << >> /\ Top.depth \in Nat
<1>1. Top.depth \in 0 .. MaxDepth + 1 /\ MaxDepth \in Nat /\ agenda # << >>
  BY TopDepth
<1> QED
  BY <1>1

LEMMA PayloadsPush ==
    ASSUME TypeOK, DeeperFirst, Payloads
    PROVE  DeeperFirst'
<1>1. Descending(agenda)
  BY DEF DeeperFirst, Descending
<1>2. Reached("execute_payload") /\ agenda # << >> /\ Top.depth \in Nat
  BY TopLevel DEF Payloads, ExecutePath, EmptyPath, UndefinedPath, RecursionLimit,
                  Put, PutFails, Executing
<1>3. CASE ExecutePath
  <2> DEFINE actions == NormalizedActions(Paths[Top.target])
             items   == [i \in DOMAIN actions |->
                            ExecuteAction(actions[i], Top.kwargs, Top.depth)]
  <2>1. agenda' = items \o Rest
    BY <1>3 DEF ExecutePath, Proceed
  <2>2. IsList(actions)
    BY <1>3, PathsAreLists, NormalizedAreEntries DEF ExecutePath, Executing
  <2> HIDE DEF actions
  <2>3. \A i \in DOMAIN actions : items[i].depth = Top.depth
    BY DEF ExecuteAction
  <2>4. Below(items, Top.depth)
    BY <1>2, <2>2, <2>3, MappedBelow
  <2> HIDE DEF items
  <2> QED
    BY <1>1, <1>2, <2>1, <2>4, PushingStep
<1>4. CASE EmptyPath \/ UndefinedPath \/ RecursionLimit \/ Put \/ PutFails
  <2>1. agenda' = << >> \o Rest
    BY <1>4 DEF EmptyPath, UndefinedPath, RecursionLimit, Put, PutFails,
                Raise, Proceed
  <2> QED
    BY <1>1, <1>2, <2>1, NothingIsBelow, PushingStep
<1> QED
  BY <1>3, <1>4 DEF Payloads

LEMMA FunctionsPush ==
    ASSUME TypeOK, DeeperFirst, Functions
    PROVE  DeeperFirst'
<1>1. Descending(agenda)
  BY DEF DeeperFirst, Descending
<1>2. CASE AcceptAction
  <2> DEFINE fs    == Top.action.functions
             calls == [i \in DOMAIN fs |->
                          CallFunction(Top.action, fs[i],
                                       ActionKwargs(Top.action, Top.kwargs), Top.depth)]
             last  == FanOut(Top.action, ActionKwargs(Top.action, Top.kwargs), Top.depth)
  <2>1. Reached("execute_action") /\ agenda' = (calls \o << last >>) \o Rest
    BY <1>2 DEF AcceptAction, Proceed
  <2>2. IsList(fs)
    BY <1>2, <2>1, TopDepth, EntryLists DEF AcceptAction, IsItem
  <2> HIDE DEF fs
  <2>3. last.depth = Top.depth /\ \A i \in DOMAIN fs : calls[i].depth = Top.depth
    BY DEF CallFunction, FanOut
  <2>4. agenda # << >> /\ Top.depth \in Nat
    BY <2>1, TopLevel
  <2>5. Below(calls, Top.depth)
    BY <2>2, <2>3, <2>4, MappedBelow
  <2> HIDE DEF calls, last
  <2>6. Below(calls \o << last >>, Top.depth)
    BY <2>3, <2>4, <2>5, AppendedBelow
  <2> QED
    BY <1>1, <2>1, <2>4, <2>6, PushingStep
<1>3. CASE \/ RejectAction \/ NotAnAction \/ NotAFunction
           \/ PassOnFails \/ PassOnToNoQueue \/ EndTry
  <2>1. agenda # << >> /\ agenda' = << >> \o Rest
    BY <1>3 DEF RejectAction, NotAnAction, NotAFunction, PassOnFails, PassOnToNoQueue, EndTry,
                Reached, Raise, Proceed
  <2> QED
    BY <1>1, <2>1, NothingIsBelow, PushingStep
<1>4. ASSUME NEW before, Reached("call_function"),
             agenda' = << LeaveTry(before, Top.depth) >> \o Rest
      PROVE  DeeperFirst'
  <2>1. LeaveTry(before, Top.depth).depth = Top.depth
    BY DEF LeaveTry
  <2>2. agenda # << >> /\ Top.depth \in Nat
    BY <1>4, TopLevel
  <2>3. Below(<< LeaveTry(before, Top.depth) >>, Top.depth)
    BY <2>1, <2>2, OneBelow
  <2> QED
    BY <1>1, <1>4, <2>2, <2>3, PushingStep
<1>5. CASE CallFails
  BY <1>4, <1>5 DEF CallFails, Raise
<1>6. ASSUME NEW f \in Func, NEW outcome \in Does[f],
             FunctionRaises(outcome) \/ ReturnsInvalid(outcome)
      PROVE  DeeperFirst'
  BY <1>4, <1>6 DEF FunctionRaises, ReturnsInvalid, Calling, Raise
<1>7. ASSUME NEW f \in Func, NEW outcome \in Does[f], FunctionReturns(outcome)
      PROVE  DeeperFirst'
  <2> DEFINE ps    == outcome.payloads
             items == [i \in DOMAIN ps |->
                          ExecutePayload(ps[i].target, ps[i].kwargs, Top.depth + 1)]
             last  == LeaveTry(outcome.returns, Top.depth)
  <2>1. Reached("call_function") /\ agenda' = (items \o << last >>) \o Rest
    BY <1>7 DEF FunctionReturns, Calling, Proceed
  <2>2. IsList(ps)
    BY PipelineAssumption DEF IsOutcome
  <2> HIDE DEF ps
  <2>3. last.depth = Top.depth /\ \A i \in DOMAIN ps : items[i].depth = Top.depth + 1
    BY DEF LeaveTry, ExecutePayload
  <2>4. agenda # << >> /\ Top.depth \in Nat
    BY <2>1, TopLevel
  <2> DEFINE level == Top.depth + 1
  <2>. level \in Nat /\ level >= Top.depth /\ \A i \in DOMAIN ps : items[i].depth = level
    BY <2>3, <2>4
  <2> HIDE DEF level
  <2>5. Below(items, Top.depth)
    BY <2>2, <2>4, MappedBelow
  <2> HIDE DEF items, last
  <2>6. Below(items \o << last >>, Top.depth)
    BY <2>3, <2>4, <2>5, AppendedBelow
  <2> QED
    BY <1>1, <2>1, <2>4, <2>6, PushingStep
<1>8. CASE PassOn
  <2> DEFINE targets == Top.action.paths \o Top.action.queues
             items   == [i \in DOMAIN targets |->
                            ExecutePayload(targets[i], Top.kwargs, Top.depth + 1)]
  <2>1. Reached("fan_out") /\ agenda' = items \o Rest
    BY <1>8 DEF PassOn, Proceed
  <2>2. IsList(targets)
    BY <2>1, TopDepth, ConcatList, EntryLists DEF IsItem
  <2> HIDE DEF targets
  <2>3. \A i \in DOMAIN targets : items[i].depth = Top.depth + 1
    BY DEF ExecutePayload
  <2>4. agenda # << >> /\ Top.depth \in Nat
    BY <2>1, TopLevel
  <2> DEFINE level == Top.depth + 1
  <2>. level \in Nat /\ level >= Top.depth /\ \A i \in DOMAIN targets : items[i].depth = level
    BY <2>3, <2>4
  <2> HIDE DEF level
  <2>5. Below(items, Top.depth)
    BY <2>2, <2>4, MappedBelow
  <2> HIDE DEF items
  <2> QED
    BY <1>1, <2>1, <2>4, <2>5, PushingStep
<1> QED
  BY <1>2, <1>3, <1>5, <1>6, <1>7, <1>8 DEF Functions

LEMMA StepDescends == TypeOK /\ DeeperFirst /\ [Next]_vars => DeeperFirst'
<1> SUFFICES ASSUME TypeOK, DeeperFirst, [Next]_vars PROVE DeeperFirst'
  OBVIOUS
<1>1. Descending(agenda)
  BY DEF DeeperFirst, Descending
<1>2. ASSUME agenda' = << >> PROVE DeeperFirst'
  BY <1>2, EmptySeq DEF DeeperFirst
<1>3. ASSUME NEW event \in Events, Invoke(event) \/ Refuse(event) PROVE DeeperFirst'
  BY <1>2, <1>3 DEF Invoke, Refuse, Start
<1>4. CASE Take
  <2>1. agenda' = << ParseRecord(Upcoming) >> /\ ParseRecord(Upcoming).depth = 0
    BY <1>4 DEF Take, ParseRecord
  <2>2. Below(agenda', 0)
    BY <2>1, OneBelow
  <2> QED
    BY <2>2 DEF Below, Descending, DeeperFirst
<1>5. CASE ParseToPayload
  <2> DEFINE item == ExecutePayload(PathOf(Top.record), Top.record.kwargs, 1)
  <2>1. Reached("parse_record") /\ agenda' = << item >> \o Rest
    BY <1>5 DEF ParseToPayload, Proceed
  <2>2. item.depth = 1
    BY DEF ExecutePayload
  <2>3. agenda # << >> /\ Top.depth \in Nat
    BY <2>1, TopLevel
  <2>4. Top.depth <= 1
    BY <2>1, TopDepth DEF IsItem
  <2> HIDE DEF item
  <2>5. Below(<< item >>, Top.depth)
    BY <2>2, <2>3, <2>4, OneBelow
  <2> QED
    BY <1>1, <2>1, <2>3, <2>5, PushingStep
<1>6. CASE FailToParse \/ SwallowFails
  <2>1. agenda # << >> /\ agenda' = << >> \o Rest
    BY <1>6 DEF FailToParse, SwallowFails, Unwinding, Reached, Raise
  <2> QED
    BY <1>1, <2>1, NothingIsBelow, PushingStep
<1>7. CASE Unwind \/ Swallow
  <2>1. agenda # << >> /\ agenda' = Rest
    BY <1>7 DEF Unwind, Swallow, Unwinding
  <2> QED
    BY <1>1, <2>1, RestDescends DEF DeeperFirst, Descending
<1>8. CASE Payloads
  BY <1>8, PayloadsPush
<1>9. CASE Functions
  BY <1>9, FunctionsPush
<1>10. CASE Kill
  BY <1>2, <1>10 DEF Kill
<1>11. CASE \/ Undecodable \/ Succeed \/ DropRecord \/ FailRecord \/ EscapeRecord
            \/ HandlerFailsOnRecord \/ Finish \/ FinishFailed \/ UNCHANGED vars
  BY <1>11 DEF Undecodable, Succeed, DropRecord, FailRecord, Settle, EscapeRecord,
               HandlerFailsOnRecord, Finish, FinishFailed, Respond, vars, DeeperFirst
<1> QED
  BY <1>3, <1>4, <1>5, <1>6, <1>7, <1>8, <1>9, <1>10, <1>11 DEF Next, Work, Handlers

(***************************************************************************)
(* README.md:77 and pipeline.py:338-339,363-366: what a function's return  *)
(* value leads to is done before anything that waited when the function    *)
(* was called, for every set of paths, functions and returned Payloads.    *)
(***************************************************************************)
THEOREM DeepestFirst == Spec => []DeeperFirst
<1>1. Init => DeeperFirst
  BY EmptySeq DEF Init, DeeperFirst
<1> QED
  BY <1>1, InitType, StepType, StepDescends, PTL DEF Spec

-----------------------------------------------------------------------------
(* The ranks of what a step pushes.                                        *)

Descent ==
    \E k \in 0 .. Len(agenda') :
        /\ SubSeq(agenda', k + 1, Len(agenda')) = Rest
        /\ \A i \in 1 .. k : Rank(agenda'[i]) < Rank(Top)

LEMMA PushingDescent ==
    ASSUME TypeOK, agenda # << >>,
           NEW items, IsList(items), \A i \in DOMAIN items : Rank(items[i]) < Rank(Top),
           agenda' = items \o Rest
    PROVE  Descent
<1> DEFINE all == items \o Rest
           k   == Len(items)
           S   == Range(items) \cup Range(Rest)
<1>1. IsList(Rest)
  BY TailList DEF TypeOK, IsStack, Rest
<1>2. items \in Seq(S) /\ Rest \in Seq(S)
  BY <1>1, SeqMonotonic DEF IsList
<1>3. /\ k \in Nat /\ DOMAIN items = 1 .. k /\ Len(Rest) \in Nat
      /\ \A i \in DOMAIN items : all[i] = items[i]
  BY <1>1, ConcatAt
<1>4. Len(all) = k + Len(Rest) /\ all \in Seq(S)
  BY <1>2, ConcatProperties
<1>5. SubSeq(all, k + 1, Len(all)) = Rest
  <2>1. CASE Len(Rest) = 0
    <3>1. Rest = << >>
      BY <1>2, <2>1, EmptySeq
    <3>2. SubSeq(all, k + 1, Len(all)) = << >>
      BY <1>3, <1>4, <2>1, SubSeqEmpty
    <3> QED
      BY <3>1, <3>2
  <2>2. CASE Len(Rest) # 0
    <3>1. /\ k + 1 \in k + 1 .. k + Len(Rest) /\ Len(all) \in k + 1 .. k + Len(Rest)
          /\ (k + 1) - k = 1 /\ Len(all) - k = Len(Rest)
      BY <1>3, <1>4, <2>2
    <3>2. SubSeq(all, k + 1, Len(all)) = SubSeq(Rest, 1, Len(Rest))
      BY <1>2, <3>1, SubSeqOfConcat2
    <3> QED
      BY <1>2, <3>2, SubSeqFull
  <2> QED
    BY <2>1, <2>2
<1>6. k \in 0 .. Len(all)
  BY <1>3, <1>4
<1>7. agenda' = all
  OBVIOUS
<1> HIDE DEF all, k
<1> QED
  BY <1>3, <1>5, <1>6, <1>7 DEF Descent

LEMMA NothingDescends ==
    ASSUME TypeOK, agenda # << >>, agenda' \in {Rest, << >> \o Rest}
    PROVE  Descent
<1>1. IsList(<< >>) /\ DOMAIN << >> = {}
  BY EmptyStack, EmptySeq DEF IsStack
<1>2. << >> \o Rest = Rest
  <2>1. Rest \in Seq(Range(Rest))
    BY TailList DEF TypeOK, IsStack, Rest, IsList
  <2> QED
    BY <2>1, ConcatEmptySeq
<1> QED
  BY <1>1, <1>2, PushingDescent

\* Work of a deeper level ranks lower, whatever it is.
LEMMA DeeperRanksLower ==
    ASSUME NEW above, above.depth \in 0 .. MaxDepth + 1,
           NEW item, item.depth = above.depth + 1
    PROVE  Rank(item) < Rank(above)
<1>1. MaxDepth \in Nat
  BY PipelineAssumption
<1>2. Rank(item) <= 4 * (MaxDepth + 1 - item.depth) + 3
  BY <1>1 DEF Rank
<1>3. Rank(above) >= 4 * (MaxDepth + 1 - above.depth)
  BY <1>1 DEF Rank
<1> QED
  BY <1>1, <1>2, <1>3 DEF Rank

\* On its own level, work goes from a path over its Actions to its functions.
LEMMA LaterRanksLower ==
    ASSUME NEW above, above.depth \in 0 .. MaxDepth + 1,
           NEW item, item.depth = above.depth,
           \/ above.do = "execute_payload" /\ item.do = "execute_action"
           \/ above.do = "execute_action" /\ item.do \in {"call_function", "fan_out"}
           \/ above.do = "call_function" /\ item.do = "leave_try"
    PROVE  Rank(item) < Rank(above)
BY PipelineAssumption DEF Rank

LEMMA PayloadsDescend ==
    ASSUME TypeOK, Payloads
    PROVE  Descent
<1>1. Reached("execute_payload")
  BY DEF Payloads, ExecutePath, EmptyPath, UndefinedPath, RecursionLimit, Put, PutFails,
         Executing
<1>2. /\ agenda # << >> /\ Top.do = "execute_payload" /\ Top.depth \in 0 .. MaxDepth + 1
  BY <1>1, TopDepth
<1>3. CASE ExecutePath
  <2> DEFINE actions == NormalizedActions(Paths[Top.target])
             items   == [i \in DOMAIN actions |->
                            ExecuteAction(actions[i], Top.kwargs, Top.depth)]
  <2>1. agenda' = items \o Rest
    BY <1>3 DEF ExecutePath, Proceed
  <2>2. IsList(actions)
    BY <1>3, PathsAreLists, NormalizedAreEntries DEF ExecutePath, Executing
  <2> HIDE DEF actions
  <2>3. \A i \in DOMAIN actions : items[i].depth = Top.depth /\ items[i].do = "execute_action"
    BY DEF ExecuteAction
  <2>4. IsList(items) /\ DOMAIN items = DOMAIN actions
    BY <2>2, MappedList
  <2> HIDE DEF items
  <2> QED
    BY <1>2, <2>1, <2>3, <2>4, LaterRanksLower, PushingDescent
<1>4. CASE EmptyPath \/ UndefinedPath \/ RecursionLimit \/ Put \/ PutFails
  BY <1>2, <1>4, NothingDescends
     DEF EmptyPath, UndefinedPath, RecursionLimit, Put, PutFails, Raise, Proceed
<1> QED
  BY <1>3, <1>4 DEF Payloads

LEMMA FunctionsDescend ==
    ASSUME TypeOK, Functions
    PROVE  Descent
<1>1. CASE AcceptAction
  <2> DEFINE fs    == Top.action.functions
             calls == [i \in DOMAIN fs |->
                          CallFunction(Top.action, fs[i],
                                       ActionKwargs(Top.action, Top.kwargs), Top.depth)]
             last  == FanOut(Top.action, ActionKwargs(Top.action, Top.kwargs), Top.depth)
             items == calls \o << last >>
  <2>1. Reached("execute_action") /\ agenda' = items \o Rest
    BY <1>1 DEF AcceptAction, Proceed
  <2>2. /\ agenda # << >> /\ Top.do = "execute_action" /\ Top.depth \in 0 .. MaxDepth + 1
        /\ IsList(fs)
    BY <1>1, <2>1, TopDepth, EntryLists DEF AcceptAction, IsItem
  <2> DEFINE Good(item) == item.depth = Top.depth /\ item.do \in {"call_function", "fan_out"}
  <2>3. Good(last) /\ \A i \in DOMAIN fs : Good(calls[i])
    BY DEF CallFunction, FanOut
  <2> HIDE DEF fs, last, Good
  <2>4. IsList(calls) /\ DOMAIN calls = DOMAIN fs
    BY <2>2, MappedList
  <2> HIDE DEF calls
  <2>5. IsList(items) /\ \A i \in DOMAIN items : Good(items[i])
    BY <2>3, <2>4, SingletonList, ConcatList
  <2> HIDE DEF items
  <2>6. \A i \in DOMAIN items : Rank(items[i]) < Rank(Top)
    BY <2>2, <2>5, LaterRanksLower DEF Good
  <2> QED
    BY <2>1, <2>2, <2>5, <2>6, PushingDescent
<1>2. CASE \/ RejectAction \/ NotAnAction \/ NotAFunction
           \/ PassOnFails \/ PassOnToNoQueue \/ EndTry
  BY <1>2, NothingDescends
     DEF RejectAction, NotAnAction, NotAFunction, PassOnFails, PassOnToNoQueue, EndTry,
         Reached, Raise, Proceed
<1>3. ASSUME NEW before, Reached("call_function")
      PROVE  Rank(LeaveTry(before, Top.depth)) < Rank(Top)
  BY <1>3, TopDepth, LaterRanksLower DEF LeaveTry
<1>4. ASSUME NEW before, Reached("call_function"),
             agenda' = << LeaveTry(before, Top.depth) >> \o Rest
      PROVE  Descent
  BY <1>3, <1>4, TopDepth, SingletonList, PushingDescent
<1>5. CASE CallFails
  BY <1>4, <1>5 DEF CallFails, Raise
<1>6. ASSUME NEW f \in Func, NEW outcome \in Does[f],
             FunctionRaises(outcome) \/ ReturnsInvalid(outcome)
      PROVE  Descent
  BY <1>4, <1>6 DEF FunctionRaises, ReturnsInvalid, Calling, Raise
<1>7. ASSUME NEW f \in Func, NEW outcome \in Does[f], FunctionReturns(outcome)
      PROVE  Descent
  <2> DEFINE ps    == outcome.payloads
             calls == [i \in DOMAIN ps |->
                          ExecutePayload(ps[i].target, ps[i].kwargs, Top.depth + 1)]
             last  == LeaveTry(outcome.returns, Top.depth)
             items == calls \o << last >>
  <2>1. Reached("call_function") /\ agenda' = items \o Rest
    BY <1>7 DEF FunctionReturns, Calling, Proceed
  <2>2. IsList(ps)
    BY PipelineAssumption DEF IsOutcome
  <2>3. agenda # << >> /\ Top.depth \in 0 .. MaxDepth + 1 /\ Rank(last) < Rank(Top)
    BY <1>3, <2>1, TopDepth
  <2> HIDE DEF ps, last
  <2>4. \A i \in DOMAIN ps : calls[i].depth = Top.depth + 1
    BY DEF ExecutePayload
  <2>5. IsList(calls) /\ DOMAIN calls = DOMAIN ps
    BY <2>2, MappedList
  <2> HIDE DEF calls
  <2>6. \A i \in DOMAIN calls : Rank(calls[i]) < Rank(Top)
    BY <2>3, <2>4, <2>5, DeeperRanksLower
  <2>7. IsList(items) /\ \A i \in DOMAIN items : items[i] = last \/ \E j \in DOMAIN calls : items[i] = calls[j]
    BY <2>5, SingletonList, ConcatList
  <2> HIDE DEF items
  <2>8. \A i \in DOMAIN items : Rank(items[i]) < Rank(Top)
    BY <2>3, <2>6, <2>7
  <2> QED
    BY <2>1, <2>3, <2>7, <2>8, PushingDescent
<1>8. CASE PassOn
  <2> DEFINE targets == Top.action.paths \o Top.action.queues
             items   == [i \in DOMAIN targets |->
                            ExecutePayload(targets[i], Top.kwargs, Top.depth + 1)]
  <2>1. Reached("fan_out") /\ agenda' = items \o Rest
    BY <1>8 DEF PassOn, Proceed
  <2>2. IsList(targets) /\ agenda # << >> /\ Top.depth \in 0 .. MaxDepth + 1
    BY <2>1, TopDepth, ConcatList, EntryLists DEF IsItem
  <2> HIDE DEF targets
  <2>3. \A i \in DOMAIN targets : items[i].depth = Top.depth + 1
    BY DEF ExecutePayload
  <2>4. IsList(items) /\ DOMAIN items = DOMAIN targets
    BY <2>2, MappedList
  <2> HIDE DEF items
  <2> QED
    BY <2>1, <2>2, <2>3, <2>4, DeeperRanksLower, PushingDescent
<1> QED
  BY <1>1, <1>2, <1>5, <1>6, <1>7, <1>8 DEF Functions

LEMMA StepOfWorkDescends ==
    ASSUME TypeOK, Next, phase = "run", phase' = "run"
    PROVE  Descent
<1>1. ASSUME NEW event \in Events PROVE ~Invoke(event) /\ ~Refuse(event)
  BY DEF Invoke, Refuse, Start, Ended, PE!Ended
<1>2. ~Kill /\ ~Take /\ ~Undecodable /\ ~Finish /\ ~FinishFailed
  BY DEF Kill, Take, Undecodable, Finish, FinishFailed, Respond
<1>3. /\ ~Succeed /\ ~DropRecord /\ ~FailRecord /\ ~EscapeRecord /\ ~HandlerFailsOnRecord
  BY DEF Succeed, DropRecord, FailRecord, Settle, EscapeRecord, HandlerFailsOnRecord, Outermost
<1>4. CASE ParseToPayload
  <2> DEFINE item == ExecutePayload(PathOf(Top.record), Top.record.kwargs, 1)
  <2>1. Reached("parse_record") /\ agenda' = << item >> \o Rest
    BY <1>4 DEF ParseToPayload, Proceed
  <2>2. agenda # << >> /\ Top.depth = 0 /\ MaxDepth \in Nat
    BY <2>1, TopDepth DEF IsItem
  <2>3. item.depth = Top.depth + 1
    BY <2>2 DEF ExecutePayload
  <2> HIDE DEF item
  <2>4. Rank(item) < Rank(Top)
    BY <2>2, <2>3, DeeperRanksLower
  <2> QED
    BY <2>1, <2>2, <2>4, SingletonList, PushingDescent
<1>5. CASE FailToParse \/ Unwind \/ Swallow \/ SwallowFails
  BY <1>5, NothingDescends
     DEF FailToParse, Unwind, Swallow, SwallowFails, Unwinding, Reached, Raise
<1> QED
  BY <1>1, <1>2, <1>3, <1>4, <1>5, PayloadsDescend, FunctionsDescend DEF Next, Work, Handlers

(***************************************************************************)
(* pipeline.py:225-370: within a record every step replaces the innermost  *)
(* item by items of lower rank, for every set of paths, however they lead  *)
(* to each other, and whatever Payloads functions return: what is left to  *)
(* do descends in a well-founded order, bounded by the recursion limit.    *)
(***************************************************************************)
THEOREM WorkAlwaysDescends == Spec => WorkDescends
<1>1. TypeOK /\ [Next]_vars =>
          [phase = "run" /\ phase' = "run" =>
              \E k \in 0 .. Len(agenda') :
                  /\ SubSeq(agenda', k + 1, Len(agenda')) = Rest
                  /\ \A i \in 1 .. k : Rank(agenda'[i]) < Rank(Top)]_vars
  BY StepOfWorkDescends DEF Descent
<1> QED
  BY <1>1, InitType, StepType, PTL DEF Spec, WorkDescends

=============================================================================
