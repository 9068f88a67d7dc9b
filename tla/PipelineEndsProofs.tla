------------------------- MODULE PipelineEndsProofs -------------------------
(***************************************************************************)
(* What ends an invocation early, and what functions are called with.      *)
(* Both follow from where the items of the stack come from: each from the  *)
(* record's path, through what its Actions pass on to and its functions    *)
(* return, and with arguments that were accepted; each that no try block   *)
(* is around through what Actions pass on to alone.                        *)
(***************************************************************************)
EXTENDS PipelineProofs, SignatureProofs

\* The steps from a path to all that may be executed in consequence of it.
Steps == PassesOn \cup Returns

\* All of this is decided by the deployment and the current record.
LEMMA FixedByRecord ==
    ASSUME UNCHANGED <<dep, batch, n>>
    PROVE  /\ Paths' = Paths /\ DefaultPath' = DefaultPath /\ Enum' = Enum
           /\ \A p : ActionsOf(p)' = ActionsOf(p)
           /\ PassesOn' = PassesOn /\ Steps' = Steps
           /\ Nodes(PassesOn)' = Nodes(PassesOn)
           /\ \A t, depth : /\ Chain(PassesOn, t, depth)' = Chain(PassesOn, t, depth)
                            /\ Chain(Steps, t, depth)' = Chain(Steps, t, depth)
           /\ Passed' = Passed
           /\ \A p : Executable(p)' = Executable(p)
<1>1. Paths' = Paths /\ DefaultPath' = DefaultPath
  BY DEF Paths, DefaultPath, Calls, Callable
<1>2. Enum' = Enum
  BY <1>1 DEF Enum
<1>3. \A p : ActionsOf(p)' = ActionsOf(p)
  BY <1>1 DEF ActionsOf, NormalizedActions
<1>4. PassesOn' = PassesOn
  BY <1>1, <1>2, <1>3 DEF PassesOn
<1>5. Returns' = Returns
  BY <1>1, <1>2, <1>3 DEF Returns
<1>6. Steps' = Steps
  BY <1>4, <1>5 DEF Steps
<1>7. PathOf(batch[n])' = PathOf(batch[n])
  BY <1>1 DEF PathOf
<1>8. Nodes(PassesOn)' = Nodes(PassesOn) /\ Nodes(Steps)' = Nodes(Steps)
  BY <1>4, <1>6, <1>7 DEF Nodes
<1>9. \A t, depth : /\ Chain(PassesOn, t, depth)' = Chain(PassesOn, t, depth)
                    /\ Chain(Steps, t, depth)' = Chain(Steps, t, depth)
  BY <1>4, <1>6, <1>7, <1>8 DEF Chain
<1>10. Passed' = Passed
  BY <1>8, <1>9 DEF Passed
<1>11. \A p : Executable(p)' = Executable(p)
  BY <1>9 DEF Executable, Steps
<1> QED
  BY <1>1, <1>2, <1>3, <1>4, <1>6, <1>8, <1>9, <1>10, <1>11

-----------------------------------------------------------------------------
(* Chains of paths that lead to each other.                                *)

LEMMA FirstInChain ==
    ASSUME NEW steps
    PROVE  Chain(steps, PathOf(batch[n]), 1)
<1> DEFINE chain == [i \in 1 .. 1 |-> PathOf(batch[n])]
<1>1. chain \in [1 .. 1 -> Nodes(steps)] /\ chain[1] = PathOf(batch[n])
  BY DEF Nodes
<1>2. 1 .. 1 - 1 = {}
  OBVIOUS
<1> QED
  BY <1>1, <1>2 DEF Chain

LEMMA NextInChain ==
    ASSUME NEW steps, NEW p, NEW depth \in Nat, depth >= 1, Chain(steps, p, depth),
           NEW target, <<p, target>> \in steps
    PROVE  Chain(steps, target, depth + 1)
<1>1. PICK chain \in [1 .. depth -> Nodes(steps)] :
          /\ chain[1] = PathOf(batch[n]) /\ chain[depth] = p
          /\ \A i \in 1 .. depth - 1 : <<chain[i], chain[i + 1]>> \in steps
  BY DEF Chain
<1>2. target \in Nodes(steps)
  BY DEF Nodes
<1> DEFINE longer == [i \in 1 .. depth + 1 |-> IF i <= depth THEN chain[i] ELSE target]
<1>3. longer \in [1 .. depth + 1 -> Nodes(steps)]
  BY <1>1, <1>2
<1>4. longer[1] = PathOf(batch[n]) /\ longer[depth + 1] = target /\ longer[depth] = p
  BY <1>1
<1>5. ASSUME NEW i \in 1 .. (depth + 1) - 1 PROVE <<longer[i], longer[i + 1]>> \in steps
  <2>1. CASE i = depth
    BY <1>4, <2>1
  <2>2. CASE i # depth
    <3>1. i \in 1 .. depth - 1 /\ longer[i] = chain[i] /\ longer[i + 1] = chain[i + 1]
      BY <2>2
    <3> QED
      BY <1>1, <3>1
  <2> QED
    BY <2>1, <2>2
<1> HIDE DEF longer
<1> QED
  BY <1>3, <1>4, <1>5 DEF Chain

LEMMA LastInChain ==
    ASSUME NEW target, NEW depth \in 1 .. MaxDepth + 1, Chain(PassesOn, target, depth)
    PROVE  /\ target \in Nodes(PassesOn)
           /\ depth <= MaxDepth => target \in Passed
<1>1. depth \in 1 .. depth /\ MaxDepth \in Nat
  BY PipelineAssumption
<1>2. target \in Nodes(PassesOn)
  BY <1>1 DEF Chain
<1> QED
  BY <1>1, <1>2 DEF Passed

-----------------------------------------------------------------------------
(* Where every item comes from.                                            *)

\* A target, or a path whose Action it is, at the end of a chain as long as
\* the recursion is deep.
Linked(steps, item) ==
    /\ item.do = "execute_payload" => item.depth >= 1 /\ Chain(steps, item.target, item.depth)
    /\ item.do \in {"execute_action", "call_function", "fan_out"} =>
           /\ item.depth >= 1
           /\ \E p \in DOMAIN Paths :
                 Chain(steps, p, item.depth) /\ item.action \in ActionsOf(p)

IsDeployed(item) ==
    /\ item.do = "parse_record" => item.record = batch[n]
    /\ Linked(Steps, item)
    /\ item.do = "execute_payload" => item.target \in Enum \cup Queue
    /\ item.do = "call_function" =>
           /\ item.f \in Range(item.action.functions)
           /\ \E kwargs : /\ Accepts(item.action, kwargs)
                          /\ item.kwargs = ActionKwargs(item.action, kwargs)

DeployedInv == \A i \in DOMAIN agenda : IsDeployed(agenda[i])

LEMMA PushDeployed ==
    ASSUME TypeOK, DeployedInv, agenda # << >>, UNCHANGED <<dep, batch, n>>,
           NEW items, IsList(items), \A i \in DOMAIN items : IsDeployed(items[i]),
           agenda' = items \o Rest
    PROVE  DeployedInv'
<1>1. IsList(Rest) /\ \A i \in DOMAIN Rest : IsDeployed(Rest[i])
  BY TailList DEF TypeOK, IsStack, Rest, DeployedInv
<1> DEFINE all == items \o Rest
<1>2. agenda' = all /\ \A i \in DOMAIN all : IsDeployed(all[i])
  BY <1>1, ConcatList
<1> HIDE DEF all
<1> QED
  BY <1>2, FixedByRecord DEF DeployedInv, IsDeployed, Linked

\* What an item puts on the stack is linked as it is itself.
LEMMA ActionLinked ==
    ASSUME NEW steps, NEW item, NEW next, Linked(steps, item), next.depth = item.depth,
           \/ /\ item.do = "execute_payload" /\ item.target \in DOMAIN Paths
              /\ next.do = "execute_action" /\ next.action \in ActionsOf(item.target)
           \/ /\ item.do = "execute_action"
              /\ next.do \in {"call_function", "fan_out"} /\ next.action = item.action
    PROVE  Linked(steps, next)
BY DEF Linked

LEMMA PayloadLinked ==
    ASSUME NEW steps, NEW item, NEW next, Linked(steps, item), item.depth \in Nat,
           item.do \in {"call_function", "fan_out"},
           next.do = "execute_payload", next.depth = item.depth + 1,
           \A p \in DOMAIN Paths : item.action \in ActionsOf(p) => <<p, next.target>> \in steps
    PROVE  Linked(steps, next)
<1>1. PICK p \in DOMAIN Paths : Chain(steps, p, item.depth) /\ item.action \in ActionsOf(p)
  BY DEF Linked
<1>2. item.depth >= 1 /\ next.depth >= 1
  BY DEF Linked
<1>3. Chain(steps, next.target, item.depth + 1)
  BY <1>1, <1>2, NextInChain
<1> QED
  BY <1>2, <1>3 DEF Linked

LEMMA TopDeployed ==
    ASSUME TypeOK, DeployedInv, agenda # << >>
    PROVE  IsDeployed(Top)
BY TailList DEF TypeOK, IsStack, Top, DeployedInv

-----------------------------------------------------------------------------
(* What no try block is around comes from the record's own path.           *)

Unguarded(items) == \A j \in DOMAIN items : items[j].do # "leave_try"

Outside(items, i) == \A j \in DOMAIN items : j >= i => items[j].do # "leave_try"

FromMessage(item) == Linked(PassesOn, item)

ChainInv == \A i \in DOMAIN agenda : Outside(agenda, i) => FromMessage(agenda[i])

LEMMA TopFromMessage ==
    ASSUME TypeOK, ChainInv, agenda # << >>, Unguarded(agenda)
    PROVE  FromMessage(Top)
BY TailList DEF TypeOK, IsStack, Top, ChainInv, Unguarded, Outside

LEMMA PushChain ==
    ASSUME TypeOK, ChainInv, agenda # << >>, UNCHANGED <<dep, batch, n>>,
           NEW items, IsList(items), agenda' = items \o Rest,
           Top.do # "leave_try" \/ DOMAIN items = {},
           \A i \in DOMAIN items : Outside(items, i) /\ Unguarded(agenda) => FromMessage(items[i])
    PROVE  ChainInv'
<1> DEFINE all == items \o Rest
           len == Len(items)
<1>1. /\ IsList(Rest) /\ IsList(agenda) /\ 1 \in DOMAIN agenda /\ Top = agenda[1]
      /\ \A k \in DOMAIN Rest : k + 1 \in DOMAIN agenda /\ Rest[k] = agenda[k + 1]
  BY TailList DEF TypeOK, IsStack, Top, Rest
<1>2. /\ len \in Nat /\ DOMAIN items = 1 .. len
      /\ Len(Rest) \in Nat /\ DOMAIN Rest = 1 .. Len(Rest)
      /\ DOMAIN all = 1 .. len + Len(Rest)
      /\ \A k \in DOMAIN items : all[k] = items[k]
      /\ \A k \in DOMAIN Rest : all[len + k] = Rest[k]
  BY <1>1, ConcatAt
<1>3. Len(agenda) \in Nat /\ DOMAIN agenda = 1 .. Len(agenda) /\ Len(Rest) = Len(agenda) - 1
  <2>1. agenda \in Seq(Range(agenda))
    BY <1>1 DEF IsList
  <2> QED
    BY <2>1, HeadTailProperties, LenProperties DEF Rest
<1> HIDE DEF all, len
<1>4. ASSUME NEW i \in DOMAIN all, Outside(all, i) PROVE FromMessage(all[i])
  <2>1. CASE i \in DOMAIN items
    <3>1. Outside(items, i)
      BY <1>2, <1>4, <2>1 DEF Outside
    <3>2. ASSUME NEW k \in DOMAIN Rest PROVE Rest[k].do # "leave_try"
      <4>1. len + k \in DOMAIN all /\ len + k >= i /\ all[len + k] = Rest[k]
        BY <1>2, <2>1
      <4> QED
        BY <1>4, <4>1 DEF Outside
    <3>3. ASSUME NEW j \in DOMAIN agenda PROVE agenda[j].do # "leave_try"
      <4>1. CASE j = 1
        BY <1>1, <2>1, <4>1
      <4>2. CASE j # 1
        <5>1. j - 1 \in DOMAIN Rest /\ (j - 1) + 1 = j
          BY <1>2, <1>3, <4>2
        <5> QED
          BY <1>1, <3>2, <5>1
      <4> QED
        BY <4>1, <4>2
    <3> QED
      BY <1>2, <2>1, <3>1, <3>3 DEF Unguarded
  <2>2. CASE i \notin DOMAIN items
    <3> DEFINE k == i - len
    <3>1. k \in DOMAIN Rest /\ all[i] = Rest[k]
      BY <1>2, <2>2
    <3>2. k + 1 \in DOMAIN agenda /\ agenda[k + 1] = all[i]
      BY <1>1, <3>1
    <3>3. ASSUME NEW j \in DOMAIN agenda, j >= k + 1 PROVE agenda[j].do # "leave_try"
      <4>1. /\ j - 1 \in DOMAIN Rest /\ (j - 1) + 1 = j
            /\ len + (j - 1) \in DOMAIN all /\ len + (j - 1) >= i
        BY <1>2, <1>3, <3>1, <3>3
      <4> QED
        BY <1>1, <1>2, <1>4, <4>1 DEF Outside
    <3> QED
      BY <3>2, <3>3 DEF ChainInv, Outside
  <2> QED
    BY <2>1, <2>2
<1>5. agenda' = all
  BY DEF all
<1> QED
  BY <1>4, <1>5, FixedByRecord DEF ChainInv, FromMessage, Linked, Outside

-----------------------------------------------------------------------------
(* Each step keeps to that.                                                *)

OriginInv == DeployedInv /\ ChainInv

LEMMA PushOrigins ==
    ASSUME TypeOK, OriginInv, agenda # << >>, Top.do # "leave_try",
           UNCHANGED <<dep, batch, n>>,
           NEW items, IsList(items), agenda' = items \o Rest,
           \A i \in DOMAIN items : IsDeployed(items[i]),
           \A i \in DOMAIN items : Outside(items, i) /\ Unguarded(agenda) => FromMessage(items[i])
    PROVE  OriginInv'
BY PushDeployed, PushChain DEF OriginInv

\* Steps that push nothing, or the mark of the try block of a function.
LEMMA MarkOrigins ==
    ASSUME TypeOK, OriginInv, agenda # << >>, UNCHANGED <<dep, batch, n>>,
           \/ agenda' = << >> \o Rest
           \/ /\ Top.do # "leave_try"
              /\ \E before, depth : agenda' = << LeaveTry(before, depth) >> \o Rest
    PROVE  OriginInv'
<1>1. CASE agenda' = << >> \o Rest
  <2>1. IsList(<< >>) /\ DOMAIN << >> = {}
    BY EmptyStack, EmptySeq DEF IsStack
  <2> QED
    BY <1>1, <2>1, PushDeployed, PushChain DEF OriginInv
<1>2. ASSUME NEW before, NEW depth, agenda' = << LeaveTry(before, depth) >> \o Rest,
             Top.do # "leave_try"
      PROVE  OriginInv'
  <2>1. IsDeployed(LeaveTry(before, depth)) /\ FromMessage(LeaveTry(before, depth))
    BY DEF IsDeployed, FromMessage, Linked, LeaveTry
  <2> QED
    BY <1>2, <2>1, SingletonList, PushOrigins
<1> QED
  BY <1>1, <1>2

LEMMA PopOrigins ==
    ASSUME TypeOK, OriginInv, agenda # << >>, UNCHANGED <<dep, batch, n>>, agenda' = Rest
    PROVE  OriginInv'
<1>1. Rest \in Seq(Range(Rest))
  BY TailList DEF TypeOK, IsStack, Rest, IsList
<1>2. agenda' = << >> \o Rest
  BY <1>1, ConcatEmptySeq
<1> QED
  BY <1>2, MarkOrigins

LEMMA PayloadsOrigins ==
    ASSUME TypeOK, OriginInv, Payloads
    PROVE  OriginInv'
<1>1. CASE ExecutePath
  <2> DEFINE actions == NormalizedActions(Paths[Top.target])
             items   == [i \in DOMAIN actions |->
                            ExecuteAction(actions[i], Top.kwargs, Top.depth)]
  <2>1. Reached("execute_payload") /\ Top.target \in DOMAIN Paths
    BY <1>1 DEF ExecutePath, Executing
  <2>2. IsList(actions) /\ \A i \in DOMAIN actions : actions[i] \in ActionsOf(Top.target)
    BY <2>1, PathsAreLists, NormalizedAreEntries DEF ActionsOf, Range
  <2>3. agenda' = items \o Rest /\ UNCHANGED <<dep, batch, n>>
    BY <1>1 DEF ExecutePath, Proceed, loop
  <2> HIDE DEF actions
  <2>4. IsList(items) /\ DOMAIN items = DOMAIN actions
    BY <2>2, MappedList
  <2>5. \A i \in DOMAIN items : /\ items[i].do = "execute_action" /\ items[i].depth = Top.depth
                                /\ items[i].action \in ActionsOf(Top.target)
    BY <2>2 DEF ExecuteAction
  <2> HIDE DEF items
  <2>6. agenda # << >> /\ Top.do = "execute_payload"
    BY <2>1 DEF Reached
  <2>7. ASSUME NEW i \in DOMAIN items PROVE IsDeployed(items[i])
    <3>1. Linked(Steps, Top)
      BY <2>6, TopDeployed DEF OriginInv, IsDeployed
    <3>2. Linked(Steps, items[i])
      BY <2>1, <2>5, <2>6, <3>1, ActionLinked
    <3> QED
      BY <2>5, <3>2 DEF IsDeployed
  <2>8. ASSUME Unguarded(agenda), NEW i \in DOMAIN items PROVE FromMessage(items[i])
    <3>1. FromMessage(Top)
      BY <2>6, <2>8, TopFromMessage DEF OriginInv
    <3> QED
      BY <2>1, <2>5, <2>6, <3>1, ActionLinked DEF FromMessage
  <2> QED
    BY <2>3, <2>4, <2>6, <2>7, <2>8, PushOrigins
<1>2. CASE EmptyPath \/ UndefinedPath \/ RecursionLimit \/ Put \/ PutFails
  <2>1. agenda # << >> /\ agenda' = << >> \o Rest /\ UNCHANGED <<dep, batch, n>>
    BY <1>2 DEF EmptyPath, UndefinedPath, RecursionLimit, Put, PutFails, Executing, Reached,
                Raise, Proceed, loop
  <2> QED
    BY <2>1, MarkOrigins
<1> QED
  BY <1>1, <1>2 DEF Payloads

LEMMA AcceptOrigins ==
    ASSUME TypeOK, OriginInv, AcceptAction
    PROVE  OriginInv'
<1> DEFINE action == Top.action
           kwargs == ActionKwargs(action, Top.kwargs)
           fs     == action.functions
           calls  == [i \in DOMAIN fs |-> CallFunction(action, fs[i], kwargs, Top.depth)]
           last   == FanOut(action, kwargs, Top.depth)
           items  == calls \o << last >>
<1>1. Reached("execute_action") /\ action.kind = "Action" /\ Accepts(action, Top.kwargs)
  BY DEF AcceptAction
<1>2. agenda' = items \o Rest /\ UNCHANGED <<dep, batch, n>>
  BY DEF AcceptAction, Proceed, loop
<1>3. IsList(fs)
  BY <1>1, TopDepth, EntryLists DEF IsItem
<1>4. agenda # << >> /\ Top.do = "execute_action" /\ IsDeployed(Top)
  BY <1>1, TopDeployed DEF Reached, OriginInv
<1>5. Linked(Steps, Top)
  BY <1>4 DEF IsDeployed
<1> DEFINE Good(item) ==
               /\ item.do \in {"call_function", "fan_out"}
               /\ item.action = action /\ item.depth = Top.depth
               /\ item.do = "call_function" => item.f \in Range(fs) /\ item.kwargs = kwargs
<1>6. \A i \in DOMAIN fs : Good(calls[i])
  BY DEF CallFunction, Range
<1>7. Good(last)
  BY DEF FanOut
<1> HIDE DEF calls, last, kwargs, fs, Good
<1>8. IsList(calls) /\ DOMAIN calls = DOMAIN fs
  BY <1>3, MappedList DEF calls
<1>9. IsList(items) /\ \A i \in DOMAIN items : Good(items[i])
  BY <1>6, <1>7, <1>8, SingletonList, ConcatList
<1> HIDE DEF items
<1>10. \A i \in DOMAIN items : IsDeployed(items[i])
  <2>1. ASSUME NEW i \in DOMAIN items PROVE IsDeployed(items[i])
    <3>1. Linked(Steps, items[i])
      BY <1>4, <1>5, <1>9, ActionLinked DEF Good
    <3> QED
      BY <1>1, <1>9, <3>1 DEF IsDeployed, Good, kwargs, fs
  <2> QED
    BY <2>1
<1>11. ASSUME Unguarded(agenda), NEW i \in DOMAIN items PROVE FromMessage(items[i])
  <2>1. FromMessage(Top)
    BY <1>4, <1>11, TopFromMessage DEF OriginInv
  <2> QED
    BY <1>4, <1>9, <2>1, ActionLinked DEF FromMessage, Good
<1> QED
  BY <1>2, <1>4, <1>9, <1>10, <1>11, PushOrigins

\* What a function's Payloads lead to has the function's try block around it.
LEMMA ReturnOrigins ==
    ASSUME TypeOK, OriginInv, NEW f \in Func, NEW outcome \in Does[f], FunctionReturns(outcome)
    PROVE  OriginInv'
<1> DEFINE ps    == outcome.payloads
           calls == [i \in DOMAIN ps |->
                        ExecutePayload(ps[i].target, ps[i].kwargs, Top.depth + 1)]
           last  == LeaveTry(outcome.returns, Top.depth)
           items == calls \o << last >>
<1>1. /\ Reached("call_function") /\ outcome \in Does[Top.f]
      /\ agenda' = items \o Rest /\ UNCHANGED <<dep, batch, n>>
  BY DEF FunctionReturns, Calling, Proceed, loop
<1>2. IsList(ps)
  BY PipelineAssumption DEF IsOutcome
<1>3. ASSUME NEW i \in DOMAIN ps PROVE IsDeployed(calls[i])
  <2>1. /\ agenda # << >> /\ Top.do = "call_function" /\ IsDeployed(Top)
        /\ Top.action.kind = "Action" /\ Top.depth \in Nat
    BY <1>1, TopDeployed, TopDepth DEF Reached, OriginInv, IsItem
  <2>2. /\ calls[i].do = "execute_payload" /\ calls[i].target = ps[i].target
        /\ calls[i].depth = Top.depth + 1
    BY DEF ExecutePayload
  <2>3. ps[i].target \in Enum \cup Queue
    BY DEF FunctionReturns, Extracts
  <2> HIDE DEF calls
  <2>4. ASSUME NEW p \in DOMAIN Paths, Top.action \in ActionsOf(p)
        PROVE  <<p, calls[i].target>> \in Steps
    <3>1. Top.f \in Range(Top.action.functions)
      BY <2>1 DEF IsDeployed
    <3>2. \E action \in ActionsOf(p) :
             /\ action.kind = "Action"
             /\ \E g \in Range(action.functions) : \E o \in Does[g] :
                   \E k \in DOMAIN o.payloads : ps[i].target = o.payloads[k].target
      BY <1>1, <2>1, <2>4, <3>1
    <3>3. <<p, ps[i].target>> \in (DOMAIN Paths) \X (Enum \cup Queue)
      BY <2>3
    <3> HIDE DEF ps
    <3> QED
      BY <2>2, <3>2, <3>3 DEF Steps, Returns
  <2>5. Linked(Steps, calls[i])
    BY <2>1, <2>2, <2>4, PayloadLinked DEF IsDeployed
  <2> QED
    BY <2>2, <2>3, <2>5 DEF IsDeployed
<1> HIDE DEF ps
<1>4. IsDeployed(last) /\ last.do = "leave_try"
  BY DEF LeaveTry, IsDeployed, Linked
<1>5. IsList(calls) /\ DOMAIN calls = DOMAIN ps
  BY <1>2, MappedList
<1> HIDE DEF calls, last
<1>6. IsList(<< last >>) /\ Len(<< last >>) = 1 /\ << last >>[1] = last
  BY SingletonList
<1>7. IsList(items) /\ \A i \in DOMAIN items : IsDeployed(items[i])
  BY <1>3, <1>4, <1>5, SingletonList, ConcatList
<1>8. /\ Len(calls) \in Nat /\ DOMAIN items = 1 .. Len(calls) + 1
      /\ items[Len(calls) + 1] = last
  BY <1>5, <1>6, ConcatAt
<1> HIDE DEF items
<1>9. \A i \in DOMAIN items : ~Outside(items, i)
  <2>1. ASSUME NEW i \in DOMAIN items PROVE ~Outside(items, i)
    <3>1. Len(calls) + 1 \in DOMAIN items /\ Len(calls) + 1 >= i
      BY <1>8
    <3> QED
      BY <1>4, <1>8, <3>1 DEF Outside
  <2> QED
    BY <2>1
<1> QED
  BY <1>1, <1>7, <1>9, PushOrigins DEF Reached

LEMMA PassOnOrigins ==
    ASSUME TypeOK, OriginInv, PassOn
    PROVE  OriginInv'
<1> DEFINE action  == Top.action
           targets == action.paths \o action.queues
           items   == [i \in DOMAIN targets |->
                          ExecutePayload(targets[i], Top.kwargs, Top.depth + 1)]
<1>1. Reached("fan_out") /\ agenda' = items \o Rest /\ UNCHANGED <<dep, batch, n>>
  BY DEF PassOn, Proceed, loop
<1>2. /\ IsEntry(action) /\ action.kind = "Action" /\ Top.depth \in 0 .. MaxDepth
      /\ MaxDepth \in Nat /\ agenda # << >> /\ Top.do = "fan_out"
  BY <1>1, TopDepth DEF IsItem, Reached
<1>3. IsList(action.paths) /\ IsList(action.queues)
  BY <1>2, EntryLists
<1>4. IsList(targets) /\ \A i \in DOMAIN targets :
                             targets[i] \in Range(action.paths) \cup Range(action.queues)
  <2>1. /\ IsList(targets)
        /\ \A i \in DOMAIN targets :
              \/ i \in DOMAIN action.paths /\ targets[i] = action.paths[i]
              \/ /\ i - Len(action.paths) \in DOMAIN action.queues
                 /\ targets[i] = action.queues[i - Len(action.paths)]
    BY <1>3, ConcatList
  <2> HIDE DEF targets
  <2>2. \A s : \A k \in DOMAIN s : s[k] \in Range(s)
    BY DEF Range
  <2> QED
    BY <2>1, <2>2
<1>5. Range(action.paths) \cup Range(action.queues) \subseteq Enum \cup Queue
  BY DEF PassOn
<1> HIDE DEF targets
<1>6. IsList(items) /\ DOMAIN items = DOMAIN targets
  BY <1>4, MappedList
<1>7. \A i \in DOMAIN items : /\ items[i].do = "execute_payload" /\ items[i].target = targets[i]
                              /\ items[i].depth = Top.depth + 1
  BY DEF ExecutePayload
<1> HIDE DEF items
<1>8. ASSUME NEW i \in DOMAIN items, NEW p \in DOMAIN Paths, action \in ActionsOf(p)
      PROVE  <<p, items[i].target>> \in PassesOn
  <2>1. /\ items[i].target \in Range(action.paths) \cup Range(action.queues)
        /\ items[i].target \in Enum \cup Queue
    BY <1>4, <1>5, <1>6, <1>7
  <2> QED
    BY <1>2, <1>8, <2>1 DEF PassesOn
<1>9. ASSUME NEW steps, PassesOn \subseteq steps, Linked(steps, Top), NEW i \in DOMAIN items
      PROVE  Linked(steps, items[i])
  <2>1. \A p \in DOMAIN Paths : action \in ActionsOf(p) => <<p, items[i].target>> \in steps
    BY <1>8, <1>9
  <2> QED
    BY <1>2, <1>7, <1>9, <2>1, PayloadLinked
<1>10. ASSUME NEW i \in DOMAIN items PROVE IsDeployed(items[i])
  <2>1. Linked(Steps, Top)
    BY <1>2, TopDeployed DEF OriginInv, IsDeployed
  <2>2. Linked(Steps, items[i])
    BY <1>9, <2>1 DEF Steps
  <2>3. items[i].target \in Enum \cup Queue
    BY <1>4, <1>5, <1>6, <1>7
  <2> QED
    BY <1>7, <2>2, <2>3 DEF IsDeployed
<1>11. ASSUME Unguarded(agenda), NEW i \in DOMAIN items PROVE FromMessage(items[i])
  BY <1>2, <1>9, <1>11, TopFromMessage DEF OriginInv, FromMessage
<1> QED
  BY <1>1, <1>2, <1>6, <1>10, <1>11, PushOrigins

LEMMA FunctionsOrigins ==
    ASSUME TypeOK, OriginInv, Functions
    PROVE  OriginInv'
<1>1. CASE \/ RejectAction \/ NotAnAction \/ NotAFunction \/ EndTry \/ PassOnFails
           \/ PassOnToNoQueue
  <2>1. agenda # << >> /\ agenda' = << >> \o Rest /\ UNCHANGED <<dep, batch, n>>
    BY <1>1 DEF RejectAction, NotAnAction, NotAFunction, EndTry, PassOnFails,
                PassOnToNoQueue, Reached, Raise, Proceed, loop
  <2> QED
    BY <2>1, MarkOrigins
<1>2. ASSUME \/ CallFails
             \/ \E f \in Func : \E outcome \in Does[f] :
                   FunctionRaises(outcome) \/ ReturnsInvalid(outcome)
      PROVE  OriginInv'
  <2>1. /\ agenda # << >> /\ Top.do # "leave_try" /\ UNCHANGED <<dep, batch, n>>
        /\ \E before, depth : agenda' = << LeaveTry(before, depth) >> \o Rest
    BY <1>2 DEF CallFails, FunctionRaises, ReturnsInvalid, Calling, Reached, Raise, loop
  <2> QED
    BY <2>1, MarkOrigins
<1> QED
  BY <1>1, <1>2, AcceptOrigins, ReturnOrigins, PassOnOrigins DEF Functions

LEMMA NothingOriginates ==
    ASSUME agenda' = << >>
    PROVE  OriginInv'
<1>1. DOMAIN agenda' = {}
  BY EmptySeq
<1> QED
  BY <1>1 DEF OriginInv, DeployedInv, ChainInv

LEMMA SameOrigins ==
    ASSUME OriginInv, UNCHANGED <<dep, batch, n, agenda>>
    PROVE  OriginInv'
BY FixedByRecord
   DEF OriginInv, DeployedInv, IsDeployed, ChainInv, FromMessage, Linked, Outside

LEMMA RecordOrigins ==
    ASSUME TypeOK, OriginInv, Take \/ ParseToPayload
    PROVE  OriginInv'
<1>1. CASE Take
  <2>1. agenda' = << ParseRecord(Upcoming) >> /\ Upcoming = batch'[n']
    BY <1>1 DEF Take, Upcoming
  <2>2. ParseRecord(Upcoming).do = "parse_record" /\ ParseRecord(Upcoming).record = batch'[n']
    BY <2>1 DEF ParseRecord
  <2>3. \A i \in DOMAIN agenda' : agenda'[i] = ParseRecord(Upcoming)
    BY <2>1, SingletonList
  <2> QED
    BY <2>2, <2>3 DEF OriginInv, DeployedInv, IsDeployed, ChainInv, FromMessage, Linked
<1>2. CASE ParseToPayload
  <2> DEFINE item == ExecutePayload(PathOf(Top.record), Top.record.kwargs, 1)
  <2>1. /\ agenda # << >> /\ Top.do = "parse_record" /\ Parsed(Top.record)
        /\ agenda' = << item >> \o Rest /\ UNCHANGED <<dep, batch, n>>
    BY <1>2 DEF ParseToPayload, Reached, Proceed, loop
  <2>2. Top.record = batch[n]
    BY <2>1, TopDeployed DEF OriginInv, IsDeployed
  <2>3. /\ \A steps : Chain(steps, PathOf(Top.record), 1)
        /\ PathOf(Top.record) \in Enum
    BY <2>1, <2>2, FirstInChain DEF Parsed
  <2>4. item.do = "execute_payload" /\ item.target = PathOf(Top.record) /\ item.depth = 1
    BY DEF ExecutePayload
  <2> HIDE DEF item
  <2>5. IsDeployed(item) /\ FromMessage(item)
    BY <2>3, <2>4 DEF IsDeployed, FromMessage, Linked
  <2> QED
    BY <2>1, <2>5, SingletonList, PushOrigins
<1> QED
  BY <1>1, <1>2

LEMMA StepOrigins == TypeOK /\ OriginInv /\ [Next]_vars => OriginInv'
<1> SUFFICES ASSUME TypeOK, OriginInv, [Next]_vars PROVE OriginInv'
  OBVIOUS
<1>1. ASSUME NEW event \in Events, Invoke(event) \/ Refuse(event) PROVE OriginInv'
  BY <1>1, NothingOriginates DEF Invoke, Refuse, Start
<1>2. CASE Kill
  BY <1>2, NothingOriginates DEF Kill
<1>3. CASE FailToParse \/ SwallowFails
  <2>1. agenda # << >> /\ agenda' = << >> \o Rest /\ UNCHANGED <<dep, batch, n>>
    BY <1>3 DEF FailToParse, SwallowFails, Unwinding, Reached, Raise, loop
  <2> QED
    BY <2>1, MarkOrigins
<1>4. CASE Unwind \/ Swallow
  <2>1. agenda # << >> /\ agenda' = Rest /\ UNCHANGED <<dep, batch, n>>
    BY <1>4 DEF Unwind, Swallow, Unwinding, loop
  <2> QED
    BY <2>1, PopOrigins
<1>5. CASE \/ Undecodable \/ Succeed \/ DropRecord \/ FailRecord \/ EscapeRecord
           \/ HandlerFailsOnRecord \/ Finish \/ FinishFailed \/ UNCHANGED vars
  <2>1. UNCHANGED <<dep, batch, n, agenda>>
    BY <1>5 DEF Undecodable, Succeed, DropRecord, FailRecord, Settle, EscapeRecord,
                HandlerFailsOnRecord, Finish, FinishFailed, Respond, loop, vars
  <2> QED
    BY <2>1, SameOrigins
<1> QED
  BY <1>1, <1>2, <1>3, <1>4, <1>5, RecordOrigins, PayloadsOrigins, FunctionsOrigins
     DEF Next, Work, Handlers

LEMMA InitOrigins == Init => OriginInv
<1> SUFFICES ASSUME Init PROVE OriginInv
  OBVIOUS
<1>1. DOMAIN agenda = {}
  BY EmptySeq DEF Init
<1> QED
  BY <1>1 DEF OriginInv, DeployedInv, ChainInv

(***************************************************************************)
(* However deep in the recursion, and whatever was executed in between, a  *)
(* function of an Action without required_params is about to be called     *)
(* with arguments that its own hints allow.  If it takes **kwargs, the     *)
(* call binds exactly if no required parameter called "args" or "kwargs"   *)
(* is without an argument.                                                 *)
(***************************************************************************)
THEOREM ArgumentsAlwaysFit == Spec => []ArgumentsFit
<1>1. OriginInv => ArgumentsFit
  <2> SUFFICES ASSUME OriginInv, NEW i \in DOMAIN agenda, agenda[i].do = "call_function",
                      Inferred(agenda[i].action)
               PROVE  LET f == agenda[i].f
                      IN  /\ \A p \in DOMAIN Def[f].params \cap DOMAIN TypeHints(f) :
                                p \in DOMAIN agenda[i].kwargs =>
                                    agenda[i].kwargs[p] \in TypeHints(f)[p]
                          /\ TakesAnyKeyword(f) =>
                                (Binds(f, agenda[i].kwargs) <=>
                                     HiddenNames(f) \subseteq DOMAIN agenda[i].kwargs)
    BY DEF ArgumentsFit
  <2> DEFINE action == agenda[i].action
             f      == agenda[i].f
  <2>1. PICK kwargs : /\ Accepts(action, kwargs) /\ f \in Range(action.functions)
                      /\ agenda[i].kwargs = ActionKwargs(action, kwargs)
    BY DEF OriginInv, DeployedInv, IsDeployed
  <2> HIDE DEF action, f
  <2>2. Inferred(action)
    BY DEF action
  <2>3. ASSUME NEW p \in DOMAIN Def[f].params, p \in DOMAIN TypeHints(f),
               p \in DOMAIN ActionKwargs(action, kwargs)
        PROVE  ActionKwargs(action, kwargs)[p] \in TypeHints(f)[p]
    BY <2>1, <2>2, <2>3, SelectionIsTyped
  <2>4. HiddenNames(f) \subseteq DOMAIN kwargs <=>
            HiddenNames(f) \subseteq DOMAIN ActionKwargs(action, kwargs)
    <3>1. ASSUME NEW p \in HiddenNames(f)
          PROVE  p \in DOMAIN Def[f].params /\ p \notin RESERVED_KEYWORDS
      BY <3>1 DEF HiddenNames, Named, Unchecked, RESERVED_KEYWORDS
    <3>2. ASSUME NEW p \in HiddenNames(f)
          PROVE  p \in DOMAIN CallKwargs(ActionKwargs(action, kwargs)) <=>
                     p \in DOMAIN WithReserved(kwargs)
      BY <2>1, <2>2, <3>1, <3>2, SelectionGives
    <3> QED
      BY <3>1, <3>2 DEF CallKwargs, WithReserved, Updated
  <2>5. TakesAnyKeyword(f) => (Binds(f, ActionKwargs(action, kwargs)) <=>
                                   HiddenNames(f) \subseteq DOMAIN ActionKwargs(action, kwargs))
    BY <2>1, <2>2, <2>4, SelectionBinds
  <2> QED
    BY <2>1, <2>3, <2>5 DEF f
<1> QED
  BY <1>1, InitType, StepType, InitOrigins, StepOrigins, PTL DEF Spec

-----------------------------------------------------------------------------
(* What is in flight, and what it may end.                                 *)

(***************************************************************************)
(* The property speaks of the end of an invocation.  On the way there, an  *)
(* exception that is in flight ends with its record, or there is a try     *)
(* block around a function that swallows it, or it has a cause already.    *)
(***************************************************************************)
FlightInv ==
    /\ phase = "next" => exc = NoException
    /\ phase = "run" /\ exc # NoException =>
           \/ exc.kind \in {"FailButContinue", "FailCatastrophically"}
           \/ exc.kind \notin LPBaseException /\ ~Unguarded(agenda)
           \/ Cause
    /\ EndsForACause

LEMMA CauseStays ==
    ASSUME UNCHANGED <<dep, batch, n, exc>>
    PROVE  Cause' = Cause
BY FixedByRecord
   DEF Cause, DeploymentFault, RecordIsUndecodable, HandlerIsBroken, RecordIsNoObject,
       PathIsMissing, PathIsEmpty, RecursionIsTooDeep, ActionIsMalformed, QueueIsUnavailable,
       FunctionGivesUp, Upcoming

LEMMA StillGuarded ==
    ASSUME TypeOK, agenda # << >>, Top.do # "leave_try", ~Unguarded(agenda)
    PROVE  ~Unguarded(Rest)
<1>1. /\ IsList(agenda) /\ IsList(Rest) /\ Top = agenda[1]
      /\ \A k \in DOMAIN Rest : k + 1 \in DOMAIN agenda /\ Rest[k] = agenda[k + 1]
  BY TailList DEF TypeOK, IsStack, Top, Rest
<1>2. PICK i \in DOMAIN agenda : agenda[i].do = "leave_try"
  BY DEF Unguarded
<1>3. i - 1 \in DOMAIN Rest /\ (i - 1) + 1 = i
  <2>1. agenda \in Seq(Range(agenda)) /\ DOMAIN agenda = 1 .. Len(agenda)
    BY <1>1, ListShape DEF IsList
  <2>2. Len(Rest) = Len(agenda) - 1 /\ DOMAIN Rest = 1 .. Len(Rest)
    BY <1>1, <2>1, HeadTailProperties, ListShape DEF Rest
  <2>3. i # 1 /\ Len(agenda) \in Nat
    BY <1>1, <1>2, ListShape
  <2> QED
    BY <2>1, <2>2, <2>3
<1> QED
  BY <1>1, <1>2, <1>3 DEF Unguarded

LEMMA RaiseFlight ==
    ASSUME TypeOK, agenda # << >>, phase = "run", Top.do # "leave_try",
           NEW kind, NEW origin, Raise(kind, origin, << >>),
           \/ kind \in {"FailButContinue", "FailCatastrophically"}
           \/ kind \notin LPBaseException /\ (Unguarded(agenda) => Cause')
    PROVE  FlightInv'
<1>1. agenda' = Rest
  <2>1. Rest \in Seq(Range(Rest))
    BY TailList DEF TypeOK, IsStack, Rest, IsList
  <2> QED
    BY <2>1, ConcatEmptySeq DEF Raise
<1>2. phase' = "run" /\ exc'.kind = kind
  BY DEF Raise
<1>3. Unguarded(agenda)' => Unguarded(agenda)
  BY <1>1, StillGuarded DEF Unguarded
<1> QED
  BY <1>2, <1>3 DEF FlightInv, EndsForACause

\* The function's own try block is around what it raises.
LEMMA FunctionFlight ==
    ASSUME TypeOK, agenda # << >>, phase = "run",
           NEW kind, NEW before, Raise(kind, "function", << LeaveTry(before, Top.depth) >>),
           \/ kind \in {"FailButContinue", "FailCatastrophically"}
           \/ kind \notin LPBaseException
           \/ Cause'
    PROVE  FlightInv'
<1> DEFINE item == LeaveTry(before, Top.depth)
<1>1. /\ agenda' = << item >> \o Rest /\ item.do = "leave_try"
      /\ phase' = "run" /\ exc'.kind = kind
  BY DEF Raise, LeaveTry
<1> HIDE DEF item
<1>2. IsList(Rest) /\ IsList(<< item >>) /\ 1 \in DOMAIN << item >> /\ << item >>[1] = item
  BY TailList, SingletonList DEF TypeOK, IsStack, Rest
<1>3. /\ 1 \in DOMAIN (<< item >> \o Rest) /\ (<< item >> \o Rest)[1] = item
  <2>1. Len(<< item >>) = 1
    OBVIOUS
  <2> QED
    BY <1>2, <2>1, ConcatAt
<1>4. ~Unguarded(agenda)'
  BY <1>1, <1>3 DEF Unguarded
<1> QED
  BY <1>1, <1>4 DEF FlightInv, EndsForACause

LEMMA ProceedFlight ==
    ASSUME exc = NoException, phase = "run", NEW items, NEW newRet, Proceed(items, newRet)
    PROVE  FlightInv'
BY DEF Proceed, FlightInv, EndsForACause

\* What an item that no try block is around is about.
LEMMA TopPassed ==
    ASSUME TypeOK, OriginInv, agenda # << >>, Unguarded(agenda)
    PROVE  /\ Top.do = "execute_payload" =>
                  /\ Top.depth \in 1 .. MaxDepth + 1 /\ Chain(PassesOn, Top.target, Top.depth)
                  /\ Top.target \in Nodes(PassesOn) /\ Top.target \in Enum \cup Queue
                  /\ Top.depth <= MaxDepth => Top.target \in Passed
           /\ Top.do \in {"execute_action", "call_function", "fan_out"} =>
                  \E p \in Passed \cap DOMAIN Paths : Top.action \in ActionsOf(p)
<1>1. Linked(PassesOn, Top) /\ IsDeployed(Top) /\ IsItem(Top) /\ MaxDepth \in Nat
  BY TopFromMessage, TopDeployed, TopIsItem, PipelineAssumption
     DEF OriginInv, TypeOK, FromMessage
<1>2. Top.depth >= 1 => Top.depth \in 1 .. MaxDepth + 1
  BY <1>1 DEF IsItem
<1>3. ASSUME Top.do = "execute_payload"
      PROVE  /\ Top.depth \in 1 .. MaxDepth + 1 /\ Chain(PassesOn, Top.target, Top.depth)
             /\ Top.target \in Nodes(PassesOn) /\ Top.target \in Enum \cup Queue
             /\ Top.depth <= MaxDepth => Top.target \in Passed
  BY <1>1, <1>2, <1>3, LastInChain DEF Linked, IsDeployed
<1>4. ASSUME Top.do \in {"execute_action", "call_function", "fan_out"}
      PROVE  \E p \in Passed \cap DOMAIN Paths : Top.action \in ActionsOf(p)
  <2>1. PICK p \in DOMAIN Paths : /\ Chain(PassesOn, p, Top.depth)
                                  /\ Top.action \in ActionsOf(p)
    BY <1>1, <1>4 DEF Linked
  <2>2. Top.depth \in 1 .. MaxDepth + 1 /\ Top.depth <= MaxDepth
    BY <1>1, <1>2, <1>4 DEF Linked, IsItem
  <2>3. p \in Passed
    BY <2>1, <2>2, LastInChain
  <2> QED
    BY <2>1, <2>3
<1> QED
  BY <1>3, <1>4

LEMMA PayloadsFlight ==
    ASSUME TypeOK, OriginInv, Payloads
    PROVE  FlightInv'
<1>1. /\ Reached("execute_payload") /\ agenda # << >> /\ phase = "run"
      /\ Top.do = "execute_payload" /\ exc = NoException
      /\ Top.depth \in 0 .. MaxDepth + 1 /\ MaxDepth \in Nat
  <2>1. Reached("execute_payload")
    BY DEF Payloads, ExecutePath, EmptyPath, UndefinedPath, RecursionLimit, Put, PutFails,
           Executing
  <2> QED
    BY <2>1, TopDepth DEF Reached
<1>2. CASE ExecutePath \/ Put
  BY <1>1, <1>2, ProceedFlight DEF ExecutePath, Put
<1>3. ASSUME NEW kind, NEW origin, Raise(kind, origin, << >>)
      PROVE  exc' = [kind |-> kind, origin |-> origin] /\ UNCHANGED <<dep, batch, n>>
  BY <1>3 DEF Raise, loop
<1>4. CASE EmptyPath
  <2>1. Raise("AssertionError", "execute_payload", << >>)
    BY <1>4 DEF EmptyPath
  <2>2. Unguarded(agenda) => Cause'
    BY <1>1, <1>3, <1>4, <2>1, TopPassed, FixedByRecord
       DEF EmptyPath, Executing, Cause, DeploymentFault, PathIsEmpty
  <2> QED
    BY <1>1, <2>1, <2>2, RaiseFlight DEF LPBaseException
<1>5. CASE UndefinedPath
  <2>1. Raise("Exception", "state.paths", << >>)
    BY <1>5 DEF UndefinedPath
  <2>2. ASSUME Unguarded(agenda) PROVE Cause'
    <3>1. Top.target \in Path \ DOMAIN Paths /\ Top.depth <= MaxDepth
      BY <1>5 DEF UndefinedPath, Executing
    <3>2. Top.target \in Passed \cap Enum
      BY <1>1, <2>2, <3>1, TopPassed, PipelineAssumption
    <3>3. \E p \in (Passed \cap Enum)' : p \notin (DOMAIN Paths)'
      BY <1>3, <2>1, <3>1, <3>2, FixedByRecord
    <3> QED
      BY <1>3, <2>1, <3>3 DEF Cause, DeploymentFault, PathIsMissing
  <2> QED
    BY <1>1, <2>1, <2>2, RaiseFlight DEF LPBaseException
<1>6. CASE RecursionLimit
  <2>1. PICK kind \in {"Exception", "FailButContinue"} :
           Raise(kind, "execute_payload", << >>)
    BY <1>6 DEF RecursionLimit
  <2>2. ASSUME kind = "Exception", Unguarded(agenda) PROVE Cause'
    <3>1. Top.depth = MaxDepth + 1
      BY <1>1, <1>6 DEF RecursionLimit
    <3>2. PICK target : target \in Nodes(PassesOn) /\ Chain(PassesOn, target, MaxDepth + 1)
      BY <1>1, <2>2, <3>1, TopPassed
    <3>3. target \in Nodes(PassesOn)' /\ Chain(PassesOn, target, MaxDepth + 1)'
      BY <1>3, <2>1, <3>2, FixedByRecord
    <3> QED
      BY <1>3, <2>1, <2>2, <3>3 DEF Cause, DeploymentFault, RecursionIsTooDeep
  <2> QED
    BY <1>1, <2>1, <2>2, RaiseFlight DEF LPBaseException
<1>7. CASE PutFails
  <2>1. PICK kind \in Exception : /\ Raise(kind, "put_record", << >>)
                                  /\ PutRaises(Top.target, kind, MockAws)
    BY <1>7 DEF PutFails
  <2>2. Top.target \in Queue /\ Top.depth <= MaxDepth
    BY <1>7 DEF PutFails, Executing
  <2>3. \/ kind = "FailCatastrophically"
        \/ /\ kind \in ServiceError
           /\ QueueType[Top.target] # "SQS" \/ Top.target \notin HasUrl
    BY <2>1 DEF PutRaises, SendError, LooksUp
  <2>4. ASSUME kind \in ServiceError, Unguarded(agenda),
               QueueType[Top.target] # "SQS" \/ Top.target \notin HasUrl
        PROVE  Cause'
    <3>1. Top.target \in Passed'
      BY <1>1, <1>3, <2>1, <2>2, <2>4, TopPassed, FixedByRecord
    <3> QED
      BY <1>3, <2>1, <2>2, <2>4, <3>1 DEF Cause, DeploymentFault, QueueIsUnavailable
  <2> QED
    BY <1>1, <2>1, <2>3, <2>4, RaiseFlight DEF LPBaseException, ServiceError
<1> QED
  BY <1>2, <1>4, <1>5, <1>6, <1>7 DEF Payloads

LEMMA FunctionsFlight ==
    ASSUME TypeOK, OriginInv, Functions
    PROVE  FlightInv'
<1>1. ASSUME NEW do, Reached(do)
      PROVE  agenda # << >> /\ phase = "run" /\ Top.do = do /\ exc = NoException
  BY <1>1 DEF Reached
<1>2. ASSUME NEW kind, NEW origin, NEW items, Raise(kind, origin, items)
      PROVE  exc' = [kind |-> kind, origin |-> origin] /\ UNCHANGED <<dep, batch, n>>
  BY <1>2 DEF Raise, loop
<1>3. CASE AcceptAction \/ EndTry \/ PassOn
  BY <1>1, <1>3, ProceedFlight DEF AcceptAction, EndTry, PassOn
<1>4. CASE RejectAction \/ PassOnFails
  BY <1>1, <1>4, RaiseFlight DEF RejectAction, PassOnFails
<1>5. CASE NotAnAction
  <2>1. Reached("execute_action") /\ Raise("AssertionError", "execute_action", << >>)
    BY <1>5 DEF NotAnAction
  <2>2. ASSUME Unguarded(agenda) PROVE Cause'
    <3>1. PICK p \in Passed \cap DOMAIN Paths : Top.action \in ActionsOf(p)
      BY <1>1, <2>1, <2>2, TopPassed
    <3>2. \E action \in ActionsOf(p) : action.kind # "Action"
      BY <1>5, <3>1 DEF NotAnAction
    <3> QED
      BY <1>2, <2>1, <3>1, <3>2, FixedByRecord DEF Cause, DeploymentFault, ActionIsMalformed
  <2> QED
    BY <1>1, <2>1, <2>2, RaiseFlight DEF LPBaseException
<1>6. CASE NotAFunction
  <2>1. /\ Reached("call_function") /\ Raise("AssertionError", "execute_action", << >>)
        /\ ~Def[Top.f].isFunction
    BY <1>6 DEF NotAFunction
  <2>2. ASSUME Unguarded(agenda) PROVE Cause'
    <3>1. PICK p \in Passed \cap DOMAIN Paths : Top.action \in ActionsOf(p)
      BY <1>1, <2>1, <2>2, TopPassed
    <3>2. PICK kwargs : Top.f \in Range(Top.action.functions) /\ Accepts(Top.action, kwargs)
      BY <1>1, <2>1, TopDeployed DEF OriginInv, IsDeployed
    <3>3. ~Inferred(Top.action)
      BY <2>1, <3>2 DEF Accepts, Buildable, Validates
    <3>4. \E action \in ActionsOf(p) :
             ~Inferred(action) /\ \E f \in Range(action.functions) : ~Def[f].isFunction
      BY <2>1, <3>1, <3>2, <3>3
    <3> QED
      BY <1>2, <2>1, <3>1, <3>4, FixedByRecord DEF Cause, DeploymentFault, ActionIsMalformed
  <2> QED
    BY <1>1, <2>1, <2>2, RaiseFlight DEF LPBaseException
<1>7. CASE CallFails
  BY <1>1, <1>7, FunctionFlight DEF CallFails, LPBaseException
<1>8. ASSUME NEW f \in Func, NEW outcome \in Does[f], FunctionRaises(outcome)
      PROVE  FlightInv'
  <2>1. /\ Reached("call_function") /\ outcome \in Does[Top.f]
        /\ Raise(outcome.raises, "function", << LeaveTry(ret, Top.depth) >>)
    BY <1>8 DEF FunctionRaises, Calling
  <2>2. ASSUME outcome.raises = "LPBaseException" PROVE Cause'
    <3>1. PICK p \in DOMAIN Paths : /\ Chain(Steps, p, Top.depth)
                                    /\ Top.action \in ActionsOf(p) /\ Top.depth >= 1
      BY <1>1, <2>1, TopDeployed DEF OriginInv, IsDeployed, Linked
    <3>2. Top.action.kind = "Action" /\ Top.f \in Range(Top.action.functions)
      BY <1>1, <2>1, TopDeployed, TopDepth DEF OriginInv, IsDeployed, IsItem
    <3>3. \E action \in ActionsOf(p) :
             /\ action.kind = "Action"
             /\ \E g \in Range(action.functions) : \E o \in Does[g] :
                   o.raises = "LPBaseException"
      BY <2>1, <2>2, <3>1, <3>2
    <3>4. Top.depth \in 1 .. MaxDepth
      BY <2>1, <3>1, TopDepth DEF IsItem
    <3>5. Executable(p)
      BY <3>1, <3>4 DEF Executable, Steps
    <3> QED
      BY <1>2, <2>1, <2>2, <3>1, <3>3, <3>5, FixedByRecord
         DEF Cause, DeploymentFault, FunctionGivesUp
  <2> QED
    BY <1>1, <2>1, <2>2, FunctionFlight DEF LPBaseException
<1>9. ASSUME NEW f \in Func, NEW outcome \in Does[f], FunctionReturns(outcome)
      PROVE  FlightInv'
  BY <1>1, <1>9, ProceedFlight DEF FunctionReturns, Calling
<1>10. ASSUME NEW f \in Func, NEW outcome \in Does[f], ReturnsInvalid(outcome)
       PROVE  FlightInv'
  BY <1>1, <1>10, FunctionFlight DEF ReturnsInvalid, Calling
<1>11. CASE PassOnToNoQueue
  <2>1. /\ Reached("fan_out") /\ Raise("AssertionError", "execute_action", << >>)
        /\ ~(Range(Top.action.queues) \subseteq Queue)
    BY <1>11 DEF PassOnToNoQueue
  <2>2. ASSUME Unguarded(agenda) PROVE Cause'
    <3>1. PICK p \in Passed \cap DOMAIN Paths : Top.action \in ActionsOf(p)
      BY <1>1, <2>1, <2>2, TopPassed
    <3>2. \E action \in ActionsOf(p) : ~(Range(action.queues) \subseteq Queue)
      BY <2>1, <3>1
    <3> QED
      BY <1>2, <2>1, <3>1, <3>2, FixedByRecord DEF Cause, DeploymentFault, ActionIsMalformed
  <2> QED
    BY <1>1, <2>1, <2>2, RaiseFlight DEF LPBaseException
<1> QED
  BY <1>3, <1>4, <1>5, <1>6, <1>7, <1>8, <1>9, <1>10, <1>11 DEF Functions

LEMMA HandlersFlight ==
    ASSUME TypeOK, FlightInv, Handlers
    PROVE  FlightInv'
<1>1. phase = "run" /\ exc # NoException /\ agenda # << >>
  BY DEF Handlers, Unwind, Swallow, SwallowFails, Unwinding
<1>2. CASE Unwind
  <2>1. agenda' = Rest /\ UNCHANGED <<dep, batch, n, exc, phase>> /\ ~AtHandler
    BY <1>2 DEF Unwind, loop
  <2>2. exc.kind \notin LPBaseException /\ ~Unguarded(agenda) => ~Unguarded(agenda)'
    BY <1>1, <2>1, StillGuarded DEF AtHandler, Unguarded
  <2> QED
    BY <1>1, <2>1, <2>2, CauseStays DEF FlightInv, EndsForACause
<1>3. CASE Swallow
  BY <1>1, <1>3 DEF Swallow, FlightInv, EndsForACause
<1>4. CASE SwallowFails
  BY <1>1, <1>4
     DEF SwallowFails, Raise, FlightInv, EndsForACause, Cause, HandlerIsBroken
<1> QED
  BY <1>2, <1>3, <1>4 DEF Handlers

LEMMA RecordFlight ==
    ASSUME TypeOK, FlightInv,
           Succeed \/ DropRecord \/ FailRecord \/ EscapeRecord \/ HandlerFailsOnRecord
    PROVE  FlightInv'
<1>1. CASE Succeed \/ DropRecord \/ FailRecord
  BY <1>1 DEF Succeed, DropRecord, FailRecord, Settle, FlightInv, EndsForACause
<1>2. CASE EscapeRecord
  <2>1. /\ agenda = << >> /\ phase = "run"
        /\ exc.kind \in {"LPBaseException", "AssertionError", "Exception"}
        /\ UNCHANGED <<dep, batch, n, exc>> /\ phase' \in {"emptied", "escaped"}
    BY <1>2 DEF EscapeRecord, AtRecord, Outermost, loop
  <2>2. Unguarded(agenda) /\ exc # NoException
    BY <2>1, EmptySeq DEF Unguarded, NoException
  <2>3. Cause
    BY <2>1, <2>2 DEF FlightInv
  <2> QED
    BY <2>1, <2>3, CauseStays DEF FlightInv, EndsForACause
<1>3. CASE HandlerFailsOnRecord
  BY <1>3 DEF HandlerFailsOnRecord, Outermost, FlightInv, EndsForACause, Cause,
              HandlerIsBroken
<1> QED
  BY <1>1, <1>2, <1>3

LEMMA StepFlight == TypeOK /\ OriginInv /\ FlightInv /\ [Next]_vars => FlightInv'
<1> SUFFICES ASSUME TypeOK, OriginInv, FlightInv, [Next]_vars PROVE FlightInv'
  OBVIOUS
<1>1. ASSUME NEW event \in Events, Invoke(event) PROVE FlightInv'
  BY <1>1 DEF Invoke, Start, FlightInv, EndsForACause
<1>2. ASSUME NEW event \in Events, Refuse(event) PROVE FlightInv'
  BY <1>2 DEF Refuse, Start, FlightInv, EndsForACause
<1>3. CASE Take
  BY <1>3 DEF Take, FlightInv, EndsForACause
<1>4. CASE Undecodable
  <2>1. /\ exc' = [kind |-> DecodeError(Upcoming.shape), origin |-> "decoding"]
        /\ UNCHANGED <<batch, n>> /\ n < Len(batch) /\ DecodeError(Upcoming.shape) # "nothing"
        /\ phase' \in {"emptied", "escaped"}
    BY <1>4 DEF Undecodable, Outermost, loop
  <2> QED
    BY <2>1 DEF FlightInv, EndsForACause, Cause, RecordIsUndecodable, Upcoming
<1>5. CASE ParseToPayload
  BY <1>5, ProceedFlight DEF ParseToPayload, Reached
<1>6. CASE FailToParse
  <2> DEFINE kind == IF DefaultPath = NoPath /\ Top.record.shape \in NoObject
                     THEN "Exception" ELSE "FailButContinue"
  <2>1. /\ agenda # << >> /\ phase = "run" /\ Top.do = "parse_record"
        /\ Raise(kind, "parse_record", << >>)
    BY <1>6 DEF FailToParse, Reached
  <2>2. Top.record = batch[n]
    BY <2>1, TopDeployed DEF OriginInv, IsDeployed
  <2>3. exc' = [kind |-> kind, origin |-> "parse_record"] /\ UNCHANGED <<dep, batch, n>>
    BY <2>1 DEF Raise, loop
  <2>4. ASSUME kind = "Exception" PROVE Cause'
    BY <2>1, <2>2, <2>3, <2>4, FixedByRecord DEF Cause, RecordIsNoObject, TypeOK, PE!TypeOK
  <2>5. kind \in {"Exception", "FailButContinue"}
    OBVIOUS
  <2> HIDE DEF kind
  <2> QED
    BY <2>1, <2>4, <2>5, RaiseFlight DEF LPBaseException
<1>7. CASE Finish \/ FinishFailed \/ Kill
  BY <1>7 DEF Finish, FinishFailed, Kill, FlightInv, EndsForACause
<1>8. CASE UNCHANGED vars
  BY <1>8, CauseStays DEF vars, FlightInv, EndsForACause, Unguarded
<1> QED
  BY <1>1, <1>2, <1>3, <1>4, <1>5, <1>6, <1>7, <1>8, PayloadsFlight, FunctionsFlight,
     HandlersFlight, RecordFlight
     DEF Next, Work

LEMMA InitFlight == Init => FlightInv
BY DEF Init, FlightInv, EndsForACause

(***************************************************************************)
(* What ends an invocation whose records were found, before the end of its *)
(* batch, is a fault of a record that does not decode or is no object, of  *)
(* the exception_handler, of what the record's own path passes on to, or   *)
(* of a function that may be executed for the record and raises            *)
(* LPBaseException: for every set of paths and of functions, whatever      *)
(* Payloads these return.                                                  *)
(***************************************************************************)
THEOREM EndsOnlyForACause == Spec => []EndsForACause
<1>1. FlightInv => EndsForACause
  BY DEF FlightInv
<1> QED
  BY <1>1, InitType, StepType, InitOrigins, StepOrigins, InitFlight, StepFlight, PTL DEF Spec

-----------------------------------------------------------------------------
(* Where the code does keep to its documentation: what each of the         *)
(* disagreements that the runs show takes, for any other deployment.       *)

\* Every way to end an invocation has an origin and kinds of its own.
LEMMA OriginTells ==
    ASSUME Cause
    PROVE  /\ exc.origin = "state.paths" => PathIsMissing
           /\ exc.origin = "function" => FunctionGivesUp
           /\ exc.origin = "put_record" => QueueIsUnavailable
           /\ exc.kind = "FailButContinue" => RecordIsUndecodable \/ HandlerIsBroken
           /\ exc.kind = "AssertionError" =>
                  \/ RecordIsUndecodable \/ HandlerIsBroken \/ PathIsEmpty
                  \/ ActionIsMalformed \/ QueueIsUnavailable
BY DEF Cause, DeploymentFault, RecordIsUndecodable, HandlerIsBroken, RecordIsNoObject,
       PathIsMissing, PathIsEmpty, RecursionIsTooDeep, ActionIsMalformed, QueueIsUnavailable,
       FunctionGivesUp, ServiceError, NoException

LEMMA FunctionsOfAnAction ==
    ASSUME TypeOK, NEW p \in DOMAIN Paths, NEW action \in ActionsOf(p), action.kind = "Action"
    PROVE  Range(action.functions) \subseteq Func
<1>1. IsEntry(action)
  BY PathsAreLists, NormalizedAreEntries DEF ActionsOf, Range
<1>2. action.functions \in Seq(Func)
  BY <1>1 DEF IsEntry
<1> QED
  BY <1>2, RangeOfSeq DEF Range

\* Every record of the batch is one of an event's.
LEMMA RecordIsSent ==
    ASSUME TypeOK, NEW k \in 1 .. Len(batch)
    PROVE  \E event \in Events : \E i \in DOMAIN event.records : batch[k] = event.records[i]
<1>1. batch # << >>
  BY EmptySeq
<1>2. PICK event \in Events : batch = event.records
  BY <1>1 DEF TypeOK
<1>3. k \in DOMAIN batch
  BY <1>2, PipelineAssumption, ListShape DEF IsEvent
<1> QED
  BY <1>2, <1>3

LEMMA UpcomingIsSent ==
    ASSUME TypeOK, n < Len(batch)
    PROVE  \E event \in Events : \E i \in DOMAIN event.records : Upcoming = event.records[i]
BY RecordIsSent, n + 1 \in 1 .. Len(batch) DEF TypeOK, PE!TypeOK, Upcoming

(***************************************************************************)
(* README.md:149: an undefined path costs its own record only, provided    *)
(* that the path_enum of a lambda has no names that its paths lack.        *)
(***************************************************************************)
THEOREM UndefinedPathsWithoutEnum ==
    ASSUME \A d \in Deployments : d.enum \subseteq DOMAIN d.paths
    PROVE  Spec => []UndefinedPathsAreDropped
<1>1. TypeOK /\ EndsForACause => UndefinedPathsAreDropped
  <2> SUFFICES ASSUME TypeOK, Cause, exc.origin = "state.paths" PROVE FALSE
    BY DEF EndsForACause, UndefinedPathsAreDropped, NoException
  <2>1. PICK p \in Enum : p \notin DOMAIN Paths
    BY OriginTells DEF PathIsMissing
  <2>2. CASE Calls
    BY <2>1, <2>2, PipelineAssumption DEF Enum, Calls, TypeOK, IsDeployment
  <2>3. CASE ~Calls
    BY <2>1, <2>3 DEF Enum, Paths, TypeOK
  <2> QED
    BY <2>2, <2>3
<1> QED
  BY <1>1, TypeCorrect, EndsOnlyForACause, PTL

(***************************************************************************)
(* README.md:145,150: whatever is wrong with the path and the arguments of *)
(* its messages, they end an invocation early only by what the deployment  *)
(* does with them, provided that each decodes to an object, or to a string *)
(* or a list without both names in it, and that the exception_handler does *)
(* not raise.                                                              *)
(***************************************************************************)
THEOREM InvalidPayloadsOnceDecoded ==
    ASSUME \A event \in Events : \A i \in DOMAIN event.records :
               event.records[i].shape \in {"object", "text"},
           HandlerRaises = {}
    PROVE  Spec => [](/\ InvalidPayloadsAreDropped
                      /\ phase \in {"escaped", "emptied"} /\ exc # NoException =>
                             DeploymentFault)
<1>1. ASSUME TypeOK, Cause PROVE DeploymentFault /\ exc.kind # "FailButContinue"
  <2>1. ~RecordIsUndecodable
    <3> SUFFICES ASSUME RecordIsUndecodable PROVE FALSE
      OBVIOUS
    <3>1. Upcoming.shape \in {"object", "text"}
      BY <1>1, UpcomingIsSent DEF RecordIsUndecodable
    <3> QED
      BY <3>1 DEF RecordIsUndecodable, DecodeError
  <2>2. ~HandlerIsBroken
    BY DEF HandlerIsBroken
  <2>3. ~RecordIsNoObject
    <3> SUFFICES ASSUME RecordIsNoObject PROVE FALSE
      OBVIOUS
    <3>1. batch[n].shape \in {"object", "text"}
      <4>1. n \in 1 .. Len(batch)
        BY <1>1 DEF RecordIsNoObject, TypeOK, PE!TypeOK
      <4> QED
        BY <1>1, <4>1, RecordIsSent
    <3> QED
      BY <3>1 DEF RecordIsNoObject, NoObject
  <2> QED
    BY <1>1, <2>1, <2>2, <2>3, OriginTells DEF Cause
<1>2. TypeOK /\ EndsForACause =>
          /\ InvalidPayloadsAreDropped
          /\ phase \in {"escaped", "emptied"} /\ exc # NoException => DeploymentFault
  BY <1>1 DEF EndsForACause, InvalidPayloadsAreDropped, NoException
<1> QED
  BY <1>2, TypeCorrect, EndsOnlyForACause, PTL

(***************************************************************************)
(* README.md:154: any other error of a function, or of a queue an Action   *)
(* passes on to, costs its own record only, provided that no function      *)
(* raises LPBaseException itself, and all queues are SQS queues declared   *)
(* with their urls.                                                        *)
(***************************************************************************)
THEOREM OtherErrorsOfPlainFunctions ==
    ASSUME \A f \in Func : \A outcome \in Does[f] : outcome.raises # "LPBaseException",
           \A q \in Queue : QueueType[q] = "SQS" /\ q \in HasUrl
    PROVE  Spec => []OtherErrorsAreDropped
<1>1. TypeOK /\ EndsForACause => OtherErrorsAreDropped
  <2> SUFFICES ASSUME TypeOK, Cause, exc.origin \in {"function", "put_record"} PROVE FALSE
    BY DEF EndsForACause, OtherErrorsAreDropped, NoException
  <2>1. FunctionGivesUp
    BY OriginTells DEF QueueIsUnavailable
  <2>2. PICK p \in DOMAIN Paths : \E action \in ActionsOf(p) :
           /\ action.kind = "Action"
           /\ \E f \in Range(action.functions) : \E outcome \in Does[f] :
                 outcome.raises = "LPBaseException"
    BY <2>1 DEF FunctionGivesUp
  <2> QED
    BY <2>2, FunctionsOfAnAction
<1> QED
  BY <1>1, TypeCorrect, EndsOnlyForACause, PTL

\* An invocation returns without failures, or because of an AssertionError.
ReturnInv ==
    /\ phase = "returned" => exceptions = {}
    /\ phase = "emptied" => exc.kind = "AssertionError"

LEMMA StepReturn == ReturnInv /\ [Next]_vars => ReturnInv'
<1> SUFFICES ASSUME ReturnInv, [Next]_vars, phase' \in {"returned", "emptied"}
             PROVE  ReturnInv'
  BY DEF ReturnInv
<1>1. ASSUME NEW event \in Events PROVE ~Invoke(event) /\ ~Refuse(event)
  BY DEF Invoke, Refuse, Start
<1>2. CASE \/ Payloads \/ Functions \/ ParseToPayload \/ FailToParse \/ Handlers
  <2>1. phase = "run" /\ phase' = phase
    BY <1>2, RunningStep
       DEF Handlers, Unwind, Swallow, Unwinding, Raising, Proceeding, Raise, Proceed
  <2> QED
    BY <2>1
<1>3. CASE Undecodable \/ EscapeRecord \/ HandlerFailsOnRecord
  BY <1>3 DEF Undecodable, EscapeRecord, HandlerFailsOnRecord, Outermost, ReturnInv
<1>4. CASE UNCHANGED vars
  BY <1>4 DEF vars, ReturnInv
<1>5. CASE Finish
  BY <1>5 DEF Finish, Respond, ReturnInv
<1> QED
  BY <1>1, <1>2, <1>3, <1>4, <1>5
     DEF Next, Work, Take, Succeed, DropRecord, FailRecord, Settle, FinishFailed, Kill

(***************************************************************************)
(* README.md:123: an invocation with a failed record raises, provided that *)
(* no AssertionError can end it: the exception_handler raises none,        *)
(* records are never JSON's null, paths are not empty and hold functions,  *)
(* or Actions of functions and of queues that are Queues, and all Queues   *)
(* are SQS queues declared with their urls.                                *)
(***************************************************************************)
THEOREM FailuresRaiseWithoutAssertions ==
    ASSUME "AssertionError" \notin HandlerRaises,
           \A event \in Events : \A i \in DOMAIN event.records :
               event.records[i].shape # "null",
           \A d \in Deployments : \A p \in DOMAIN d.paths :
               /\ d.paths[p] # << >>
               /\ \E kind \in {"function", "Action"} :
                     \A i \in DOMAIN d.paths[p] : d.paths[p][i].kind = kind
               /\ \A i \in DOMAIN d.paths[p] :
                     d.paths[p][i].kind = "Action" =>
                         Range(d.paths[p][i].queues) \subseteq Queue,
           \A f \in Func : Def[f].isFunction,
           \A q \in Queue : QueueType[q] = "SQS" /\ q \in HasUrl
    PROVE  Spec => []FailedRecordsRaise
<1> DEFINE IsSound(action) == action.kind = "Action" /\ Range(action.queues) \subseteq Queue
<1>1. ASSUME NEW fs PROVE IsSound(Action(fs, << >>, << >>))
  <2>1. Range(<< >>) = {}
    BY EmptySeq DEF Range
  <2> QED
    BY <2>1 DEF Action
<1>2. ASSUME TypeOK, NEW p \in DOMAIN Paths
      PROVE  Paths[p] # << >> /\ \A action \in ActionsOf(p) : IsSound(action)
  <2>1. CASE Calls
    <3>1. /\ Paths[p] = << Callable >> /\ Callable.kind = "function"
          /\ Def[Callable.f].isFunction
      BY <2>1 DEF Paths, Callable, Calls
    <3>2. /\ Paths[p] # << >>
          /\ \A i \in DOMAIN Paths[p] :
                Paths[p][i].kind = "function" /\ Def[Paths[p][i].f].isFunction
      BY <3>1, SingletonList
    <3> DEFINE action == Action([i \in DOMAIN Paths[p] |-> Paths[p][i].f], << >>, << >>)
    <3>3. NormalizedActions(Paths[p]) = << action >> /\ IsSound(action)
      BY <1>1, <3>2 DEF NormalizedActions
    <3> HIDE DEF action
    <3> QED
      BY <3>2, <3>3, SingletonList DEF ActionsOf, Range
  <2>2. CASE ~Calls
    <3>1. /\ Paths[p] # << >>
          /\ \E kind \in {"function", "Action"} :
                \A i \in DOMAIN Paths[p] : Paths[p][i].kind = kind
          /\ \A i \in DOMAIN Paths[p] :
                Paths[p][i].kind = "Action" => Range(Paths[p][i].queues) \subseteq Queue
      BY <1>2, <2>2 DEF Paths, TypeOK
    <3>2. CASE \A i \in DOMAIN Paths[p] : Paths[p][i].kind = "function"
      <4> DEFINE action == Action([i \in DOMAIN Paths[p] |-> Paths[p][i].f], << >>, << >>)
      <4>1. \A i \in DOMAIN Paths[p] : Def[Paths[p][i].f].isFunction
        BY <1>2, <3>2, PathsAreLists DEF IsEntry
      <4>2. NormalizedActions(Paths[p]) = << action >>
        BY <3>2, <4>1 DEF NormalizedActions
      <4>3. IsSound(action)
        BY <1>1
      <4> HIDE DEF action
      <4> QED
        BY <3>1, <4>2, <4>3, SingletonList DEF ActionsOf, Range
    <3>3. CASE \A i \in DOMAIN Paths[p] : Paths[p][i].kind = "Action"
      <4>1. 1 \in DOMAIN Paths[p]
        BY <1>2, <3>1, PathsAreLists, TailList
      <4>2. NormalizedActions(Paths[p]) = Paths[p]
        BY <3>3, <4>1 DEF NormalizedActions
      <4> QED
        BY <3>1, <3>3, <4>2 DEF ActionsOf, Range
    <3> QED
      BY <3>1, <3>2, <3>3
  <2> QED
    BY <2>1, <2>2
<1>3. ASSUME TypeOK, Cause, exc.kind = "AssertionError" PROVE FALSE
  <2>1. CASE RecordIsUndecodable
    BY <1>3, <2>1, UpcomingIsSent DEF RecordIsUndecodable, DecodeError
  <2>2. CASE HandlerIsBroken \/ QueueIsUnavailable
    BY <1>3, <2>2 DEF HandlerIsBroken, QueueIsUnavailable
  <2>3. CASE PathIsEmpty
    BY <1>2, <1>3, <2>3 DEF PathIsEmpty
  <2>4. CASE ActionIsMalformed
    <3>1. PICK p \in DOMAIN Paths : \E action \in ActionsOf(p) :
             \/ ~IsSound(action)
             \/ \E f \in Range(action.functions) : ~Def[f].isFunction
      BY <2>4 DEF ActionIsMalformed
    <3> QED
      BY <1>2, <1>3, <3>1, FunctionsOfAnAction
  <2> QED
    BY <1>3, <2>1, <2>2, <2>3, <2>4, OriginTells
<1>4. Init => ReturnInv
  BY DEF Init, ReturnInv
<1>5. TypeOK /\ EndsForACause /\ ReturnInv => FailedRecordsRaise
  BY <1>3 DEF EndsForACause, ReturnInv, FailedRecordsRaise, NoException
<1>6. Spec => []ReturnInv
  BY <1>4, StepReturn, PTL DEF Spec
<1> QED
  BY <1>5, <1>6, TypeCorrect, EndsOnlyForACause, PTL

=============================================================================
