------------------------ MODULE PipelineHistoryProofs ------------------------
(***************************************************************************)
(* What a success is worth: nothing of what a record asked for is lost on  *)
(* the way.  Each part of an Action is executed, or is on the stack where  *)
(* no function's try block is around it, or an exception that no such      *)
(* block ends is in flight.                                                *)
(***************************************************************************)
EXTENDS PipelineHistory, PipelineEndsProofs

-----------------------------------------------------------------------------
(* What waits on the stack outside of the try blocks of functions.         *)

OutsideItems(items) == {items[i] : i \in {j \in DOMAIN items : Outside(items, j)}}

LEMMA OutsideUnguarded ==
    ASSUME NEW items, Unguarded(items)
    PROVE  OutsideItems(items) = Range(items)
BY DEF OutsideItems, Outside, Unguarded, Range

LEMMA OutsideBelow ==
    ASSUME NEW s, IsList(s), NEW t, IsList(t)
    PROVE  /\ ~Unguarded(t) => OutsideItems(s \o t) = OutsideItems(t)
           /\ Unguarded(t) => OutsideItems(s \o t) = OutsideItems(s) \cup Range(t)
<1> DEFINE all == s \o t
           len == Len(s)
<1>1. /\ len \in Nat /\ DOMAIN s = 1 .. len
      /\ Len(t) \in Nat /\ DOMAIN t = 1 .. Len(t)
      /\ DOMAIN all = 1 .. len + Len(t)
      /\ \A i \in DOMAIN s : all[i] = s[i]
      /\ \A i \in DOMAIN t : all[len + i] = t[i]
  BY ConcatAt
<1> HIDE DEF all, len
<1>2. ASSUME NEW i \in DOMAIN t
      PROVE  len + i \in DOMAIN all /\ (Outside(all, len + i) <=> Outside(t, i))
  <2>1. len + i \in DOMAIN all
    BY <1>1
  <2>2. ASSUME Outside(all, len + i), NEW j \in DOMAIN t, j >= i PROVE t[j].do # "leave_try"
    <3>1. len + j \in DOMAIN all /\ len + j >= len + i /\ all[len + j] = t[j]
      BY <1>1, <2>2
    <3> QED
      BY <2>2, <3>1 DEF Outside
  <2>3. ASSUME Outside(t, i), NEW j \in DOMAIN all, j >= len + i
        PROVE  all[j].do # "leave_try"
    <3>1. j - len \in DOMAIN t /\ j - len >= i /\ len + (j - len) = j
      BY <1>1, <2>3
    <3>2. all[j] = t[j - len]
      BY <1>1, <3>1
    <3> QED
      BY <2>3, <3>1, <3>2 DEF Outside
  <2> QED
    BY <2>1, <2>2, <2>3 DEF Outside
<1>3. ASSUME NEW i \in DOMAIN s
      PROVE  i \in DOMAIN all /\ (Outside(all, i) <=> Outside(s, i) /\ Unguarded(t))
  <2>1. i \in DOMAIN all
    BY <1>1
  <2>2. ASSUME Outside(all, i) PROVE Outside(s, i)
    BY <1>1, <2>2 DEF Outside
  <2>3. ASSUME Outside(all, i), NEW j \in DOMAIN t PROVE t[j].do # "leave_try"
    <3>1. len + j \in DOMAIN all /\ len + j >= i /\ all[len + j] = t[j]
      BY <1>1
    <3> QED
      BY <2>3, <3>1 DEF Outside
  <2>4. ASSUME Outside(s, i), Unguarded(t), NEW j \in DOMAIN all, j >= i
        PROVE  all[j].do # "leave_try"
    <3>1. CASE j \in DOMAIN s
      BY <1>1, <2>4, <3>1 DEF Outside
    <3>2. CASE j \notin DOMAIN s
      <4>1. j - len \in DOMAIN t /\ len + (j - len) = j
        BY <1>1, <3>2
      <4>2. all[j] = t[j - len]
        BY <1>1, <4>1
      <4> QED
        BY <2>4, <4>1, <4>2 DEF Unguarded
    <3> QED
      BY <3>1, <3>2
  <2> QED
    BY <2>1, <2>2, <2>3, <2>4 DEF Outside, Unguarded
<1>4. \A i \in DOMAIN all : i \in DOMAIN s \/ \E k \in DOMAIN t : i = len + k
  <2>1. ASSUME NEW i \in DOMAIN all, i \notin DOMAIN s PROVE \E k \in DOMAIN t : i = len + k
    <3>1. i - len \in DOMAIN t /\ i = len + (i - len)
      BY <1>1, <2>1
    <3> QED
      BY <3>1
  <2> QED
    BY <2>1
<1>5. OutsideItems(t) \subseteq OutsideItems(all)
  <2>1. ASSUME NEW i \in DOMAIN t, Outside(t, i) PROVE t[i] \in OutsideItems(all)
    BY <1>1, <1>2, <2>1 DEF OutsideItems
  <2> QED
    BY <2>1 DEF OutsideItems
<1>6. OutsideItems(all) \subseteq OutsideItems(s) \cup OutsideItems(t)
  <2>1. ASSUME NEW i \in DOMAIN all, Outside(all, i)
        PROVE  all[i] \in OutsideItems(s) \cup OutsideItems(t)
    <3>1. CASE i \in DOMAIN s
      BY <1>1, <1>3, <2>1, <3>1 DEF OutsideItems
    <3>2. ASSUME NEW k \in DOMAIN t, i = len + k
          PROVE  all[i] \in OutsideItems(t)
      BY <1>1, <1>2, <2>1, <3>2 DEF OutsideItems
    <3> QED
      BY <1>4, <3>1, <3>2
  <2> QED
    BY <2>1 DEF OutsideItems
<1>7. ASSUME Unguarded(t) PROVE OutsideItems(s) \subseteq OutsideItems(all)
  <2>1. ASSUME NEW i \in DOMAIN s, Outside(s, i) PROVE s[i] \in OutsideItems(all)
    BY <1>1, <1>3, <1>7, <2>1 DEF OutsideItems
  <2> QED
    BY <2>1 DEF OutsideItems
<1>8. ASSUME ~Unguarded(t) PROVE OutsideItems(all) \subseteq OutsideItems(t)
  <2>1. ASSUME NEW i \in DOMAIN all, Outside(all, i) PROVE all[i] \in OutsideItems(t)
    <3>1. i \notin DOMAIN s
      BY <1>3, <1>8, <2>1
    <3>2. PICK k \in DOMAIN t : i = len + k
      BY <1>4, <3>1
    <3> QED
      BY <1>1, <1>2, <2>1, <3>2 DEF OutsideItems
  <2> QED
    BY <2>1 DEF OutsideItems
<1> QED
  BY <1>5, <1>6, <1>7, <1>8, OutsideUnguarded DEF all

LEMMA RangeOfConcat ==
    ASSUME NEW s, IsList(s), NEW t, IsList(t)
    PROVE  Range(s \o t) = Range(s) \cup Range(t)
<1> DEFINE all == s \o t
           len == Len(s)
<1>1. /\ len \in Nat /\ DOMAIN s = 1 .. len
      /\ Len(t) \in Nat /\ DOMAIN t = 1 .. Len(t)
      /\ DOMAIN all = 1 .. len + Len(t)
      /\ \A i \in DOMAIN s : all[i] = s[i]
      /\ \A i \in DOMAIN t : all[len + i] = t[i]
  BY ConcatAt
<1>2. \A i \in DOMAIN all : \/ i \in DOMAIN s /\ all[i] = s[i]
                            \/ i - len \in DOMAIN t /\ all[i] = t[i - len]
  BY ConcatList
<1> HIDE DEF all, len
<1>3. \A i \in DOMAIN s : i \in DOMAIN all
  BY <1>1
<1>4. \A i \in DOMAIN t : len + i \in DOMAIN all
  BY <1>1
<1>5. Range(s) \subseteq Range(all)
  BY <1>1, <1>3 DEF Range
<1>6. Range(t) \subseteq Range(all)
  BY <1>1, <1>4 DEF Range
<1>7. Range(all) \subseteq Range(s) \cup Range(t)
  BY <1>2 DEF Range
<1> QED
  BY <1>5, <1>6, <1>7 DEF all

LEMMA OutsideOfAgenda ==
    ASSUME TypeOK, agenda # << >>
    PROVE  /\ IsList(Rest)
           /\ Unguarded(agenda) => /\ OutsideItems(agenda) = {Top} \cup Range(Rest)
                                   /\ Unguarded(Rest) /\ Top.do # "leave_try"
           /\ ~Unguarded(agenda) => OutsideItems(agenda) = OutsideItems(Rest)
           /\ ~Unguarded(agenda) /\ Top.do # "leave_try" => ~Unguarded(Rest)
<1>1. /\ IsList(agenda) /\ IsList(Rest) /\ 1 \in DOMAIN agenda /\ Top = agenda[1]
      /\ \A k \in DOMAIN Rest : k + 1 \in DOMAIN agenda /\ Rest[k] = agenda[k + 1]
  BY TailList DEF TypeOK, IsStack, Top, Rest
<1>2. agenda = << Top >> \o Rest
  <2>1. agenda \in Seq(Range(agenda))
    BY <1>1 DEF IsList
  <2> QED
    BY <2>1, HeadTailProperties DEF Top, Rest
<1>3. IsList(<< Top >>) /\ Range(<< Top >>) = {Top}
  BY SingletonList DEF Range
<1>4. CASE Unguarded(agenda)
  <2>1. Unguarded(Rest) /\ Unguarded(<< Top >>) /\ Top.do # "leave_try"
    BY <1>1, <1>4, SingletonList DEF Unguarded
  <2> QED
    BY <1>1, <1>2, <1>3, <1>4, <2>1, OutsideBelow, OutsideUnguarded
<1>5. CASE ~Unguarded(agenda)
  <2>1. CASE ~Unguarded(Rest)
    BY <1>1, <1>2, <1>3, <1>5, <2>1, OutsideBelow
  <2>2. CASE Unguarded(Rest)
    <3>1. Top.do = "leave_try"
      BY <1>5, <2>2, StillGuarded
    <3>2. OutsideItems(<< Top >>) = {}
      BY <3>1 DEF OutsideItems, Outside
    <3>3. OutsideItems(agenda) = OutsideItems(<< Top >>) \cup Range(Rest)
      BY <1>1, <1>2, <1>3, <2>2, OutsideBelow
    <3>4. OutsideItems(Rest) = Range(Rest)
      BY <2>2, OutsideUnguarded
    <3> QED
      BY <1>1, <1>5, <3>1, <3>2, <3>3, <3>4
  <2> QED
    BY <2>1, <2>2
<1> QED
  BY <1>1, <1>4, <1>5

-----------------------------------------------------------------------------
(* What was asked for, and what is still owed.  W is what waits outside of *)
(* the try blocks of functions, E what was executed there.                 *)

\* Requested, of any set of what was executed.
Asked(E, x) ==
    \/ x = PathOf(batch[n])
    \/ \E p \in E \cap DOMAIN Paths : \E action \in ActionsOf(p) :
          action.kind = "Action" /\ x \in Parts(action)

Justified(E, item) ==
    /\ item.do = "execute_payload" => Asked(E, item.target)
    /\ item.do \in {"execute_action", "call_function", "fan_out"} =>
           \E p \in E \cap DOMAIN Paths : item.action \in ActionsOf(p)

Sound(W, E) ==
    /\ \A x \in E : Asked(E, x)
    /\ \A item \in W : Justified(E, item)

\* x was executed or is going to be.
Handled(W, E, x) ==
    \/ x \in E
    \/ \E item \in W : \/ item.do = "execute_payload" /\ item.target = x
                       \/ item.do = "call_function" /\ item.f = x

Owed(W, E, action) ==
    \/ \E item \in W : item.do = "execute_action" /\ item.action = action
    \/ /\ action.kind = "Action"
       /\ \A f \in Range(action.functions) : Handled(W, E, f)
       /\ \/ \E item \in W : item.do = "fan_out" /\ item.action = action
          \/ \A x \in Range(action.paths) \cup Range(action.queues) : Handled(W, E, x)

Owes(W, E) ==
    /\ \/ \E item \in W : item.do = "parse_record"
       \/ Handled(W, E, PathOf(batch[n]))
    /\ \A p \in E \cap DOMAIN Paths : \A action \in ActionsOf(p) : Owed(W, E, action)

\* The exception in flight ends the record: nothing on its way swallows it.
Doomed == exc # NoException /\ (Unguarded(agenda) \/ exc.kind \in LPBaseException)

CompleteInv ==
    /\ phase # "run" => executed = {}
    /\ phase = "run" =>
           /\ exc.kind = "nothing" => exc = NoException
           /\ Sound(OutsideItems(agenda), executed)
           /\ Doomed \/ Owes(OutsideItems(agenda), executed)

LEMMA NextComplete ==
    ASSUME UNCHANGED <<dep, batch, n>>, phase' = "run",
           exc'.kind = "nothing" => exc' = NoException,
           Sound(OutsideItems(agenda'), executed'),
           Doomed' \/ Owes(OutsideItems(agenda'), executed')
    PROVE  CompleteInv'
<1>1. /\ Paths' = Paths /\ PathOf(batch[n])' = PathOf(batch[n])
      /\ \A p : ActionsOf(p)' = ActionsOf(p)
  BY FixedByRecord DEF PathOf
<1>2. Sound(OutsideItems(agenda), executed)'
  BY <1>1 DEF Sound, Justified, Asked, Parts, OutsideItems, Outside
<1>3. Doomed' \/ Owes(OutsideItems(agenda), executed)'
  BY <1>1 DEF Owes, Owed, Handled, OutsideItems, Outside
<1> QED
  BY <1>2, <1>3 DEF CompleteInv

\* What was asked for stays so when more is executed.
LEMMA AskedStays ==
    ASSUME NEW E, NEW F, E \subseteq F
    PROVE  /\ \A x : Asked(E, x) => Asked(F, x)
           /\ \A item : Justified(E, item) => Justified(F, item)
<1>1. \A x : Asked(E, x) => Asked(F, x)
  BY DEF Asked
<1> QED
  BY <1>1 DEF Justified

\* What an item owes, once it is off the stack.
Settled(top, V, E, F) ==
    /\ top.do = "parse_record" => Handled(V, F, PathOf(batch[n]))
    /\ top.do = "execute_payload" => top.target \in F
    /\ \A p \in (F \ E) \cap DOMAIN Paths : \A action \in ActionsOf(p) : Owed(V, F, action)
    /\ top.do = "execute_action" => Owed(V, F, top.action)
    /\ top.do = "call_function" => top.f \in F
    /\ top.do = "fan_out" =>
           \A x \in Range(top.action.paths) \cup Range(top.action.queues) : Handled(V, F, x)

LEMMA Settling ==
    ASSUME NEW top, NEW low, NEW V, NEW E, NEW F, low \subseteq V, E \subseteq F,
           Owes({top} \cup low, E), Settled(top, V, E, F)
    PROVE  Owes(V, F)
<1> DEFINE W == {top} \cup low
<1>1. ASSUME NEW x, Handled(W, E, x) PROVE Handled(V, F, x)
  BY <1>1 DEF Handled, Settled
<1>2. ASSUME NEW action, Owed(W, E, action) PROVE Owed(V, F, action)
  <2>1. CASE \E item \in W : item.do = "execute_action" /\ item.action = action
    BY <2>1 DEF Owed, Settled
  <2>2. CASE /\ action.kind = "Action"
             /\ \A f \in Range(action.functions) : Handled(W, E, f)
             /\ \E item \in W : item.do = "fan_out" /\ item.action = action
    BY <1>1, <2>2 DEF Owed, Settled
  <2>3. CASE /\ action.kind = "Action"
             /\ \A f \in Range(action.functions) : Handled(W, E, f)
             /\ \A x \in Range(action.paths) \cup Range(action.queues) : Handled(W, E, x)
    BY <1>1, <2>3 DEF Owed
  <2> QED
    BY <1>2, <2>1, <2>2, <2>3 DEF Owed
<1>3. \/ \E item \in V : item.do = "parse_record"
      \/ Handled(V, F, PathOf(batch[n]))
  BY <1>1 DEF Owes, Settled
<1>4. ASSUME NEW p \in F \cap DOMAIN Paths, NEW action \in ActionsOf(p)
      PROVE  Owed(V, F, action)
  BY <1>2 DEF Owes, Settled
<1> QED
  BY <1>3, <1>4 DEF Owes

-----------------------------------------------------------------------------
(* Steps that put items in the place of the innermost one.                 *)

LEMMA Remembered ==
    ASSUME Remember, phase' = "run", agenda # << >>
    PROVE  /\ exc = NoException /\ Unguarded(agenda) => executed' = executed \cup Executes
           /\ ~(exc = NoException /\ Unguarded(agenda)) => executed' = executed
BY DEF Remember, OutsideFunctions, Unguarded

\* Below the try block of a function nothing changes, whatever happens in it.
LEMMA GuardedComplete ==
    ASSUME TypeOK, CompleteInv, Remember, phase = "run", phase' = "run", agenda # << >>,
           ~Unguarded(agenda), UNCHANGED <<dep, batch, n>>,
           exc'.kind = "nothing" => exc' = NoException,
           NEW items, IsList(items), agenda' = items \o Rest,
           Top.do # "leave_try" \/ items = << >>, Doomed => Doomed'
    PROVE  CompleteInv'
<1>1. executed' = executed
  BY Remembered
<1>2. IsList(Rest) /\ OutsideItems(agenda) = OutsideItems(Rest)
  BY OutsideOfAgenda
<1>3. OutsideItems(items \o Rest) = OutsideItems(Rest)
  <2>1. CASE Top.do # "leave_try"
    BY <1>2, <2>1, OutsideOfAgenda, OutsideBelow
  <2>2. CASE items = << >>
    <3>1. Rest \in Seq(Range(Rest))
      BY <1>2 DEF IsList
    <3> QED
      BY <2>2, <3>1, ConcatEmptySeq
  <2> QED
    BY <2>1, <2>2
<1> QED
  BY <1>1, <1>2, <1>3, NextComplete DEF CompleteInv

LEMMA PushComplete ==
    ASSUME TypeOK, CompleteInv, Remember, phase = "run", phase' = "run", agenda # << >>,
           exc = NoException, UNCHANGED <<dep, batch, n>>,
           exc'.kind = "nothing" => exc' = NoException,
           NEW items, IsList(items), agenda' = items \o Rest,
           Top.do # "leave_try" \/ items = << >>,
           Unguarded(agenda) =>
               /\ \A x \in Executes : Asked(executed \cup Executes, x)
               /\ \A item \in OutsideItems(items) : Justified(executed \cup Executes, item)
               /\ \/ Doomed'
                  \/ Settled(Top, OutsideItems(items) \cup Range(Rest), executed,
                             executed \cup Executes)
    PROVE  CompleteInv'
<1> DEFINE F == executed \cup Executes
           V == OutsideItems(items) \cup Range(Rest)
<1>1. ~Doomed
  BY DEF Doomed
<1>2. CASE ~Unguarded(agenda)
  BY <1>1, <1>2, GuardedComplete
<1>3. CASE Unguarded(agenda)
  <2>1. executed' = F
    BY <1>3, Remembered
  <2>2. /\ OutsideItems(agenda) = {Top} \cup Range(Rest)
        /\ OutsideItems(agenda') = V
    BY <1>3, OutsideOfAgenda, OutsideBelow
  <2>3. /\ \A x \in Executes : Asked(F, x)
        /\ \A item \in OutsideItems(items) : Justified(F, item)
        /\ Doomed' \/ Settled(Top, V, executed, F)
    BY <1>3
  <2>4. Sound({Top} \cup Range(Rest), executed) /\ Owes({Top} \cup Range(Rest), executed)
    BY <1>1, <2>2 DEF CompleteInv
  <2>5. executed \subseteq F /\ Range(Rest) \subseteq V
    OBVIOUS
  <2>6. Sound(V, F)
    <3>1. \A x \in executed : Asked(F, x)
      BY <2>4, <2>5, AskedStays DEF Sound
    <3>2. \A item \in Range(Rest) : Justified(F, item)
      BY <2>4, <2>5, AskedStays DEF Sound
    <3> QED
      BY <2>3, <3>1, <3>2 DEF Sound
  <2>7. Doomed' \/ Owes(V, F)
    BY <2>3, <2>4, <2>5, Settling
  <2> HIDE DEF F, V
  <2> QED
    BY <2>1, <2>2, <2>6, <2>7, NextComplete
<1> QED
  BY <1>2, <1>3

\* The innermost item was asked for, if no try block is around it.
LEMMA TopJustified ==
    ASSUME TypeOK, OriginInv, CompleteInv, phase = "run", agenda # << >>, Unguarded(agenda)
    PROVE  /\ Justified(executed, Top)
           /\ Top.do = "call_function" => Asked(executed, Top.f) /\ Top.f \in Func
<1>1. Justified(executed, Top)
  BY OutsideOfAgenda DEF CompleteInv, Sound
<1>2. ASSUME Top.do = "call_function" PROVE Asked(executed, Top.f) /\ Top.f \in Func
  <2>1. Top.action.kind = "Action" /\ Top.f \in Range(Top.action.functions)
        /\ Top.action.functions \in Seq(Func)
    BY <1>2, TopIsItem, TopDeployed DEF TypeOK, IsItem, OriginInv, IsDeployed, IsEntry
  <2>2. Top.f \in Func
    BY <2>1, RangeOfSeq DEF Range
  <2>3. Asked(executed, Top.f)
    BY <1>1, <1>2, <2>1 DEF Justified, Asked, Parts
  <2> QED
    BY <2>2, <2>3
<1> QED
  BY <1>1, <1>2

LEMMA PathsAreNamed ==
    ASSUME TypeOK
    PROVE  DOMAIN Paths \subseteq Path
BY PipelineAssumption DEF Paths, TypeOK, IsDeployment

\* A step that raises outside of the try blocks of functions ends the record.
LEMMA RaiseComplete ==
    ASSUME TypeOK, OriginInv, CompleteInv, Remember, phase = "run", agenda # << >>,
           exc = NoException, Top.do # "leave_try",
           NEW kind \in Exception, NEW origin, Raise(kind, origin, << >>)
    PROVE  CompleteInv'
<1>1. /\ agenda' = << >> \o Rest /\ phase' = "run" /\ exc'.kind = kind
      /\ UNCHANGED <<dep, batch, n>>
  BY DEF Raise, loop
<1>2. kind # "nothing" /\ exc' # NoException
  BY <1>1 DEF Exception, LPBaseException, NoException
<1>3. IsList(<< >>) /\ OutsideItems(<< >>) = {} /\ << >> \o Rest = Rest
  <2>1. Rest \in Seq(Range(Rest))
    BY OutsideOfAgenda DEF IsList
  <2> QED
    BY <2>1, ConcatEmptySeq, EmptyStack, EmptySeq DEF IsStack, OutsideItems
<1>4. ASSUME Unguarded(agenda) PROVE Doomed'
  BY <1>1, <1>2, <1>3, <1>4, OutsideOfAgenda DEF Doomed, Unguarded
<1>5. ASSUME Unguarded(agenda), NEW x \in Executes PROVE Asked(executed \cup Executes, x)
  <2>1. Asked(executed, x)
    BY <1>2, <1>5, TopJustified DEF Executes
  <2> QED
    BY <2>1, AskedStays
<1> QED
  BY <1>1, <1>2, <1>3, <1>4, <1>5, PushComplete

\* A function was tried, and whatever came of it has its try block around it.
LEMMA TriedComplete ==
    ASSUME TypeOK, OriginInv, CompleteInv, Remember, Reached("call_function"), phase' = "run",
           UNCHANGED <<dep, batch, n>>, exc'.kind = "nothing" => exc' = NoException,
           NEW items, IsList(items), agenda' = items \o Rest,
           \A i \in DOMAIN items : ~Outside(items, i)
    PROVE  CompleteInv'
<1>1. /\ phase = "run" /\ exc = NoException /\ agenda # << >> /\ Top.do = "call_function"
  BY DEF Reached
<1>2. Executes = {Top.f} /\ OutsideItems(items) = {}
  BY <1>1 DEF Executes, OutsideItems
<1>3. ASSUME Unguarded(agenda)
      PROVE  /\ Asked(executed \cup Executes, Top.f)
             /\ Settled(Top, OutsideItems(items) \cup Range(Rest), executed,
                        executed \cup Executes)
  <2>1. Asked(executed, Top.f) /\ Top.f \in Func
    BY <1>1, <1>3, TopJustified
  <2>2. Asked(executed \cup Executes, Top.f)
    BY <2>1, AskedStays
  <2>3. Top.f \notin DOMAIN Paths
    BY <2>1, PathsAreNamed, HistoryAssumption
  <2> QED
    BY <1>1, <1>2, <2>2, <2>3 DEF Settled
<1> QED
  BY <1>1, <1>2, <1>3, PushComplete

LEMMA PayloadsComplete ==
    ASSUME TypeOK, OriginInv, CompleteInv, Remember, Payloads
    PROVE  CompleteInv'
<1>1. /\ Reached("execute_payload") /\ agenda # << >> /\ phase = "run"
      /\ Top.do = "execute_payload" /\ exc = NoException
  <2>1. Reached("execute_payload")
    BY DEF Payloads, ExecutePath, EmptyPath, UndefinedPath, RecursionLimit, Put, PutFails,
           Executing
  <2> QED
    BY <2>1 DEF Reached
<1>2. Unguarded(agenda) => Asked(executed \cup {Top.target}, Top.target)
  BY <1>1, TopJustified, AskedStays DEF Justified
<1>3. CASE ExecutePath
  <2> DEFINE actions == NormalizedActions(Paths[Top.target])
             items   == [i \in DOMAIN actions |->
                            ExecuteAction(actions[i], Top.kwargs, Top.depth)]
             F       == executed \cup {Top.target}
  <2>1. /\ Top.target \in DOMAIN Paths /\ agenda' = items \o Rest
        /\ phase' = "run" /\ exc' = NoException /\ UNCHANGED <<dep, batch, n>>
    BY <1>1, <1>3 DEF ExecutePath, Executing, Proceed, loop
  <2>2. IsList(actions) /\ Range(actions) = ActionsOf(Top.target)
    BY <2>1, PathsAreLists, NormalizedAreEntries DEF ActionsOf
  <2> HIDE DEF actions
  <2>3. IsList(items) /\ DOMAIN items = DOMAIN actions
    BY <2>2, MappedList
  <2>4. \A i \in DOMAIN items : items[i].do = "execute_action" /\ items[i].action = actions[i]
    BY DEF ExecuteAction
  <2> HIDE DEF items
  <2>5. OutsideItems(items) = Range(items)
    BY <2>4, OutsideUnguarded DEF Unguarded
  <2>6. Executes = {Top.target}
    BY <1>1, <2>1 DEF Executes
  <2>7. \A item \in Range(items) : Justified(F, item)
    BY <2>1, <2>2, <2>3, <2>4 DEF Justified, Range
  <2>8. \A action \in ActionsOf(Top.target) : Owed(Range(items) \cup Range(Rest), F, action)
    <3>1. ASSUME NEW i \in DOMAIN actions
          PROVE  Owed(Range(items) \cup Range(Rest), F, actions[i])
      BY <2>3, <2>4 DEF Owed, Range
    <3> QED
      BY <2>2, <3>1 DEF Range
  <2>9. Settled(Top, Range(items) \cup Range(Rest), executed, F)
    BY <1>1, <2>8 DEF Settled
  <2> QED
    BY <1>1, <1>2, <2>1, <2>3, <2>5, <2>6, <2>7, <2>9, PushComplete
<1>4. CASE Put
  <2>1. /\ Top.target \in Queue /\ agenda' = << >> \o Rest
        /\ phase' = "run" /\ exc' = NoException /\ UNCHANGED <<dep, batch, n>>
    BY <1>1, <1>4 DEF Put, Executing, Proceed, loop
  <2>2. Executes = {Top.target}
    BY <1>1, <2>1 DEF Executes
  <2>3. IsList(<< >>) /\ OutsideItems(<< >>) = {}
    BY EmptyStack, EmptySeq DEF IsStack, OutsideItems
  <2>4. Top.target \notin DOMAIN Paths
    BY <2>1, PathsAreNamed, PipelineAssumption
  <2>5. Settled(Top, OutsideItems(<< >>) \cup Range(Rest), executed, executed \cup {Top.target})
    BY <1>1, <2>4 DEF Settled
  <2> QED
    BY <1>1, <1>2, <2>1, <2>2, <2>3, <2>5, PushComplete
<1>5. CASE EmptyPath \/ UndefinedPath
  BY <1>1, <1>5, RaiseComplete, ExceptionKinds DEF EmptyPath, UndefinedPath
<1>6. CASE RecursionLimit
  BY <1>1, <1>6, RaiseComplete, ExceptionKinds DEF RecursionLimit
<1>7. CASE PutFails
  BY <1>1, <1>7, RaiseComplete DEF PutFails
<1> QED
  BY <1>3, <1>4, <1>5, <1>6, <1>7 DEF Payloads

LEMMA AcceptComplete ==
    ASSUME TypeOK, OriginInv, CompleteInv, Remember, AcceptAction
    PROVE  CompleteInv'
<1> DEFINE action == Top.action
           kwargs == ActionKwargs(action, Top.kwargs)
           fs     == action.functions
           calls  == [i \in DOMAIN fs |-> CallFunction(action, fs[i], kwargs, Top.depth)]
           last   == FanOut(action, kwargs, Top.depth)
           items  == calls \o << last >>
           V      == Range(items) \cup Range(Rest)
<1>1. Reached("execute_action") /\ action.kind = "Action"
  BY DEF AcceptAction
<1>2. /\ agenda # << >> /\ phase = "run" /\ exc = NoException /\ Top.do = "execute_action"
      /\ agenda' = items \o Rest /\ phase' = "run" /\ exc' = NoException
      /\ UNCHANGED <<dep, batch, n>>
  BY <1>1 DEF AcceptAction, Proceed, Reached, loop
<1>3. IsList(fs)
  BY <1>1, TopDepth, EntryLists DEF IsItem
<1> DEFINE Good(item) == item.do \in {"call_function", "fan_out"} /\ item.action = action
<1>4. \A i \in DOMAIN fs : Good(calls[i]) /\ calls[i].do = "call_function" /\ calls[i].f = fs[i]
  BY DEF CallFunction
<1>5. Good(last) /\ last.do = "fan_out"
  BY DEF FanOut
<1> HIDE DEF calls, last, fs, Good
<1>6. IsList(calls) /\ DOMAIN calls = DOMAIN fs
  BY <1>3, MappedList DEF calls
<1>7. IsList(<< last >>) /\ 1 \in DOMAIN << last >> /\ << last >>[1] = last
  BY SingletonList
<1>8. IsList(items) /\ \A i \in DOMAIN items : Good(items[i])
  BY <1>4, <1>5, <1>6, SingletonList, ConcatList
<1>9. last \in Range(items) /\ \A i \in DOMAIN fs : calls[i] \in Range(items)
  <2>1. /\ Len(calls) + 1 \in DOMAIN items /\ items[Len(calls) + 1] = last
        /\ \A i \in DOMAIN fs : i \in DOMAIN items /\ items[i] = calls[i]
    BY <1>6, <1>7, ConcatAt
  <2> HIDE DEF items
  <2> QED
    BY <2>1 DEF Range
<1> HIDE DEF items
<1>10. OutsideItems(items) = Range(items)
  BY <1>8, OutsideUnguarded DEF Unguarded, Good
<1>11. Executes = {}
  BY <1>2 DEF Executes
<1>12. ASSUME Unguarded(agenda) PROVE \A item \in Range(items) : Justified(executed, item)
  <2>1. \E p \in executed \cap DOMAIN Paths : action \in ActionsOf(p)
    BY <1>2, <1>12, TopJustified DEF Justified
  <2>2. \A item \in Range(items) : Good(item)
    BY <1>8 DEF Range
  <2> QED
    BY <2>1, <2>2 DEF Justified, Good
<1>13. Owed(V, executed, action)
  <2>1. \A f \in Range(fs) : Handled(V, executed, f)
    BY <1>4, <1>9 DEF Handled, Range
  <2>2. \E item \in V : item.do = "fan_out" /\ item.action = action
    BY <1>5, <1>9 DEF Good
  <2> QED
    BY <1>1, <2>1, <2>2 DEF Owed, fs
<1>14. Settled(Top, V, executed, executed)
  BY <1>2, <1>13 DEF Settled
<1>15. executed \cup {} = executed
  OBVIOUS
<1> QED
  BY <1>2, <1>8, <1>10, <1>11, <1>12, <1>14, <1>15, PushComplete

LEMMA PassOnComplete ==
    ASSUME TypeOK, OriginInv, CompleteInv, Remember, PassOn
    PROVE  CompleteInv'
<1> DEFINE action  == Top.action
           targets == action.paths \o action.queues
           items   == [i \in DOMAIN targets |->
                          ExecutePayload(targets[i], Top.kwargs, Top.depth + 1)]
           V       == Range(items) \cup Range(Rest)
<1>1. Reached("fan_out") /\ agenda' = items \o Rest /\ UNCHANGED <<dep, batch, n>>
      /\ phase' = phase /\ exc' = exc
  BY DEF PassOn, Proceed, loop
<1>2. /\ IsEntry(action) /\ action.kind = "Action" /\ agenda # << >> /\ Top.do = "fan_out"
      /\ phase = "run" /\ exc = NoException
  BY <1>1, TopDepth DEF IsItem, Reached
<1>3. IsList(action.paths) /\ IsList(action.queues)
  BY <1>2, EntryLists
<1>4. IsList(targets) /\ Range(targets) = Range(action.paths) \cup Range(action.queues)
  BY <1>3, ConcatList, RangeOfConcat
<1> HIDE DEF targets
<1>5. IsList(items) /\ DOMAIN items = DOMAIN targets
  BY <1>4, MappedList
<1>6. \A i \in DOMAIN items : items[i].do = "execute_payload" /\ items[i].target = targets[i]
  BY DEF ExecutePayload
<1> HIDE DEF items
<1>7. OutsideItems(items) = Range(items)
  BY <1>6, OutsideUnguarded DEF Unguarded
<1>8. Executes = {}
  BY <1>2 DEF Executes
<1>9. ASSUME Unguarded(agenda) PROVE \A item \in Range(items) : Justified(executed, item)
  <2>1. PICK p \in executed \cap DOMAIN Paths : action \in ActionsOf(p)
    BY <1>2, <1>9, TopJustified DEF Justified
  <2>2. \A i \in DOMAIN items : items[i].target \in Parts(action)
    BY <1>4, <1>5, <1>6 DEF Parts, Range
  <2>3. \A i \in DOMAIN items : Asked(executed, items[i].target)
    BY <1>2, <2>1, <2>2 DEF Asked
  <2> QED
    BY <1>6, <2>3 DEF Justified, Range
<1>10. \A x \in Range(action.paths) \cup Range(action.queues) : Handled(V, executed, x)
  <2>1. ASSUME NEW i \in DOMAIN targets PROVE Handled(V, executed, targets[i])
    BY <1>5, <1>6 DEF Handled, Range
  <2> QED
    BY <1>4, <2>1 DEF Range
<1>11. Settled(Top, V, executed, executed)
  BY <1>2, <1>10 DEF Settled
<1>12. executed \cup {} = executed
  OBVIOUS
<1> QED
  BY <1>1, <1>2, <1>5, <1>7, <1>8, <1>9, <1>11, <1>12, PushComplete

-----------------------------------------------------------------------------
(* All the other steps.                                                    *)

LEMMA FunctionsComplete ==
    ASSUME TypeOK, OriginInv, CompleteInv, Remember, Functions
    PROVE  CompleteInv'
<1>1. ASSUME NEW do, Reached(do)
      PROVE  agenda # << >> /\ phase = "run" /\ Top.do = do /\ exc = NoException
  BY <1>1 DEF Reached
<1>2. CASE RejectAction \/ NotAnAction \/ NotAFunction \/ PassOnFails \/ PassOnToNoQueue
  BY <1>1, <1>2, RaiseComplete, ExceptionKinds
     DEF RejectAction, NotAnAction, NotAFunction, PassOnFails, PassOnToNoQueue
<1>3. ASSUME NEW before, NEW kind \in Exception, Reached("call_function"),
             Raise(kind, "function", << LeaveTry(before, Top.depth) >>)
      PROVE  CompleteInv'
  <2> DEFINE item == LeaveTry(before, Top.depth)
  <2>1. /\ agenda' = << item >> \o Rest /\ item.do = "leave_try" /\ phase' = "run"
        /\ exc'.kind = kind /\ UNCHANGED <<dep, batch, n>>
    BY <1>1, <1>3 DEF Raise, LeaveTry, loop
  <2>2. kind # "nothing"
    BY DEF Exception, LPBaseException
  <2> HIDE DEF item
  <2>3. IsList(<< item >>) /\ \A i \in DOMAIN << item >> : ~Outside(<< item >>, i)
    <3>1. IsList(<< item >>) /\ DOMAIN << item >> \subseteq Int
          /\ \A i \in DOMAIN << item >> : << item >>[i] = item
      BY SingletonList
    <3> QED
      BY <2>1, <3>1 DEF Outside
  <2> QED
    BY <1>3, <2>1, <2>2, <2>3, TriedComplete
<1>4. CASE CallFails
  BY <1>3, <1>4, ExceptionKinds DEF CallFails
<1>5. ASSUME NEW f \in Func, NEW outcome \in Does[f],
             FunctionRaises(outcome) \/ ReturnsInvalid(outcome)
      PROVE  CompleteInv'
  <2>1. FunctionRaises(outcome) => outcome.raises \in Exception
    BY PipelineAssumption DEF IsOutcome, FunctionRaises
  <2> QED
    BY <1>3, <1>5, <2>1, ExceptionKinds DEF FunctionRaises, ReturnsInvalid, Calling
<1>6. ASSUME NEW f \in Func, NEW outcome \in Does[f], FunctionReturns(outcome)
      PROVE  CompleteInv'
  <2> DEFINE ps    == outcome.payloads
             calls == [i \in DOMAIN ps |->
                          ExecutePayload(ps[i].target, ps[i].kwargs, Top.depth + 1)]
             last  == LeaveTry(outcome.returns, Top.depth)
             items == calls \o << last >>
  <2>1. /\ Reached("call_function") /\ agenda' = items \o Rest
        /\ UNCHANGED <<dep, batch, n>> /\ phase' = "run" /\ exc' = NoException
    BY <1>6 DEF FunctionReturns, Calling, Proceed, Reached, loop
  <2>2. IsList(ps)
    BY PipelineAssumption DEF IsOutcome
  <2>3. last.do = "leave_try"
    BY DEF LeaveTry
  <2> HIDE DEF ps
  <2>4. IsList(calls)
    BY <2>2, MappedList
  <2> HIDE DEF calls, last
  <2>5. IsList(<< last >>) /\ Len(<< last >>) = 1 /\ << last >>[1] = last
    BY SingletonList
  <2>6. /\ IsList(items) /\ Len(calls) \in Nat /\ DOMAIN items = 1 .. Len(calls) + 1
        /\ items[Len(calls) + 1] = last
    BY <2>4, <2>5, ConcatList, ConcatAt
  <2> HIDE DEF items
  <2>7. ASSUME NEW i \in DOMAIN items PROVE ~Outside(items, i)
    <3>1. Len(calls) + 1 \in DOMAIN items /\ Len(calls) + 1 >= i
      BY <2>6
    <3> QED
      BY <2>3, <2>6, <3>1 DEF Outside
  <2> QED
    BY <2>1, <2>6, <2>7, TriedComplete
<1>7. CASE EndTry
  <2>1. /\ agenda # << >> /\ phase = "run" /\ Top.do = "leave_try" /\ exc = NoException
        /\ agenda' = << >> \o Rest /\ UNCHANGED <<dep, batch, n>>
        /\ phase' = "run" /\ exc' = NoException
    BY <1>1, <1>7 DEF EndTry, Proceed, loop
  <2>2. ~Unguarded(agenda)
    BY <2>1, OutsideOfAgenda
  <2>3. IsList(<< >>)
    BY EmptyStack DEF IsStack
  <2> QED
    BY <2>1, <2>2, <2>3, GuardedComplete DEF Doomed
<1> QED
  BY <1>2, <1>4, <1>5, <1>6, <1>7, AcceptComplete, PassOnComplete DEF Functions

LEMMA HandlersComplete ==
    ASSUME TypeOK, CompleteInv, Remember, Handlers
    PROVE  CompleteInv'
<1>1. /\ phase = "run" /\ exc # NoException /\ agenda # << >> /\ phase' = "run"
      /\ UNCHANGED <<dep, batch, n>> /\ executed' = executed
  BY Remembered DEF Handlers, Unwind, Swallow, SwallowFails, Unwinding, Raise, loop
<1>2. IsList(<< >>) /\ << >> \o Rest = Rest /\ IsList(Rest)
  <2>1. IsList(Rest) /\ Rest \in Seq(Range(Rest))
    BY <1>1, OutsideOfAgenda DEF IsList
  <2> QED
    BY <2>1, EmptyStack, ConcatEmptySeq DEF IsStack
<1>3. CASE Unwind
  <2>1. agenda' = << >> \o Rest /\ exc' = exc /\ ~AtHandler
    BY <1>2, <1>3 DEF Unwind
  <2>2. Doomed => Doomed'
    BY <1>1, <1>2, <2>1, OutsideOfAgenda DEF Doomed, Unguarded
  <2>3. exc.kind = "nothing" => exc = NoException
    BY <1>1 DEF CompleteInv
  <2>4. CASE ~Unguarded(agenda)
    BY <1>1, <1>2, <2>1, <2>2, <2>3, <2>4, GuardedComplete
  <2>5. CASE Unguarded(agenda)
    <3>1. Doomed'
      BY <1>1, <2>2, <2>5 DEF Doomed
    <3>2. /\ OutsideItems(agenda) = {Top} \cup Range(Rest)
          /\ OutsideItems(agenda') = Range(Rest)
      BY <1>1, <1>2, <2>1, <2>5, OutsideOfAgenda, OutsideUnguarded
    <3>3. Sound(OutsideItems(agenda'), executed')
      BY <1>1, <3>2 DEF CompleteInv, Sound
    <3> QED
      BY <1>1, <2>1, <2>3, <3>1, <3>3, NextComplete
  <2> QED
    BY <2>4, <2>5
<1>4. ASSUME AtHandler PROVE ~Unguarded(agenda) /\ ~Doomed
  BY <1>1, <1>4, OutsideOfAgenda DEF AtHandler, Doomed
<1>5. CASE Swallow
  BY <1>1, <1>2, <1>4, <1>5, GuardedComplete DEF Swallow
<1>6. CASE SwallowFails
  <2>1. PICK kind \in HandlerRaises : Raise(kind, "exception_handler", << >>)
    BY <1>6 DEF SwallowFails
  <2>2. agenda' = << >> \o Rest /\ exc'.kind = kind /\ kind # "nothing"
    BY <2>1, ExceptionKinds DEF Raise, Exception, LPBaseException
  <2>3. ~Unguarded(agenda) /\ ~Doomed
    BY <1>4, <1>6 DEF SwallowFails
  <2> QED
    BY <1>1, <1>2, <2>2, <2>3, GuardedComplete
<1> QED
  BY <1>3, <1>5, <1>6 DEF Handlers

LEMMA TakeComplete ==
    ASSUME TypeOK, FlightInv, CompleteInv, Remember, Take
    PROVE  CompleteInv'
<1> DEFINE item == ParseRecord(Upcoming)
<1>1. /\ phase' = "run" /\ agenda = << >> /\ agenda' = << item >> /\ item.do = "parse_record"
      /\ exc' = NoException
  BY DEF Take, ParseRecord, TypeOK, FlightInv
<1> HIDE DEF item
<1>2. executed' = {}
  BY <1>1 DEF Remember, CompleteInv, Take
<1>3. OutsideItems(agenda') = {item}
  <2>1. Unguarded(agenda') /\ Range(agenda') = {item}
    BY <1>1, SingletonList DEF Unguarded, Range
  <2> QED
    BY <2>1, OutsideUnguarded
<1>4. OutsideItems(agenda)' = {item}
  BY <1>3 DEF OutsideItems, Outside
<1>5. Sound(OutsideItems(agenda), executed)' /\ Owes(OutsideItems(agenda), executed)'
  BY <1>1, <1>2, <1>4 DEF Sound, Justified, Owes
<1> QED
  BY <1>1, <1>5 DEF CompleteInv

LEMMA ParseComplete ==
    ASSUME TypeOK, OriginInv, CompleteInv, Remember, ParseToPayload \/ FailToParse
    PROVE  CompleteInv'
<1>1. /\ agenda # << >> /\ phase = "run" /\ exc = NoException /\ Top.do = "parse_record"
  BY DEF ParseToPayload, FailToParse, Reached
<1>2. CASE ParseToPayload
  <2> DEFINE item == ExecutePayload(PathOf(Top.record), Top.record.kwargs, 1)
  <2>1. /\ agenda' = << item >> \o Rest /\ UNCHANGED <<dep, batch, n>>
        /\ phase' = "run" /\ exc' = NoException
    BY <1>1, <1>2 DEF ParseToPayload, Proceed, loop
  <2>2. Top.record = batch[n]
    BY <1>1, TopDeployed DEF OriginInv, IsDeployed
  <2>3. item.do = "execute_payload" /\ item.target = PathOf(batch[n])
    BY <2>2 DEF ExecutePayload
  <2> HIDE DEF item
  <2>4. IsList(<< item >>) /\ OutsideItems(<< item >>) = {item}
    <3>1. Unguarded(<< item >>) /\ Range(<< item >>) = {item}
      BY <2>3, SingletonList DEF Unguarded, Range
    <3> QED
      BY <3>1, SingletonList, OutsideUnguarded
  <2>5. Executes = {}
    BY <1>1 DEF Executes
  <2>6. Justified(executed, item)
    BY <2>3 DEF Justified, Asked
  <2>7. Settled(Top, {item} \cup Range(Rest), executed, executed)
    BY <1>1, <2>3 DEF Settled, Handled
  <2>8. executed \cup {} = executed
    OBVIOUS
  <2> QED
    BY <1>1, <2>1, <2>4, <2>5, <2>6, <2>7, <2>8, PushComplete
<1>3. CASE FailToParse
  BY <1>1, <1>3, RaiseComplete, ExceptionKinds DEF FailToParse
<1> QED
  BY <1>2, <1>3

LEMMA StepComplete ==
    TypeOK /\ OriginInv /\ FlightInv /\ CompleteInv /\ [HNext]_hvars => CompleteInv'
<1> SUFFICES ASSUME TypeOK, OriginInv, FlightInv, CompleteInv, [HNext]_hvars
             PROVE  CompleteInv'
  OBVIOUS
<1>1. ASSUME Remember, phase' # "run" PROVE CompleteInv'
  BY <1>1 DEF Remember, CompleteInv
<1>2. CASE UNCHANGED hvars
  <2>1. /\ UNCHANGED <<dep, batch, n, phase, agenda, exc, executed>>
    BY <1>2 DEF hvars, vars
  <2>2. CASE phase = "run"
    BY <2>1, <2>2, NextComplete DEF CompleteInv, Doomed, Unguarded
  <2>3. CASE phase # "run"
    BY <2>1, <2>3 DEF CompleteInv
  <2> QED
    BY <2>2, <2>3
<1>3. CASE HNext
  <2>1. Remember /\ Next
    BY <1>3 DEF HNext
  <2>2. ASSUME NEW event \in Events, Invoke(event) \/ Refuse(event) PROVE phase' # "run"
    BY <2>2 DEF Invoke, Refuse, Start
  <2>3. CASE \/ Undecodable \/ Succeed \/ DropRecord \/ FailRecord \/ EscapeRecord
             \/ HandlerFailsOnRecord \/ Finish \/ FinishFailed \/ Kill
    <3>1. phase' # "run"
      BY <2>3 DEF Undecodable, Succeed, DropRecord, FailRecord, Settle, EscapeRecord,
                  HandlerFailsOnRecord, Outermost, Finish, FinishFailed, Kill
    <3> QED
      BY <1>1, <2>1, <3>1
  <2> QED
    BY <1>1, <2>1, <2>2, <2>3, TakeComplete, ParseComplete, PayloadsComplete,
       FunctionsComplete, HandlersComplete
       DEF Next, Work
<1> QED
  BY <1>2, <1>3

LEMMA InitComplete == HInit => CompleteInv
BY DEF HInit, Init, CompleteInv

LEMMA OnlySucceed ==
    ASSUME Next, NEW x \in successful', x \notin successful
    PROVE  Succeed
<1>1. ASSUME NEW event \in Events PROVE ~Invoke(event) /\ ~Refuse(event)
  BY DEF Invoke, Refuse, Start
<1>2. CASE \/ Payloads \/ Functions \/ ParseToPayload \/ FailToParse \/ Handlers
  <2>1. UNCHANGED loop
    BY <1>2, RunningStep DEF Handlers, Unwind, Swallow, Raising, Proceeding, Raise, Proceed
  <2> QED
    BY <2>1 DEF loop
<1>3. CASE \/ Take \/ Undecodable \/ DropRecord \/ FailRecord \/ EscapeRecord
           \/ HandlerFailsOnRecord \/ Finish \/ FinishFailed \/ Kill
  BY <1>3 DEF Take, Undecodable, DropRecord, FailRecord, Settle, EscapeRecord,
              HandlerFailsOnRecord, Finish, FinishFailed, Respond, Kill, loop
<1> QED
  BY <1>1, <1>2, <1>3 DEF Next, Work

\* With nothing left on the stack, what is owed was executed.
LEMMA NothingOwed ==
    ASSUME NEW E, Owes({}, E), Sound({}, E)
    PROVE  /\ PathOf(batch[n]) \in E
           /\ \A p \in E \cap DOMAIN Paths : \A action \in ActionsOf(p) :
                 action.kind = "Action" /\ Parts(action) \subseteq E
           /\ \A x \in E : Asked(E, x)
BY DEF Owes, Owed, Handled, Sound, Parts

(***************************************************************************)
(* pipeline.py:182-186, 232-267, 300-341: for all paths, functions and     *)
(* Payloads, whatever fails and is swallowed on the way, a record only     *)
(* counts as a success once its path, and with each path all parts of all  *)
(* its Actions, was executed, and nothing else outside of functions.       *)
(***************************************************************************)
THEOREM SuccessesAreComplete == HSpec => SuccessIsComplete
<1> DEFINE Whole ==
               /\ PathOf(batch[n]) \in executed
               /\ \A p \in executed \cap DOMAIN Paths : \A action \in ActionsOf(p) :
                     action.kind = "Action" /\ Parts(action) \subseteq executed
               /\ \A x \in executed : Requested(x)
<1>1. TypeOK /\ CompleteInv /\ [HNext]_hvars =>
          [successful' \ successful # {} => Whole]_hvars
  <2> SUFFICES ASSUME TypeOK, CompleteInv, HNext, successful' \ successful # {}
               PROVE  Whole
    OBVIOUS
  <2>1. Succeed
    BY OnlySucceed DEF HNext
  <2>2. phase = "run" /\ agenda = << >> /\ exc.kind = "nothing"
    BY <2>1 DEF Succeed, AtRecord
  <2>3. OutsideItems(agenda) = {}
    BY <2>2, EmptySeq DEF OutsideItems
  <2>4. Sound({}, executed) /\ Owes({}, executed)
    BY <2>2, <2>3 DEF CompleteInv, Doomed
  <2>5. \A x \in executed : Asked(executed, x) => Requested(x)
    BY DEF Asked, Requested
  <2>6. /\ PathOf(batch[n]) \in executed
        /\ \A p \in executed \cap DOMAIN Paths : \A action \in ActionsOf(p) :
              action.kind = "Action" /\ Parts(action) \subseteq executed
        /\ \A x \in executed : Asked(executed, x)
    BY <2>4, NothingOwed
  <2> QED
    BY <2>5, <2>6
<1>2. HSpec => HInit /\ [][HNext]_hvars
  BY PTL DEF HSpec
<1>3. HInit => Init
  BY DEF HInit
<1>4. [HNext]_hvars => [Next]_vars
  BY DEF HNext, hvars
<1>5. [][successful' \ successful # {} => Whole]_hvars => SuccessIsComplete
  BY DEF SuccessIsComplete
<1> HIDE DEF Whole
<1> QED
  BY <1>1, <1>2, <1>3, <1>4, <1>5, InitType, StepType, InitOrigins, StepOrigins, InitFlight,
     StepFlight, InitComplete, StepComplete, PTL

LEMMA ChainsAreExecuted ==
    ASSUME NEW E, PathOf(batch[n]) \in E,
           \A p \in E \cap DOMAIN Paths : \A action \in ActionsOf(p) : Parts(action) \subseteq E,
           NEW depth \in Nat \ {0}, NEW target, Chain(PassesOn, target, depth)
    PROVE  target \in E
<1>1. PICK chain \in [1 .. depth -> Nodes(PassesOn)] :
          /\ chain[1] = PathOf(batch[n]) /\ chain[depth] = target
          /\ \A i \in 1 .. depth - 1 : <<chain[i], chain[i + 1]>> \in PassesOn
  BY DEF Chain
<1> DEFINE T == {i \in 1 .. depth : chain[i] \notin E}
<1>2. SUFFICES ASSUME T # {} PROVE FALSE
  BY <1>1
<1>3. PICK i \in T : \A j \in T : <<j, i>> \notin OpToRel(<, Nat)
  <2>1. T \subseteq Nat
    OBVIOUS
  <2> HIDE DEF T
  <2> QED
    BY <1>2, <2>1, NatLessThanWellFounded, WFMin
<1>4. i \in 1 .. depth /\ chain[i] \notin E /\ \A j \in T : ~(j < i)
  <2>1. T \subseteq Nat /\ i \in 1 .. depth /\ chain[i] \notin E
    OBVIOUS
  <2> HIDE DEF T
  <2>2. \A j \in T : ~(j < i)
    BY <1>3, <2>1 DEF OpToRel
  <2> QED
    BY <2>1, <2>2
<1>5. i # 1 /\ i - 1 \in 1 .. depth - 1 /\ (i - 1) + 1 = i
  BY <1>1, <1>4
<1>6. i - 1 \in 1 .. depth /\ i - 1 < i
  BY <1>5
<1>7. chain[i - 1] \in E
  BY <1>4, <1>6
<1>8. <<chain[i - 1], chain[i]>> \in PassesOn
  BY <1>1, <1>5
<1>9. PICK action \in ActionsOf(chain[i - 1]) : chain[i] \in Parts(action)
  BY <1>8 DEF PassesOn, Parts
<1> QED
  BY <1>4, <1>7, <1>8, <1>9 DEF PassesOn

(***************************************************************************)
(* A record counts as a success only after each path and queue that its    *)
(* own path passes on to, over however many paths in between, was          *)
(* executed, or put on: no part of the fan-out is lost.                    *)
(***************************************************************************)
THEOREM SuccessesReachAll ==
    HSpec => [][successful' \ successful # {} =>
                    \A depth \in Nat \ {0} : \A target :
                        Chain(PassesOn, target, depth) => target \in executed]_hvars
<1> DEFINE Whole ==
               /\ PathOf(batch[n]) \in executed
               /\ \A p \in executed \cap DOMAIN Paths : \A action \in ActionsOf(p) :
                     action.kind = "Action" /\ Parts(action) \subseteq executed
               /\ \A x \in executed : Requested(x)
           All ==
               \A depth \in Nat \ {0} : \A target :
                   Chain(PassesOn, target, depth) => target \in executed
<1>1. Whole => All
  BY ChainsAreExecuted
<1>2. SuccessIsComplete => [][successful' \ successful # {} => Whole]_hvars
  BY DEF SuccessIsComplete
<1> HIDE DEF Whole, All
<1>3. [successful' \ successful # {} => Whole]_hvars => [successful' \ successful # {} => All]_hvars
  BY <1>1
<1>4. HSpec => [][successful' \ successful # {} => All]_hvars
  BY <1>2, <1>3, SuccessesAreComplete, PTL
<1> QED
  BY <1>4 DEF All

=============================================================================
