--------------------------- MODULE PipelineHistory ---------------------------
(***************************************************************************)
(* Pipeline with a history variable: what was executed for the record in   *)
(* work, outside of the try block of any function.  No step of Pipeline    *)
(* depends on it, each only determines its next value, and it says what a  *)
(* success is worth.                                                       *)
(***************************************************************************)
EXTENDS Pipeline

\* executed tells a function from a path by its name.
ASSUME HistoryAssumption == Func \cap Path = {}

VARIABLE executed  \* paths, queues and functions

hvars == <<vars, executed>>

OutsideFunctions == \A i \in DOMAIN agenda : agenda[i].do # "leave_try"

\* A path or a queue once execute_payload did not fail, a function once it was
\* tried, whatever came of that.
Executes ==
    IF Top.do = "call_function" THEN {Top.f}
    ELSE IF Top.do = "execute_payload" /\ exc' = NoException THEN {Top.target}
    ELSE {}

\* A step within a record takes the innermost item from the stack.
Remember ==
    executed' =
        IF phase' # "run" THEN {}
        ELSE IF exc = NoException /\ agenda # << >> /\ OutsideFunctions
             THEN executed \cup Executes
        ELSE executed

HInit == Init /\ executed = {}

HNext == Next /\ Remember

HSpec == HInit /\ [][HNext]_hvars /\ WF_vars(Work)

-----------------------------------------------------------------------------

\* What an Action's functions, paths and queues are.
Parts(action) == Range(action.functions) \cup Range(action.paths) \cup Range(action.queues)

\* x is the record's own path, or part of an Action of a path that was executed.
Requested(x) ==
    \/ x = PathOf(batch[n])
    \/ \E p \in executed \cap DOMAIN Paths : \E action \in ActionsOf(p) :
          action.kind = "Action" /\ x \in Parts(action)

(***************************************************************************)
(* pipeline.py:182-186, 232-267, 300-341: a record is counted as a success *)
(* only after its path was executed, and with each path all functions,     *)
(* paths and queues of all its Actions, whichever of the functions failed  *)
(* and were skipped on the way, whatever they returned, and however their  *)
(* Payloads ended; and after nothing else was executed outside of them.    *)
(***************************************************************************)
SuccessIsComplete ==
    [][successful' \ successful # {} =>
        /\ PathOf(batch[n]) \in executed
        /\ \A p \in executed \cap DOMAIN Paths : \A action \in ActionsOf(p) :
              action.kind = "Action" /\ Parts(action) \subseteq executed
        /\ \A x \in executed : Requested(x)]_hvars

=============================================================================
