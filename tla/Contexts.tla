------------------------------ MODULE Contexts ------------------------------
(***************************************************************************)
(* The context managers of lpipe, nested in each other in any order and    *)
(* left by a return or by an exception: LPLogger.context saves and         *)
(* restores what is bound to the logger (lpipe/logging.py), utils.set_env  *)
(* environment variables, and contrib.sentry.scope the tags of sentry's    *)
(* current scope.                                                          *)
(*                                                                         *)
(* A context of the logger is an object that may be entered again, since   *)
(* LoggerContext is a ContextDecorator: a decorated function enters the    *)
(* same object at every call, also when it calls itself.                   *)
(***************************************************************************)
EXTENDS Naturals, Sequences

CONSTANTS
    Name, Value,     \* what is bound to the logger
    Unbound,
    Ctx,             \* the LoggerContext objects
    Binds,           \* Binds[c]: their bind, by name
    Action,          \* those with an action, which log "start:" and "finish:"
    None,            \* Python's None, where a logger should be
    Var, EnvValue,   \* environment variables and their values
    Empty,           \* the empty string, one of the values
    Unset,
    Invalid,         \* a value os.environ does not take
    Envs,            \* the arguments of set_env
    Dsn,             \* the variable SENTRY_DSN
    Tag,             \* contexts push_context is given
    MaxOpen          \* how deep with statements are nested, for TLC

Bindings == [Name -> Value \cup {Unbound}]
Environment == [Var -> EnvValue \cup {Unset}]

ASSUME ContextsAssumption ==
    /\ "duration" \in Name /\ Value # {}
    /\ Binds \in [Ctx -> Bindings]
    /\ Action \subseteq Ctx
    /\ None \notin Bindings
    /\ Empty \in EnvValue
    /\ Unset \notin EnvValue /\ Invalid \notin EnvValue
    /\ Dsn \in Var
    /\ \A e \in Envs : DOMAIN e \subseteq Var
                       /\ \A k \in DOMAIN e : e[k] \in EnvValue \cup {Invalid}
    /\ MaxOpen \in Nat

VARIABLES
    bound,       \* log._logger: what is bound to it, or None
    initial,     \* initial_log_logger of every context object
    started,     \* the context objects whose start is not None
    environ,     \* os.environ
    tags,        \* the tags of sentry's current scope
    open,        \* the with statements that are open, innermost last
    baseBound,   \* history: bindings made outside of all contexts
    baseEnv,     \* history: variables as set where no set_env covers them
    forgotten,   \* history: variables a set_env that failed has deleted
    spoiled      \* history: a context was entered while open, or its log raised

logger  == <<bound, initial, started, baseBound, spoiled>>
environment == <<environ, baseEnv, forgotten>>
vars == <<logger, environment, tags, open>>

Logging(c)  == [kind |-> "logger", ctx |-> c, found |-> bound]
Setting(e)  == [kind |-> "env", env |-> e, state |-> [k \in DOMAIN e |-> environ[k]]]
Scope       == [kind |-> "sentry", found |-> tags]

Of(kind) == {i \in DOMAIN open : open[i].kind = kind}
Covers(i, k) == i \in Of("env") /\ k \in DOMAIN open[i].env

Innermost == open[Len(open)]
Inside(kind) == open # << >> /\ Innermost.kind = kind

Enter(frame) == Len(open) < MaxOpen /\ open' = Append(open, frame)
Leave == open' = SubSeq(open, 1, Len(open) - 1)

Init ==
    /\ bound \in Bindings /\ baseBound = bound
    /\ initial = [c \in Ctx |-> None] /\ started = {}
    /\ environ \in Environment /\ baseEnv = environ
    /\ tags = {} /\ open = << >>
    /\ forgotten = {} /\ spoiled = FALSE

-----------------------------------------------------------------------------
(* The logger and its contexts.                                            *)

\* bind and unbind, which is a KeyError for a name that is not bound.
Bind ==
    /\ bound # None
    /\ \E x \in Name, v \in Value \cup {Unbound} :
          /\ v # bound[x]
          /\ bound' = [bound EXCEPT ![x] = v]
    /\ baseBound' = IF Of("logger") = {} THEN bound' ELSE baseBound
    /\ UNCHANGED <<initial, started, spoiled, environment, tags, open>>

With(c) ==
    [x \in Name |-> IF Binds[c][x] # Unbound THEN Binds[c][x] ELSE bound[x]]

IsOpen(c) == \E i \in Of("logger") : open[i].ctx = c

\* A logger that is None raises whatever is asked of it.
EnterContext(c) ==
    /\ bound # None
    /\ Enter(Logging(c))
    /\ initial' = [initial EXCEPT ![c] = bound]
    /\ bound' = With(c)
    /\ started' = started \cup {c}
    /\ spoiled' = (spoiled \/ IsOpen(c))
    /\ UNCHANGED <<baseBound, environment, tags>>

\* The "start:" log raises, and __exit__ is not called.
EnterContextFails(c) ==
    /\ bound # None /\ c \in Action
    /\ initial' = [initial EXCEPT ![c] = bound]
    /\ bound' = With(c)
    /\ started' = started \cup {c}
    /\ spoiled' = TRUE
    /\ UNCHANGED <<baseBound, environment, tags, open>>

Finishes(c) == c \in started /\ bound # None

\* Mutant: the saved logger is cleared before it is put back.
LeaveContextCleared(c) ==
    /\ Inside("logger") /\ Innermost.ctx = c
    /\ c \in Action => Finishes(c)
    /\ bound' = None
    /\ initial' = [initial EXCEPT ![c] = None]
    /\ started' = started \ {c}
    /\ Leave
    /\ UNCHANGED <<baseBound, spoiled, environment, tags>>

\* Mutant: what the context bound is unbound, instead of restored.
LeaveContextUnbinds(c) ==
    /\ Inside("logger") /\ Innermost.ctx = c
    /\ c \in Action => Finishes(c)
    /\ bound' = IF bound = None THEN None
                ELSE [x \in Name |-> IF Binds[c][x] # Unbound THEN Unbound ELSE bound[x]]
    /\ initial' = [initial EXCEPT ![c] = None]
    /\ started' = started \ {c}
    /\ Leave
    /\ UNCHANGED <<baseBound, spoiled, environment, tags>>

LeaveContext(c) ==
    /\ Inside("logger") /\ Innermost.ctx = c
    /\ c \in Action => Finishes(c)
    /\ bound' = initial[c]
    /\ initial' = [initial EXCEPT ![c] = None]
    /\ started' = started \ {c}
    /\ Leave
    /\ UNCHANGED <<baseBound, spoiled, environment, tags>>

\* There is no start to subtract, no logger to bind to, or the "finish:" log
\* raises: the exception leaves __exit__ before it has restored the logger.
LeaveContextFails(c) ==
    /\ Inside("logger") /\ Innermost.ctx = c /\ c \in Action
    /\ \E v \in Value :
          bound' = IF Finishes(c) THEN [bound EXCEPT !["duration"] = v] ELSE bound
    /\ spoiled' = TRUE
    /\ Leave
    /\ UNCHANGED <<initial, started, baseBound, environment, tags>>

-----------------------------------------------------------------------------
(* set_env.                                                                *)

Covered(k) == \E i \in DOMAIN open : Covers(i, k)

\* The environment changed by anything else; what a set_env covers is put
\* back at its end.
SetVariable(k, v) ==
    /\ environ' = [environ EXCEPT ![k] = v]
    /\ baseEnv' = IF Covered(k) THEN baseEnv ELSE [baseEnv EXCEPT ![k] = v]
    /\ forgotten' = IF Covered(k) THEN forgotten ELSE forgotten \ {k}
    /\ UNCHANGED <<logger, tags, open>>

Valid(e) == \A k \in DOMAIN e : e[k] # Invalid

SetEnv(e) ==
    /\ Valid(e)
    /\ Enter(Setting(e))
    /\ environ' = [k \in Var |-> IF k \in DOMAIN e THEN e[k] ELSE environ[k]]
    /\ UNCHANGED <<baseEnv, forgotten, logger, tags>>

\* _set_env raises half-way, its state is lost, and _reset_env deletes every
\* variable of env, those it has not come to included.
SetEnvFails(e) ==
    /\ ~Valid(e)
    /\ environ' = [k \in Var |-> IF k \in DOMAIN e THEN Unset ELSE environ[k]]
    /\ forgotten' = forgotten \cup {k \in DOMAIN e : ~Covered(k)}
    /\ UNCHANGED <<baseEnv, logger, tags, open>>

\* Mutant: what was saved is written back without a look at it.
ResetEnvNone ==
    /\ Inside("env")
    /\ environ' = [k \in Var |->
                      IF k \notin DOMAIN Innermost.env THEN environ[k]
                      ELSE IF Innermost.state[k] = Unset THEN "None"
                      ELSE Innermost.state[k]]
    /\ Leave
    /\ UNCHANGED <<baseEnv, forgotten, logger, tags>>

\* Mutant: variables that were not set before are left as they are.
ResetEnvKeeps ==
    /\ Inside("env")
    /\ environ' = [k \in Var |->
                      IF k \in DOMAIN Innermost.env /\ Innermost.state[k] \notin {Unset, Empty}
                      THEN Innermost.state[k] ELSE environ[k]]
    /\ Leave
    /\ UNCHANGED <<baseEnv, forgotten, logger, tags>>

\* _reset_env: what was the empty string before is deleted.
ResetEnv ==
    /\ Inside("env")
    /\ environ' = [k \in Var |->
                      IF k \notin DOMAIN Innermost.env THEN environ[k]
                      ELSE IF Innermost.state[k] = Empty THEN Unset
                      ELSE Innermost.state[k]]
    /\ Leave
    /\ UNCHANGED <<baseEnv, forgotten, logger, tags>>

-----------------------------------------------------------------------------
(* sentry's scope: without a DSN the generator does not yield, and with    *)
(* raises a RuntimeError instead of running the block.                     *)

EnterScope(t) ==
    /\ environ[Dsn] \notin {Unset, Empty}
    /\ Enter(Scope)
    /\ tags' = tags \cup {t}
    /\ UNCHANGED <<logger, environment>>

LeaveScope ==
    /\ Inside("sentry")
    /\ tags' = Innermost.found
    /\ Leave
    /\ UNCHANGED <<logger, environment>>

-----------------------------------------------------------------------------

Next ==
    \/ Bind
    \/ \E c \in Ctx : EnterContext(c) \/ EnterContextFails(c)
                      \/ LeaveContext(c) \/ LeaveContextFails(c)
    \/ \E k \in Var, v \in EnvValue \cup {Unset} : SetVariable(k, v)
    \/ \E e \in Envs : SetEnv(e) \/ SetEnvFails(e)
    \/ ResetEnv
    \/ \E t \in Tag : EnterScope(t)
    \/ LeaveScope

Spec == Init /\ [][Next]_vars

-----------------------------------------------------------------------------

IsFrame(f) ==
    \/ f.kind = "logger" /\ f.ctx \in Ctx /\ f.found \in Bindings
    \/ f.kind = "env" /\ f.env \in Envs
       /\ f.state \in [DOMAIN f.env -> EnvValue \cup {Unset}]
    \/ f.kind = "sentry" /\ f.found \subseteq Tag

TypeOK ==
    /\ bound \in Bindings \cup {None}
    /\ initial \in [Ctx -> Bindings \cup {None}]
    /\ started \subseteq Ctx
    /\ environ \in Environment
    /\ tags \subseteq Tag
    /\ open \in Seq({open[i] : i \in DOMAIN open})
    /\ \A i \in DOMAIN open : IsFrame(open[i])
    /\ baseBound \in Bindings
    /\ baseEnv \in Environment
    /\ forgotten \subseteq Var
    /\ spoiled \in BOOLEAN

\* Equal, but for the empty string that set_env makes of "unset".
Amounts(v, w) == v = w \/ (v = Unset /\ w = Empty)

(***************************************************************************)
(* logging.py:118,141 ("return the logger to its original state"): leaving *)
(* a context gives back what was bound when it was entered, whatever was   *)
(* entered, bound and unbound in between, unless a context was entered     *)
(* again while it was open or a log of its own raised.                     *)
(***************************************************************************)
LoggerRestored ==
    [][Inside("logger") /\ Len(open') < Len(open) /\ ~spoiled' =>
          bound' = Innermost.found]_vars

(***************************************************************************)
(* logging.py:147-149: under the same condition there always is a logger   *)
(* to log to; otherwise it may be None for the rest of the container's     *)
(* life.                                                                   *)
(***************************************************************************)
LoggerIsThere == ~spoiled => bound # None

(***************************************************************************)
(* logging.py:115-149, utils.py:37-52, sentry.py:38-43: outside of all     *)
(* blocks nothing of them is left.  What is bound was bound there; a       *)
(* variable that no set_env covers is as it was, but for empty values and  *)
(* for those a set_env deleted that failed; sentry's tags are gone.        *)
(***************************************************************************)
NothingLeaks ==
    /\ Of("logger") = {} /\ ~spoiled => bound = baseBound
    /\ \A k \in Var \ forgotten : ~Covered(k) => Amounts(environ[k], baseEnv[k])
    /\ Of("sentry") = {} => tags = {}

=============================================================================
