--------------------------- MODULE ContextsProofs ---------------------------
(***************************************************************************)
(* What holds of Contexts for any names, values, context objects and       *)
(* environments, and for any depth of nesting.                             *)
(***************************************************************************)
EXTENDS Contexts, TLAPS

-----------------------------------------------------------------------------
(* The stack of open blocks.                                                *)

IsList(s) == s \in Seq({s[i] : i \in DOMAIN s})

LEMMA ListIsList ==
    ASSUME NEW S, NEW s \in Seq(S)
    PROVE  IsList(s) /\ DOMAIN s = 1 .. Len(s) /\ Len(s) \in Nat
  BY DEF IsList

LEMMA Push ==
    ASSUME IsList(open), NEW f, open' = Append(open, f)
    PROVE  /\ IsList(open')
           /\ DOMAIN open = 1 .. Len(open) /\ Len(open) \in Nat
           /\ DOMAIN open' = 1 .. Len(open) + 1
           /\ \A i \in 1 .. Len(open) : open'[i] = open[i]
           /\ open'[Len(open) + 1] = f
<1> DEFINE S == {open[i] : i \in DOMAIN open} \cup {f}
<1>1. open \in Seq(S)
  BY DEF IsList
<1>2. open' \in Seq(S) /\ f \in S
  BY <1>1
<1> HIDE DEF S
<1>3. IsList(open')
  BY <1>2, ListIsList
<1> QED
  BY <1>1, <1>2, <1>3

LEMMA Pop ==
    ASSUME IsList(open), open # << >>, Leave
    PROVE  /\ IsList(open')
           /\ Len(open) \in Nat \ {0} /\ DOMAIN open = 1 .. Len(open)
           /\ DOMAIN open' = 1 .. Len(open) - 1
           /\ \A i \in 1 .. Len(open) - 1 : open'[i] = open[i]
<1> DEFINE S == {open[i] : i \in DOMAIN open}
<1>1. open \in Seq(S)
  BY DEF IsList
<1> HIDE DEF S
<1>2. Len(open) \in Nat \ {0}
  BY <1>1
<1>3. open' \in Seq(S)
  BY <1>1, <1>2 DEF Leave
<1>4. IsList(open')
  BY <1>3, ListIsList
<1> QED
  BY <1>1, <1>2, <1>4 DEF Leave

LEMMA TypeStep == TypeOK /\ [Next]_vars => TypeOK'
<1> SUFFICES ASSUME TypeOK, [Next]_vars PROVE TypeOK'
  OBVIOUS
<1> USE DEF TypeOK, logger, environment
<1>0. IsList(open)
  BY DEF IsList
<1>a. ASSUME NEW f, IsFrame(f), Enter(f)
      PROVE  open' \in Seq({open'[i] : i \in DOMAIN open'}) /\ \A i \in DOMAIN open' : IsFrame(open'[i])
  <2>1. open' = Append(open, f)
    BY <1>a DEF Enter
  <2>2. /\ IsList(open') /\ DOMAIN open' = 1 .. Len(open) + 1
        /\ open'[Len(open) + 1] = f
        /\ \A i \in 1 .. Len(open) : open'[i] = open[i] /\ i \in DOMAIN open
    BY <1>0, <2>1, Push
  <2>3. Len(open) \in Nat
    BY <1>0 DEF IsList
  <2> QED
    BY <1>a, <2>2, <2>3 DEF IsList
<1>b. ASSUME open # << >>, Leave
      PROVE  open' \in Seq({open'[i] : i \in DOMAIN open'}) /\ \A i \in DOMAIN open' : IsFrame(open'[i])
  <2>1. /\ IsList(open') /\ Len(open) \in Nat \ {0} /\ DOMAIN open = 1 .. Len(open)
        /\ DOMAIN open' = 1 .. Len(open) - 1
        /\ \A i \in 1 .. Len(open) - 1 : open'[i] = open[i]
    BY <1>0, <1>b, Pop
  <2>2. ASSUME NEW i \in DOMAIN open' PROVE IsFrame(open'[i])
    <3>1. i \in 1 .. Len(open) - 1 /\ i \in DOMAIN open
      BY <2>1
    <3>2. open'[i] = open[i] /\ IsFrame(open[i])
      BY <2>1, <3>1
    <3> QED
      BY <3>2
  <2> QED
    BY <2>1, <2>2 DEF IsList
<1>c. ASSUME open' = open
      PROVE  open' \in Seq({open'[i] : i \in DOMAIN open'}) /\ \A i \in DOMAIN open' : IsFrame(open'[i])
  BY <1>c DEF IsFrame
<1>d. ASSUME NEW kind, Inside(kind) PROVE open # << >> /\ IsFrame(Innermost) /\ Innermost.kind = kind
  BY <1>0, <1>d, ListIsList DEF Inside, Innermost, IsList
<1>1. CASE Bind
  BY <1>1, <1>c DEF Bind, Bindings
<1>2. ASSUME NEW c \in Ctx, EnterContext(c) \/ EnterContextFails(c) PROVE TypeOK'
  <2>1. With(c) \in Bindings /\ bound \in Bindings
    BY <1>2, ContextsAssumption DEF EnterContext, EnterContextFails, With, Bindings, ContextsAssumption
  <2>2. IsFrame(Logging(c))
    BY <2>1 DEF IsFrame, Logging
  <2> QED
    BY <1>2, <1>a, <1>c, <2>1, <2>2 DEF EnterContext, EnterContextFails
<1>3. ASSUME NEW c \in Ctx, LeaveContext(c) PROVE TypeOK'
  BY <1>3, <1>b, <1>d DEF LeaveContext
<1>4. ASSUME NEW c \in Ctx, LeaveContextFails(c) PROVE TypeOK'
  <2>1. bound' \in Bindings \cup {None}
    BY <1>4, ContextsAssumption DEF LeaveContextFails, Finishes, Bindings, ContextsAssumption
  <2> QED
    BY <1>4, <1>b, <1>d, <2>1 DEF LeaveContextFails
<1>5. ASSUME NEW k \in Var, NEW v \in EnvValue \cup {Unset}, SetVariable(k, v) PROVE TypeOK'
  BY <1>5, <1>c DEF SetVariable, Environment
<1>6. ASSUME NEW e \in Envs, SetEnv(e) \/ SetEnvFails(e) PROVE TypeOK'
  <2>1. DOMAIN e \subseteq Var /\ \A k \in DOMAIN e : e[k] \in EnvValue \cup {Invalid}
    BY ContextsAssumption DEF ContextsAssumption
  <2>2. IsFrame(Setting(e))
    BY <2>1 DEF IsFrame, Setting, Environment
  <2>3. environ' \in Environment
    BY <1>6, <2>1 DEF SetEnv, SetEnvFails, Valid, Environment
  <2> QED
    BY <1>6, <1>a, <1>c, <2>1, <2>2, <2>3 DEF SetEnv, SetEnvFails
<1>7. CASE ResetEnv
  <2>1. IsFrame(Innermost) /\ Innermost.kind = "env" /\ open # << >>
    BY <1>7, <1>d DEF ResetEnv
  <2>2. environ' \in Environment
    BY <1>7, <2>1 DEF ResetEnv, IsFrame, Environment
  <2> QED
    BY <1>7, <1>b, <2>1, <2>2 DEF ResetEnv
<1>8. ASSUME NEW t \in Tag, EnterScope(t) PROVE TypeOK'
  BY <1>8, <1>a DEF EnterScope, IsFrame, Scope
<1>9. CASE LeaveScope
  BY <1>9, <1>b, <1>d DEF LeaveScope, IsFrame
<1>10. CASE UNCHANGED vars
  BY <1>10, <1>c DEF vars
<1> QED
  BY <1>1, <1>2, <1>3, <1>4, <1>5, <1>6, <1>7, <1>8, <1>9, <1>10 DEF Next

(***************************************************************************)
(* Contexts: every variable and every open block keeps its type.           *)
(***************************************************************************)
THEOREM ContextsTypeCorrect == Spec => []TypeOK
<1>1. Init => TypeOK
  <2> SUFFICES ASSUME Init PROVE TypeOK
    OBVIOUS
  <2>1. open \in Seq({open[i] : i \in DOMAIN open}) /\ DOMAIN open = {}
    BY DEF Init
  <2> QED
    BY <2>1 DEF Init, TypeOK
<1> QED
  BY <1>1, TypeStep, PTL DEF Spec

-----------------------------------------------------------------------------
(* The blocks of one kind, when a block is entered or left.                 *)

LEMMA PushThis ==
    ASSUME IsList(open), NEW f, open' = Append(open, f), NEW kind, f.kind = kind
    PROVE  /\ Of(kind)' = Of(kind) \cup {Len(open) + 1}
           /\ open'[Len(open) + 1] = f
           /\ \A i \in Of(kind) : open'[i] = open[i] /\ i \in Nat /\ i < Len(open) + 1
           /\ Len(open) + 1 \in Nat
  BY Push DEF Of

LEMMA PushOther ==
    ASSUME IsList(open), NEW f, open' = Append(open, f), NEW kind, f.kind # kind
    PROVE  Of(kind)' = Of(kind) /\ \A i \in Of(kind) : open'[i] = open[i]
  BY Push DEF Of

LEMMA PopThis ==
    ASSUME IsList(open), NEW kind, Inside(kind), Leave
    PROVE  /\ Len(open) \in Of(kind) /\ open[Len(open)] = Innermost
           /\ Of(kind)' = Of(kind) \ {Len(open)}
           /\ \A i \in Of(kind)' : open'[i] = open[i]
           /\ \A i \in Of(kind) : i \in Nat /\ i <= Len(open)
           /\ Len(open) \in Nat
<1>1. open # << >> /\ open[Len(open)].kind = kind
  BY DEF Inside, Innermost
<1>2. /\ Len(open) \in Nat \ {0} /\ DOMAIN open = 1 .. Len(open)
      /\ DOMAIN open' = 1 .. Len(open) - 1
      /\ \A i \in 1 .. Len(open) - 1 : open'[i] = open[i]
  BY <1>1, Pop
<1> QED
  BY <1>1, <1>2 DEF Of, Innermost

LEMMA PopOther ==
    ASSUME IsList(open), NEW kind, NEW other, Inside(other), other # kind, Leave
    PROVE  Of(kind)' = Of(kind) /\ \A i \in Of(kind) : open'[i] = open[i]
<1>1. open # << >> /\ open[Len(open)].kind = other
  BY DEF Inside, Innermost
<1>2. /\ Len(open) \in Nat \ {0} /\ DOMAIN open = 1 .. Len(open)
      /\ DOMAIN open' = 1 .. Len(open) - 1
      /\ \A i \in 1 .. Len(open) - 1 : open'[i] = open[i]
  BY <1>1, Pop
<1> QED
  BY <1>1, <1>2 DEF Of

-----------------------------------------------------------------------------
(* sentry's tags: the outermost scope found none.                           *)

ScopeInv ==
    /\ \A i \in Of("sentry") : (\A j \in Of("sentry") : i <= j) => open[i].found = {}
    /\ Of("sentry") = {} => tags = {}

LEMMA OfSame ==
    ASSUME NEW kind, open' = open
    PROVE  Of(kind)' = Of(kind) /\ \A i \in Of(kind) : open'[i] = open[i]
  BY DEF Of

LEMMA ScopeStep == TypeOK /\ ScopeInv /\ [Next]_vars => ScopeInv'
<1> SUFFICES ASSUME TypeOK, ScopeInv, [Next]_vars PROVE ScopeInv'
  OBVIOUS
<1> USE DEF logger, environment
<1>0. IsList(open)
  BY DEF IsList, TypeOK
<1>a. ASSUME Of("sentry")' = Of("sentry"), tags' = tags,
             \A i \in Of("sentry") : open'[i] = open[i]
      PROVE  ScopeInv'
  BY <1>a DEF ScopeInv
<1>1. CASE open' = open /\ tags' = tags
  BY <1>1, <1>a, OfSame
<1>2. ASSUME NEW f, Enter(f), f.kind # "sentry", tags' = tags PROVE ScopeInv'
  BY <1>0, <1>2, <1>a, PushOther DEF Enter
<1>3. ASSUME NEW kind, Inside(kind), kind # "sentry", Leave, tags' = tags PROVE ScopeInv'
  BY <1>0, <1>3, <1>a, PopOther
<1>4. ASSUME NEW t \in Tag, EnterScope(t) PROVE ScopeInv'
  <2>1. open' = Append(open, Scope) /\ Scope.kind = "sentry" /\ Scope.found = tags
    BY <1>4 DEF EnterScope, Enter, Scope
  <2>2. PICK n :
        /\ Of("sentry")' = Of("sentry") \cup {n} /\ open'[n] = Scope
        /\ \A i \in Of("sentry") : open'[i] = open[i] /\ i \in Nat /\ i < n
        /\ n \in Nat
    BY <1>0, <2>1, PushThis
  <2>3. ASSUME NEW i \in Of("sentry")', \A j \in Of("sentry")' : i <= j
        PROVE  open'[i].found = {}
    <3>1. CASE i = n
      <4>1. Of("sentry") = {}
        BY <2>2, <2>3, <3>1
      <4> QED
        BY <2>1, <2>2, <3>1, <4>1 DEF ScopeInv
    <3>2. CASE i # n
      BY <2>2, <2>3, <3>2 DEF ScopeInv
    <3> QED
      BY <3>1, <3>2
  <2> QED
    BY <2>2, <2>3 DEF ScopeInv
<1>5. CASE LeaveScope
  <2>1. Inside("sentry") /\ Leave /\ tags' = Innermost.found
    BY <1>5 DEF LeaveScope
  <2>2. /\ Len(open) \in Of("sentry") /\ open[Len(open)] = Innermost
        /\ Of("sentry")' = Of("sentry") \ {Len(open)}
        /\ \A i \in Of("sentry")' : open'[i] = open[i]
        /\ \A i \in Of("sentry") : i \in Nat /\ i <= Len(open)
        /\ Len(open) \in Nat
    BY <1>0, <2>1, PopThis
  <2> QED
    BY <2>1, <2>2 DEF ScopeInv
<1>6. CASE Bind
  BY <1>6, <1>1 DEF Bind
<1>7. ASSUME NEW c \in Ctx, EnterContext(c) \/ EnterContextFails(c)
                            \/ LeaveContext(c) \/ LeaveContextFails(c)
      PROVE  ScopeInv'
  BY <1>7, <1>1, <1>2, <1>3
     DEF EnterContext, EnterContextFails, LeaveContext, LeaveContextFails, Logging
<1>8. ASSUME NEW k \in Var, NEW v \in EnvValue \cup {Unset}, SetVariable(k, v) PROVE ScopeInv'
  BY <1>8, <1>1 DEF SetVariable
<1>9. ASSUME NEW e \in Envs, SetEnv(e) \/ SetEnvFails(e) PROVE ScopeInv'
  BY <1>9, <1>1, <1>2 DEF SetEnv, SetEnvFails, Setting
<1>10. CASE ResetEnv
  BY <1>10, <1>3 DEF ResetEnv
<1>11. CASE UNCHANGED vars
  BY <1>11, <1>1 DEF vars
<1> QED
  BY <1>4, <1>5, <1>6, <1>7, <1>8, <1>9, <1>10, <1>11 DEF Next

-----------------------------------------------------------------------------
(* The environment: what the outermost set_env of a variable saved, and     *)
(* the variable itself when there is none, amount to its base value.        *)

Outermost(i, k) == Covers(i, k) /\ \A j \in Of("env") : Covers(j, k) => i <= j

EnvInv ==
    \A k \in Var \ forgotten :
        /\ \A i \in Of("env") : Outermost(i, k) => Amounts(open[i].state[k], baseEnv[k])
        /\ ~Covered(k) => Amounts(environ[k], baseEnv[k])

LEMMA EnvStep == TypeOK /\ EnvInv /\ [Next]_vars => EnvInv'
<1> SUFFICES ASSUME TypeOK, EnvInv, [Next]_vars PROVE EnvInv'
  OBVIOUS
<1> USE DEF logger, environment
<1>0. IsList(open)
  BY DEF IsList, TypeOK
<1>z. \A k : Covered(k) <=> \E i \in Of("env") : Covers(i, k)
  BY DEF Covered, Covers, Of
<1>y. \A k : Covered(k)' <=> \E i \in Of("env")' : Covers(i, k)'
  BY DEF Covered, Covers, Of
<1>a. ASSUME Of("env")' = Of("env"), \A i \in Of("env") : open'[i] = open[i]
      PROVE  \A k : /\ \A i \in Of("env") : Covers(i, k)' <=> Covers(i, k)
                    /\ \A i \in Of("env") : Outermost(i, k)' <=> Outermost(i, k)
                    /\ Covered(k)' <=> Covered(k)
  BY <1>a, <1>y, <1>z DEF Outermost, Covers
<1>b. ASSUME Of("env")' = Of("env"), \A i \in Of("env") : open'[i] = open[i], UNCHANGED environment
      PROVE  EnvInv'
  BY <1>a, <1>b DEF EnvInv
<1>1. ASSUME open' = open, UNCHANGED environment PROVE EnvInv'
  BY <1>1, <1>b, OfSame
<1>2. ASSUME NEW f, Enter(f), f.kind # "env", UNCHANGED environment PROVE EnvInv'
  BY <1>0, <1>2, <1>b, PushOther DEF Enter
<1>3. ASSUME NEW kind, Inside(kind), kind # "env", Leave, UNCHANGED environment PROVE EnvInv'
  BY <1>0, <1>3, <1>b, PopOther
<1>4. ASSUME NEW x \in Var, NEW v \in EnvValue \cup {Unset}, SetVariable(x, v) PROVE EnvInv'
  <2>1. open' = open
    BY <1>4 DEF SetVariable
  <2>2. Of("env")' = Of("env") /\ \A i \in Of("env") : open'[i] = open[i]
    BY <2>1, OfSame
  <2>3. \A k : /\ \A i \in Of("env") : Outermost(i, k)' <=> Outermost(i, k)
               /\ Covered(k)' <=> Covered(k)
    BY <2>2, <1>a
  <2>4. \A k : \A i \in Of("env") : Outermost(i, k) => Covered(k)
    BY <1>z DEF Outermost
  <2>5. CASE Covered(x)
    BY <1>4, <2>2, <2>3, <2>4, <2>5 DEF EnvInv, SetVariable, TypeOK, Environment
  <2>6. CASE ~Covered(x)
    BY <1>4, <2>2, <2>3, <2>4, <2>6 DEF EnvInv, SetVariable, TypeOK, Environment, Amounts
  <2> QED
    BY <2>5, <2>6
<1>5. ASSUME NEW e \in Envs, SetEnv(e) PROVE EnvInv'
  <2>1. open' = Append(open, Setting(e)) /\ Setting(e).kind = "env" /\ Setting(e).env = e
        /\ \A k \in DOMAIN e : Setting(e).state[k] = environ[k]
    BY <1>5 DEF SetEnv, Enter, Setting
  <2>2. PICK n : /\ Of("env")' = Of("env") \cup {n} /\ open'[n] = Setting(e)
                 /\ \A i \in Of("env") : open'[i] = open[i] /\ i \in Nat /\ i < n
                 /\ n \in Nat
    BY <1>0, <2>1, PushThis
  <2> SUFFICES ASSUME NEW k \in Var \ forgotten
               PROVE  /\ \A i \in Of("env")' : Outermost(i, k)' => Amounts(open'[i].state[k], baseEnv[k])
                      /\ ~Covered(k)' => Amounts(environ'[k], baseEnv[k])
    BY <1>5 DEF EnvInv, SetEnv
  <2>3. \A i \in Of("env") : Covers(i, k)' <=> Covers(i, k)
    BY <2>2 DEF Covers
  <2>4. Covers(n, k)' <=> k \in DOMAIN e
    BY <2>1, <2>2 DEF Covers
  <2>5. ASSUME NEW i \in Of("env"), Outermost(i, k)' PROVE Amounts(open'[i].state[k], baseEnv[k])
    <3>1. Outermost(i, k)
      BY <2>2, <2>3, <2>5 DEF Outermost
    <3> QED
      BY <2>2, <3>1 DEF EnvInv
  <2>6. ASSUME Outermost(n, k)' PROVE Amounts(open'[n].state[k], baseEnv[k])
    <3>1. \A i \in Of("env") : ~Covers(i, k)
      BY <2>2, <2>3, <2>6 DEF Outermost
    <3>2. k \in DOMAIN e
      BY <2>4, <2>6 DEF Outermost
    <3> QED
      BY <1>z, <2>1, <2>2, <3>1, <3>2 DEF EnvInv
  <2>7. ASSUME ~Covered(k)' PROVE Amounts(environ'[k], baseEnv[k])
    <3>1. k \notin DOMAIN e /\ ~Covered(k)
      BY <1>y, <1>z, <2>2, <2>3, <2>4, <2>7
    <3> QED
      BY <1>5, <3>1 DEF SetEnv, EnvInv
  <2> QED
    BY <2>2, <2>5, <2>6, <2>7
<1>6. ASSUME NEW e \in Envs, SetEnvFails(e) PROVE EnvInv'
  <2>1. open' = open
    BY <1>6 DEF SetEnvFails
  <2>2. Of("env")' = Of("env") /\ \A i \in Of("env") : open'[i] = open[i]
    BY <2>1, OfSame
  <2>3. \A k : /\ \A i \in Of("env") : Outermost(i, k)' <=> Outermost(i, k)
               /\ Covered(k)' <=> Covered(k)
    BY <2>2, <1>a
  <2> QED
    BY <1>6, <2>2, <2>3 DEF EnvInv, SetEnvFails
<1>7. CASE ResetEnv
  <2>1. Inside("env") /\ Leave /\ baseEnv' = baseEnv /\ forgotten' = forgotten
        /\ \A k \in Var : environ'[k] =
              IF k \notin DOMAIN Innermost.env THEN environ[k]
              ELSE IF Innermost.state[k] = Empty THEN Unset ELSE Innermost.state[k]
    BY <1>7 DEF ResetEnv
  <2>2. PICK n :
        /\ n \in Of("env") /\ open[n] = Innermost
        /\ Of("env")' = Of("env") \ {n}
        /\ \A i \in Of("env")' : open'[i] = open[i]
        /\ \A i \in Of("env") : i \in Nat /\ i <= n
        /\ n \in Nat
    BY <1>0, <2>1, PopThis
  <2> SUFFICES ASSUME NEW k \in Var \ forgotten
               PROVE  /\ \A i \in Of("env")' : Outermost(i, k)' => Amounts(open'[i].state[k], baseEnv[k])
                      /\ ~Covered(k)' => Amounts(environ'[k], baseEnv[k])
    BY <2>1 DEF EnvInv
  <2>3. \A i \in Of("env")' : Covers(i, k)' <=> Covers(i, k)
    BY <2>2 DEF Covers
  <2>4. ASSUME NEW i \in Of("env")', Outermost(i, k)' PROVE Amounts(open'[i].state[k], baseEnv[k])
    <3>1. Outermost(i, k)
      BY <2>2, <2>3, <2>4 DEF Outermost
    <3> QED
      BY <2>2, <3>1 DEF EnvInv
  <2>5. ASSUME ~Covered(k)' PROVE Amounts(environ'[k], baseEnv[k])
    <3>1. \A i \in Of("env")' : ~Covers(i, k)
      BY <1>y, <2>3, <2>5
    <3>2. CASE Covers(n, k)
      <4>1. Outermost(n, k) /\ k \in DOMAIN Innermost.env
        BY <2>2, <3>1, <3>2 DEF Outermost, Covers
      <4>2. Amounts(Innermost.state[k], baseEnv[k])
        BY <2>2, <4>1 DEF EnvInv
      <4> QED
        BY <2>1, <4>1, <4>2, ContextsAssumption DEF Amounts, ContextsAssumption
    <3>3. CASE ~Covers(n, k)
      <4>1. k \notin DOMAIN Innermost.env
        BY <2>2, <3>3 DEF Covers
      <4>2. ~Covered(k)
        BY <1>z, <2>2, <3>1, <3>3
      <4> QED
        BY <2>1, <4>1, <4>2 DEF EnvInv
    <3> QED
      BY <3>2, <3>3
  <2> QED
    BY <2>4, <2>5
<1>8. CASE Bind
  BY <1>8, <1>1 DEF Bind
<1>9. ASSUME NEW c \in Ctx, EnterContext(c) \/ EnterContextFails(c)
                            \/ LeaveContext(c) \/ LeaveContextFails(c)
      PROVE  EnvInv'
  BY <1>9, <1>1, <1>2, <1>3
     DEF EnterContext, EnterContextFails, LeaveContext, LeaveContextFails, Logging
<1>10. ASSUME NEW t \in Tag, EnterScope(t) PROVE EnvInv'
  BY <1>10, <1>2 DEF EnterScope, Scope
<1>11. CASE LeaveScope
  BY <1>11, <1>3 DEF LeaveScope
<1>12. CASE UNCHANGED vars
  BY <1>12, <1>1 DEF vars
<1> QED
  BY <1>4, <1>5, <1>6, <1>7, <1>8, <1>9, <1>10, <1>11, <1>12 DEF Next

-----------------------------------------------------------------------------
(* The logger: while no context has been spoiled, the contexts that are open *)
(* are different ones, each keeps what was bound when it was entered, and    *)
(* the outermost keeps what was bound outside of all.                        *)

Intact ==
    /\ bound \in Bindings
    /\ \A i \in Of("logger") : initial[open[i].ctx] = open[i].found
    /\ \A i, j \in Of("logger") : open[i].ctx = open[j].ctx => i = j
    /\ \A i \in Of("logger") :
          (\A j \in Of("logger") : i <= j) => open[i].found = baseBound
    /\ Of("logger") = {} => bound = baseBound

LoggerInv == ~spoiled => Intact

LEMMA LoggerFrames ==
    ASSUME TypeOK
    PROVE  \A i \in Of("logger") : open[i].ctx \in Ctx /\ open[i].found \in Bindings
  BY DEF TypeOK, Of, IsFrame

LEMMA LoggerStep == TypeOK /\ LoggerInv /\ [Next]_vars => LoggerInv'
<1> SUFFICES ASSUME TypeOK, LoggerInv, [Next]_vars PROVE LoggerInv'
  OBVIOUS
<1> USE DEF environment
<1>0. IsList(open)
  BY DEF IsList, TypeOK
<1>a. ASSUME Of("logger")' = Of("logger"), \A i \in Of("logger") : open'[i] = open[i],
             UNCHANGED logger
      PROVE  LoggerInv'
  BY <1>a DEF LoggerInv, Intact, logger
<1>1. ASSUME open' = open, UNCHANGED logger PROVE LoggerInv'
  BY <1>1, <1>a, OfSame
<1>2. ASSUME NEW f, Enter(f), f.kind # "logger", UNCHANGED logger PROVE LoggerInv'
  BY <1>0, <1>2, <1>a, PushOther DEF Enter
<1>3. ASSUME NEW kind, Inside(kind), kind # "logger", Leave, UNCHANGED logger PROVE LoggerInv'
  BY <1>0, <1>3, <1>a, PopOther
<1>4. CASE Bind
  <2>1. open' = open /\ initial' = initial /\ spoiled' = spoiled /\ bound' \in Bindings
        /\ baseBound' = IF Of("logger") = {} THEN bound' ELSE baseBound
    BY <1>4 DEF Bind, TypeOK, Bindings
  <2>2. Of("logger")' = Of("logger") /\ \A i \in Of("logger") : open'[i] = open[i]
    BY <2>1, OfSame
  <2> QED
    BY <2>1, <2>2 DEF LoggerInv, Intact
<1>5. ASSUME NEW c \in Ctx, EnterContext(c) PROVE LoggerInv'
  <2> SUFFICES ASSUME ~spoiled' PROVE Intact'
    BY DEF LoggerInv
  <2>1. Intact /\ ~IsOpen(c) /\ baseBound' = baseBound
    BY <1>5 DEF EnterContext, LoggerInv
  <2>2. open' = Append(open, Logging(c)) /\ Logging(c).kind = "logger"
        /\ Logging(c).ctx = c /\ Logging(c).found = bound
    BY <1>5 DEF EnterContext, Enter, Logging
  <2>3. PICK n :
        /\ Of("logger")' = Of("logger") \cup {n} /\ open'[n] = Logging(c)
        /\ \A i \in Of("logger") : open'[i] = open[i] /\ i \in Nat /\ i < n
        /\ n \in Nat
    BY <1>0, <2>2, PushThis
  <2>4. initial'[c] = bound /\ \A d \in Ctx : d # c => initial'[d] = initial[d]
    BY <1>5 DEF EnterContext, TypeOK
  <2>5. \A i \in Of("logger") : open[i].ctx # c /\ open[i].ctx \in Ctx
    BY <2>1, LoggerFrames DEF IsOpen
  <2>6. bound' \in Bindings
    BY <1>5, <2>1, ContextsAssumption DEF EnterContext, With, Intact, Bindings, ContextsAssumption
  <2>a. open'[n].ctx = c /\ open'[n].found = bound
        /\ \A i \in Of("logger") : open'[i].ctx = open[i].ctx /\ open'[i].found = open[i].found
    BY <2>2, <2>3
  <2>7. \A i \in Of("logger")' : initial'[open'[i].ctx] = open'[i].found
    <3>1. \A i \in Of("logger") : initial'[open'[i].ctx] = open'[i].found
      BY <2>1, <2>4, <2>5, <2>a DEF Intact
    <3> QED
      BY <2>3, <2>4, <2>a, <3>1
  <2>8. \A i, j \in Of("logger")' : open'[i].ctx = open'[j].ctx => i = j
    <3>1. \A i \in Of("logger") : open'[i].ctx # open'[n].ctx
      BY <2>5, <2>a
    <3>2. \A i, j \in Of("logger") : open'[i].ctx = open'[j].ctx => i = j
      BY <2>1, <2>a DEF Intact
    <3> QED
      BY <2>3, <3>1, <3>2
  <2>9. ASSUME NEW i \in Of("logger")', \A j \in Of("logger")' : i <= j
        PROVE  open'[i].found = baseBound
    <3>1. CASE i = n
      <4>1. Of("logger") = {}
        BY <2>3, <2>9, <3>1
      <4> QED
        BY <2>1, <2>2, <2>3, <3>1, <4>1 DEF Intact
    <3>2. CASE i # n
      BY <2>1, <2>3, <2>9, <3>2 DEF Intact
    <3> QED
      BY <3>1, <3>2
  <2>10. Of("logger")' # {}
    BY <2>3
  <2> QED
    BY <2>1, <2>6, <2>7, <2>8, <2>9, <2>10 DEF Intact
<1>6. ASSUME NEW c \in Ctx, LeaveContext(c) PROVE LoggerInv'
  <2> SUFFICES ASSUME ~spoiled' PROVE Intact'
    BY DEF LoggerInv
  <2>1. Intact /\ Inside("logger") /\ Innermost.ctx = c /\ Leave /\ baseBound' = baseBound
    BY <1>6 DEF LeaveContext, LoggerInv
  <2>2. PICK n :
        /\ n \in Of("logger") /\ open[n] = Innermost
        /\ Of("logger")' = Of("logger") \ {n}
        /\ \A i \in Of("logger")' : open'[i] = open[i]
        /\ \A i \in Of("logger") : i \in Nat /\ i <= n
        /\ n \in Nat
    BY <1>0, <2>1, PopThis
  <2>3. bound' = initial[c] /\ \A d \in Ctx : d # c => initial'[d] = initial[d]
    BY <1>6 DEF LeaveContext, TypeOK
  <2>4. bound' = open[n].found /\ open[n].found \in Bindings
    BY <2>1, <2>2, <2>3, LoggerFrames DEF Intact
  <2>5. \A i \in Of("logger")' : open[i].ctx # c /\ open[i].ctx \in Ctx
    BY <2>1, <2>2, LoggerFrames DEF Intact
  <2>a. \A i \in Of("logger")' : open'[i].ctx = open[i].ctx /\ open'[i].found = open[i].found
                                 /\ i \in Of("logger")
    BY <2>2
  <2>6. \A i \in Of("logger")' : initial'[open'[i].ctx] = open'[i].found
    BY <2>1, <2>3, <2>5, <2>a DEF Intact
  <2>7. ASSUME NEW i \in Of("logger")', \A j \in Of("logger")' : i <= j
        PROVE  open'[i].found = baseBound
    <3>1. \A j \in Of("logger") : j = n \/ j \in Of("logger")'
      BY <2>2
    <3>2. \A j \in Of("logger") : i <= j
      BY <2>2, <2>7, <2>a, <3>1
    <3>3. open[i].found = baseBound
      BY <2>1, <2>a, <3>2 DEF Intact
    <3> QED
      BY <2>a, <3>3
  <2>8. ASSUME Of("logger")' = {} PROVE bound' = baseBound
    <3>1. \A j \in Of("logger") : n <= j
      BY <2>2, <2>8
    <3> QED
      BY <2>1, <2>2, <2>4, <3>1 DEF Intact
  <2>9. \A i, j \in Of("logger")' : open'[i].ctx = open'[j].ctx => i = j
    BY <2>1, <2>2 DEF Intact
  <2> QED
    BY <2>1, <2>4, <2>6, <2>7, <2>8, <2>9 DEF Intact
<1>7. ASSUME NEW c \in Ctx, EnterContextFails(c) \/ LeaveContextFails(c) PROVE LoggerInv'
  BY <1>7 DEF EnterContextFails, LeaveContextFails, LoggerInv
<1>8. ASSUME NEW k \in Var, NEW v \in EnvValue \cup {Unset}, SetVariable(k, v) PROVE LoggerInv'
  BY <1>8, <1>1 DEF SetVariable
<1>9. ASSUME NEW e \in Envs, SetEnv(e) \/ SetEnvFails(e) PROVE LoggerInv'
  BY <1>9, <1>1, <1>2 DEF SetEnv, SetEnvFails, Setting
<1>10. CASE ResetEnv
  BY <1>10, <1>3 DEF ResetEnv
<1>11. ASSUME NEW t \in Tag, EnterScope(t) PROVE LoggerInv'
  BY <1>11, <1>2 DEF EnterScope, Scope
<1>12. CASE LeaveScope
  BY <1>12, <1>3 DEF LeaveScope
<1>13. CASE UNCHANGED vars
  BY <1>13, <1>1 DEF vars
<1> QED
  BY <1>4, <1>5, <1>6, <1>7, <1>8, <1>9, <1>10, <1>11, <1>12, <1>13 DEF Next

-----------------------------------------------------------------------------

Inv == TypeOK /\ ScopeInv /\ EnvInv /\ LoggerInv

LEMMA ContextsInvariant == Spec => []Inv
<1>1. Init => Inv
  <2> SUFFICES ASSUME Init PROVE Inv
    OBVIOUS
  <2>1. open \in Seq({open[i] : i \in DOMAIN open}) /\ DOMAIN open = {}
    BY DEF Init
  <2>2. TypeOK
    BY <2>1 DEF Init, TypeOK
  <2>3. \A kind : Of(kind) = {}
    BY <2>1 DEF Of
  <2>4. ScopeInv /\ EnvInv /\ LoggerInv
    BY <2>3 DEF Init, ScopeInv, EnvInv, LoggerInv, Intact, Amounts
  <2> QED
    BY <2>2, <2>4 DEF Inv
<1>2. Inv /\ [Next]_vars => Inv'
  BY TypeStep, ScopeStep, EnvStep, LoggerStep DEF Inv
<1> QED
  BY <1>1, <1>2, PTL DEF Spec

(***************************************************************************)
(* logging.py:115-149, utils.py:37-52, sentry.py:38-43: outside of all     *)
(* blocks nothing of them is left in the logger, the environment or        *)
(* sentry's tags.                                                          *)
(***************************************************************************)
THEOREM NothingIsLeft == Spec => []NothingLeaks
<1>1. Inv => NothingLeaks
  BY DEF Inv, NothingLeaks, ScopeInv, EnvInv, LoggerInv, Intact
<1> QED
  BY <1>1, ContextsInvariant, PTL

(***************************************************************************)
(* logging.py:147-149: unless a context was spoiled, there is a logger.    *)
(***************************************************************************)
THEOREM ThereIsALogger == Spec => []LoggerIsThere
<1>1. Inv => LoggerIsThere
  BY ContextsAssumption DEF Inv, LoggerIsThere, LoggerInv, Intact, ContextsAssumption
<1> QED
  BY <1>1, ContextsInvariant, PTL

(***************************************************************************)
(* logging.py:118,141: leaving a context of the logger gives back what was *)
(* bound when it was entered.                                              *)
(***************************************************************************)
THEOREM LeavingRestores == Spec => LoggerRestored
<1>1. ASSUME Inv, [Next]_vars
      PROVE  [Inside("logger") /\ Len(open') < Len(open) /\ ~spoiled'
                 => bound' = Innermost.found]_vars
  <2> SUFFICES ASSUME Inside("logger"), Len(open') < Len(open), ~spoiled'
               PROVE  bound' = Innermost.found
    OBVIOUS
  <2>0. IsList(open) /\ Innermost.kind = "logger"
    BY <1>1 DEF Inv, TypeOK, IsList, Inside
  <2>1. ASSUME NEW c \in Ctx, LeaveContext(c) PROVE bound' = Innermost.found
    <3>1. Leave /\ ~spoiled /\ bound' = initial[c] /\ Innermost.ctx = c
      BY <2>1 DEF LeaveContext
    <3>2. Len(open) \in Of("logger") /\ open[Len(open)] = Innermost
      BY <2>0, <3>1, PopThis
    <3> QED
      BY <1>1, <3>1, <3>2 DEF Inv, LoggerInv, Intact
  <2>2. ASSUME open' = open PROVE FALSE
    BY <2>0, <2>2, ListIsList DEF IsList
  <2>3. ASSUME NEW f, Enter(f) PROVE FALSE
    BY <2>0, <2>3, Push DEF Enter, IsList
  <2> QED
    BY <1>1, <2>0, <2>1, <2>2, <2>3
       DEF Next, vars, Bind, EnterContext, EnterContextFails, LeaveContextFails,
           SetVariable, SetEnv, SetEnvFails, ResetEnv, EnterScope, LeaveScope, Inside
<1> QED
  BY <1>1, ContextsInvariant, PTL DEF Spec, LoggerRestored

============================================================================
