-------------------------- MODULE SignatureProofs --------------------------
(***************************************************************************)
(* What validate, which looks at the merge of all the functions of an      *)
(* Action, guarantees to each of them alone, and what build_action_kwargs  *)
(* selects.                                                                *)
(***************************************************************************)
EXTENDS Signature, SequenceTheorems, WellFoundedInduction, TLAPS

\* Where maps that agree are merged, each of them is found again.
LEMMA MergedAgrees ==
    ASSUME NEW maps, Mergeable(maps), NEW m \in maps, NEW k \in DOMAIN m
    PROVE  k \in DOMAIN Merged(maps) /\ Merged(maps)[k] = m[k]
<1> DEFINE c == CHOOSE g \in maps : k \in DOMAIN g
<1>1. c \in maps /\ k \in DOMAIN c
  OBVIOUS
<1>2. c[k] = m[k]
  BY <1>1 DEF Mergeable
<1>3. k \in UNION {DOMAIN g : g \in maps}
  OBVIOUS
<1> QED
  BY <1>2, <1>3 DEF Merged

LEMMA ParameterOf ==
    ASSUME NEW fs, NEW args, Validates(fs, args), NEW f \in fs,
           NEW p \in DOMAIN Def[f].params
    PROVE  /\ p \in DOMAIN Merged(Signatures(fs))
           /\ Merged(Signatures(fs))[p].default = Def[f].params[p].default
<1>1. Parameters(f) \in Signatures(fs) /\ Mergeable(Signatures(fs))
  BY DEF Signatures, Validates
<1>2. p \in DOMAIN Parameters(f) /\ Parameters(f)[p].default = Def[f].params[p].default
  BY DEF Parameters
<1> QED
  BY <1>1, <1>2, MergedAgrees

LEMMA HintOf ==
    ASSUME NEW fs, NEW args, Validates(fs, args), NEW f \in fs,
           NEW p \in DOMAIN TypeHints(f)
    PROVE  /\ p \in DOMAIN Merged(Hints(fs))
           /\ Merged(Hints(fs))[p] = TypeHints(f)[p]
<1>1. TypeHints(f) \in Hints(fs) /\ Mergeable(Hints(fs))
  BY DEF Hints, Validates
<1> QED
  BY <1>1, MergedAgrees

-----------------------------------------------------------------------------

\* A request and a function of its Action, once the request is accepted.
LEMMA SelectionIsTyped ==
    ASSUME NEW a, NEW kw, Accepts(a, kw), Inferred(a), NEW f \in Range(a.functions),
           NEW p \in DOMAIN Def[f].params, p \in DOMAIN TypeHints(f),
           p \in DOMAIN ActionKwargs(a, kw)
    PROVE  ActionKwargs(a, kw)[p] \in TypeHints(f)[p]
<1> DEFINE fs  == Range(a.functions)
           all == WithReserved(kw)
<1>1. Validates(fs, all)
  BY DEF Accepts, Buildable
<1>2. p \in DOMAIN Merged(Signatures(fs))
  BY <1>1, ParameterOf
<1>3. p \in DOMAIN Merged(Hints(fs)) /\ Merged(Hints(fs))[p] = TypeHints(f)[p]
  BY <1>1, HintOf
<1> HIDE DEF fs, all
<1>4. p \in DOMAIN all => all[p] \in TypeHints(f)[p]
  BY <1>1, <1>2, <1>3 DEF Validates
<1>5. p \in DOMAIN all /\ ActionKwargs(a, kw)[p] = all[p]
  <2> DEFINE built == BuiltKwargs(a, all)
             whole == IF a.include_all_params THEN Updated(built, all) ELSE built
  <2>1. p \in DOMAIN whole /\ ActionKwargs(a, kw)[p] = whole[p]
    BY DEF ActionKwargs, Restrict, all
  <2>2. built = [k \in DOMAIN Merged(Signatures(fs)) \cap DOMAIN all |-> all[k]]
    BY DEF BuiltKwargs, Validated, Restrict, fs
  <2> HIDE DEF built
  <2>3. p \in DOMAIN all /\ whole[p] = all[p]
    BY <2>1, <2>2 DEF Updated
  <2> QED
    BY <2>1, <2>3
<1> QED
  BY <1>4, <1>5

\* A parameter for which the payload has an argument is given one, and no
\* other is, apart from the reserved names, which all are.
LEMMA SelectionGives ==
    ASSUME NEW a, NEW kw, Accepts(a, kw), Inferred(a), NEW f \in Range(a.functions),
           NEW p \in DOMAIN Def[f].params
    PROVE  p \in DOMAIN CallKwargs(ActionKwargs(a, kw)) <=> p \in DOMAIN WithReserved(kw)
<1> DEFINE fs  == Range(a.functions)
           all == WithReserved(kw)
           built == BuiltKwargs(a, all)
           whole == IF a.include_all_params THEN Updated(built, all) ELSE built
<1>1. p \in DOMAIN Merged(Signatures(fs))
  BY ParameterOf DEF Accepts, Buildable
<1>2. p \in DOMAIN built <=> p \in DOMAIN all
  BY <1>1 DEF BuiltKwargs, Validated, Restrict
<1>3. DOMAIN ActionKwargs(a, kw) = DOMAIN whole \ RESERVED_KEYWORDS
  BY DEF ActionKwargs, Restrict
<1>4. RESERVED_KEYWORDS \subseteq DOMAIN all
  BY DEF WithReserved, Updated
<1>5. DOMAIN CallKwargs(ActionKwargs(a, kw)) = DOMAIN ActionKwargs(a, kw) \cup RESERVED_KEYWORDS
  BY DEF CallKwargs, Updated
<1> HIDE DEF built, all
<1>6. p \in DOMAIN whole <=> p \in DOMAIN all
  BY <1>2 DEF Updated
<1> QED
  BY <1>3, <1>4, <1>5, <1>6 DEF all

LEMMA SelectionBinds ==
    ASSUME NEW a, NEW kw, Accepts(a, kw), Inferred(a), NEW f \in Range(a.functions),
           TakesAnyKeyword(f)
    PROVE  Binds(f, ActionKwargs(a, kw)) <=> HiddenNames(f) \subseteq DOMAIN kw
<1> DEFINE fs    == Range(a.functions)
           all   == WithReserved(kw)
           given == DOMAIN CallKwargs(ActionKwargs(a, kw))
<1>1. Validates(fs, all)
  BY DEF Accepts, Buildable
<1>2. ASSUME NEW p \in Named(f)
      PROVE  p \in given <=> p \in DOMAIN all
  BY <1>2, SelectionGives DEF Named
<1>3. ASSUME NEW p \in Named(f), Def[f].params[p].default = NoDefault, p \notin HiddenNames(f)
      PROVE  p \in given
  <2>1. p \in DOMAIN Def[f].params /\ p \notin Unchecked
    BY <1>3 DEF Named, HiddenNames
  <2>2. /\ p \in DOMAIN Merged(Signatures(fs))
        /\ Merged(Signatures(fs))[p].default = NoDefault
    BY <1>1, <1>3, <2>1, ParameterOf
  <2> HIDE DEF fs, all, given
  <2>3. p \in DOMAIN all
    BY <1>1, <2>1, <2>2 DEF Validates
  <2> QED
    BY <1>2, <2>3
<1>4. DOMAIN all = DOMAIN kw \cup RESERVED_KEYWORDS
  BY DEF WithReserved, Updated
<1>5. \A p \in HiddenNames(f) : /\ p \in Named(f) /\ Def[f].params[p].default = NoDefault
                                /\ p \notin RESERVED_KEYWORDS
  BY DEF HiddenNames, Unchecked, RESERVED_KEYWORDS
<1>6. Binds(f, ActionKwargs(a, kw)) <=>
          \A p \in Named(f) : Def[f].params[p].default = NoDefault => p \in given
  BY DEF Binds
<1> HIDE DEF given, all, fs
<1> QED
  BY <1>2, <1>3, <1>4, <1>5, <1>6

-----------------------------------------------------------------------------

\* Merging what one function has gives it back.
LEMMA MergedAlone ==
    ASSUME NEW f
    PROVE  /\ Mergeable(Signatures({f})) /\ Mergeable(Hints({f}))
           /\ DOMAIN Merged(Signatures({f})) = DOMAIN Def[f].params
           /\ \A p \in DOMAIN Def[f].params :
                 Merged(Signatures({f}))[p].default = Def[f].params[p].default
           /\ DOMAIN Merged(Hints({f})) = DOMAIN TypeHints(f)
           /\ \A p \in DOMAIN TypeHints(f) : Merged(Hints({f}))[p] = TypeHints(f)[p]
<1>1. Signatures({f}) = {Parameters(f)} /\ Hints({f}) = {TypeHints(f)}
  BY DEF Signatures, Hints
<1>2. DOMAIN Parameters(f) = DOMAIN Def[f].params
  BY DEF Parameters
<1>3. \A p \in DOMAIN Def[f].params : Parameters(f)[p].default = Def[f].params[p].default
  BY DEF Parameters
<1> QED
  BY <1>1, <1>2, <1>3 DEF Mergeable, Merged

\* What all functions together accept, each accepts.
LEMMA ValidAlone ==
    ASSUME NEW fs, NEW args, Validates(fs, args), NEW f \in fs
    PROVE  Validates({f}, args)
<1>1. ASSUME NEW p \in DOMAIN Def[f].params
      PROVE  IF p \in DOMAIN args
             THEN p \in DOMAIN TypeHints(f) => args[p] \in TypeHints(f)[p]
             ELSE p \in Unchecked \/ Def[f].params[p].default # NoDefault
  <2>1. /\ p \in DOMAIN Merged(Signatures(fs))
        /\ Merged(Signatures(fs))[p].default = Def[f].params[p].default
    BY ParameterOf
  <2>2. ASSUME p \in DOMAIN TypeHints(f)
        PROVE  p \in DOMAIN Merged(Hints(fs)) /\ Merged(Hints(fs))[p] = TypeHints(f)[p]
    BY <2>2, HintOf
  <2> QED
    BY <2>1, <2>2 DEF Validates
<1>2. Def[f].isFunction
  BY DEF Validates
<1> QED
  BY <1>1, <1>2, MergedAlone DEF Validates

\* The converse.  A hint found for a parameter of one function is that of a
\* parameter of another, since only "return" is hinted without being one.
LEMMA ValidTogether ==
    ASSUME NEW fs, NEW args, \A f \in fs : IsFuncDef(Def[f]) /\ Validates({f}, args),
           Mergeable(Signatures(fs)), Mergeable(Hints(fs))
    PROVE  Validates(fs, args)
<1>1. ASSUME NEW p \in DOMAIN Merged(Signatures(fs))
      PROVE  IF p \in DOMAIN args
             THEN p \in DOMAIN Merged(Hints(fs)) => args[p] \in Merged(Hints(fs))[p]
             ELSE p \in Unchecked \/ Merged(Signatures(fs))[p].default # NoDefault
  <2>1. PICK f \in fs : p \in DOMAIN Parameters(f)
    BY DEF Merged, Signatures
  <2>2. /\ p \in DOMAIN Def[f].params
        /\ Merged(Signatures(fs))[p].default = Def[f].params[p].default
    <3>1. Merged(Signatures(fs))[p] = Parameters(f)[p]
      BY <2>1, MergedAgrees DEF Signatures
    <3> QED
      BY <2>1, <3>1 DEF Parameters
  <2>3. ASSUME p \notin DOMAIN args
        PROVE  p \in Unchecked \/ Merged(Signatures(fs))[p].default # NoDefault
    <3>1. Validates({f}, args)
      OBVIOUS
    <3> QED
      BY <2>2, <2>3, <3>1, MergedAlone DEF Validates
  <2>4. ASSUME p \in DOMAIN args, p \in DOMAIN Merged(Hints(fs))
        PROVE  args[p] \in Merged(Hints(fs))[p]
    <3>1. PICK g \in fs : p \in DOMAIN TypeHints(g)
      BY <2>4 DEF Merged, Hints
    <3>2. Merged(Hints(fs))[p] = TypeHints(g)[p]
      BY <3>1, MergedAgrees DEF Hints
    <3>3. p \in DOMAIN Def[g].params
      <4>1. p # "return"
        BY <2>2 DEF IsFuncDef
      <4> QED
        BY <3>1, <4>1 DEF TypeHints, IsFuncDef
    <3>4. Validates({g}, args)
      OBVIOUS
    <3> QED
      BY <2>4, <3>1, <3>2, <3>3, <3>4, MergedAlone DEF Validates
  <2> QED
    BY <2>3, <2>4
<1>2. \A f \in fs : Def[f].isFunction
  BY DEF Validates
<1> QED
  BY <1>1, <1>2 DEF Validates

-----------------------------------------------------------------------------

\* A nonempty set of positions has a last one.
LEMMA LastOf ==
    ASSUME NEW len \in Nat, NEW S, S \subseteq 1 .. len, S # {}
    PROVE  \E i \in S : \A j \in S : j <= i
<1>1. \A i \in S : i \in Nat /\ len - i \in Nat
  OBVIOUS
<1> DEFINE T == {len - i : i \in S}
<1>2. T \subseteq Nat /\ T # {}
  BY <1>1
<1>3. \A i \in S : len - i \in T
  OBVIOUS
<1>4. \A y \in T : \E i \in S : y = len - i
  OBVIOUS
<1> HIDE DEF T
<1>5. PICK x \in T : \A y \in T : <<y, x>> \notin OpToRel(<, Nat)
  BY <1>2, NatLessThanWellFounded, WFMin
<1>6. \A y \in T : ~(y < x)
  BY <1>2, <1>5 DEF OpToRel
<1>7. PICK i \in S : x = len - i
  BY <1>4
<1>8. ASSUME NEW j \in S PROVE j <= i
  <2>1. ~(len - j < len - i)
    BY <1>3, <1>6, <1>7
  <2>2. i \in Nat /\ j \in Nat
    BY <1>1
  <2> QED
    BY <2>1, <2>2
<1> QED
  BY <1>8

LEMMA ArgMapIntro ==
    ASSUME NEW names \in SUBSET Name, NEW f, f \in [names -> Class]
    PROVE  f \in ArgMap
BY DEF ArgMap

LEMMA ArgMapElim ==
    ASSUME NEW f \in ArgMap
    PROVE  /\ DOMAIN f \subseteq Name
           /\ f \in [DOMAIN f -> Class]
           /\ \A k \in DOMAIN f : f[k] \in Class
BY DEF ArgMap

LEMMA RestrictedIsTyped ==
    ASSUME NEW f \in ArgMap, NEW S, S \subseteq DOMAIN f
    PROVE  Restrict(f, S) \in ArgMap
<1>1. S \in SUBSET Name /\ \A k \in S : f[k] \in Class
  BY ArgMapElim
<1>2. Restrict(f, S) \in [S -> Class]
  BY <1>1 DEF Restrict
<1> QED
  BY <1>1, <1>2, ArgMapIntro

LEMMA UpdatedIsTyped ==
    ASSUME NEW f \in ArgMap, NEW g \in ArgMap
    PROVE  Updated(f, g) \in ArgMap
<1> DEFINE names == DOMAIN f \cup DOMAIN g
<1>1. names \in SUBSET Name
  BY ArgMapElim
<1>2. \A k \in names : (IF k \in DOMAIN g THEN g[k] ELSE f[k]) \in Class
  BY ArgMapElim
<1>3. Updated(f, g) \in [names -> Class]
  BY <1>2 DEF Updated
<1> QED
  BY <1>1, <1>3, ArgMapIntro

LEMMA WithReservedIsTyped ==
    ASSUME NEW kw \in ArgMap
    PROVE  WithReserved(kw) \in ArgMap
<1>1. [k \in RESERVED_KEYWORDS |-> "NoneType"] \in ArgMap
  <2>1. RESERVED_KEYWORDS \in SUBSET Name /\ "NoneType" \in Class
    BY SignatureAssumption DEF RESERVED_KEYWORDS
  <2>2. [k \in RESERVED_KEYWORDS |-> "NoneType"] \in [RESERVED_KEYWORDS -> Class]
    BY <2>1
  <2> QED
    BY <2>1, <2>2, ArgMapIntro
<1> QED
  BY <1>1, UpdatedIsTyped DEF WithReserved

\* The last of several pairs with one target decides, and its source is there.
LEMMA RequiredIsTyped ==
    ASSUME NEW required \in Seq(Name \X Name), NEW kw \in ArgMap,
           \A pair \in Range(required) : pair[1] \in DOMAIN kw
    PROVE  RequiredKwargs(required, kw) \in ArgMap
<1> DEFINE targets == {pair[2] : pair \in Range(required)}
           isLast(i, to) == /\ required[i][2] = to
                            /\ \A j \in DOMAIN required : required[j][2] = to => j <= i
           last(to) == CHOOSE i \in DOMAIN required : isLast(i, to)
<1>1. /\ Len(required) \in Nat /\ DOMAIN required = 1 .. Len(required)
      /\ \A i \in DOMAIN required : /\ required[i] \in Name \X Name
                                    /\ required[i] \in Range(required)
  BY LenProperties, ElementOfSeq DEF Range
<1>2. targets \in SUBSET Name
  BY <1>1 DEF Range
<1>3. ASSUME NEW to \in targets PROVE kw[required[last(to)][1]] \in Class
  <2> DEFINE S == {i \in DOMAIN required : required[i][2] = to}
  <2>1. S \subseteq 1 .. Len(required) /\ S # {}
    BY <1>1 DEF Range
  <2>2. \E i \in S : \A j \in S : j <= i
    BY <1>1, <2>1, LastOf
  <2>3. \E i \in DOMAIN required : isLast(i, to)
    BY <2>2
  <2>4. last(to) \in DOMAIN required
    BY <2>3
  <2> HIDE DEF last
  <2>5. required[last(to)][1] \in DOMAIN kw
    BY <1>1, <2>4
  <2> QED
    BY <2>5, ArgMapElim
<1>4. RequiredKwargs(required, kw) = [to \in targets |-> kw[required[last(to)][1]]]
  BY DEF RequiredKwargs
<1> HIDE DEF targets, last
<1>5. RequiredKwargs(required, kw) \in [targets -> Class]
  BY <1>3, <1>4
<1> QED
  BY <1>2, <1>5, ArgMapIntro

LEMMA SelectionIsAnArgMap ==
    ASSUME NEW a, NEW kw \in ArgMap, a.required \in Seq(Name \X Name), Accepts(a, kw)
    PROVE  ActionKwargs(a, kw) \in ArgMap
<1> DEFINE all   == WithReserved(kw)
           built == BuiltKwargs(a, all)
           whole == IF a.include_all_params THEN Updated(built, all) ELSE built
<1>1. all \in ArgMap
  BY WithReservedIsTyped
<1>2. built \in ArgMap
  <2>1. CASE Inferred(a)
    <3>1. Validated(Range(a.functions), all) \in ArgMap
      BY <1>1, RestrictedIsTyped DEF Validated
    <3> QED
      BY <2>1, <3>1 DEF BuiltKwargs
  <2>2. CASE ~Inferred(a)
    <3>1. \A pair \in Range(a.required) : pair[1] \in DOMAIN all
      <4>1. CASE a.required = << >>
        BY <4>1 DEF Range
      <4>2. CASE a.required # << >>
        BY <2>2, <4>2 DEF Accepts, Buildable
      <4> QED
        BY <4>1, <4>2
    <3> HIDE DEF all
    <3>2. RequiredKwargs(a.required, all) \in ArgMap
      BY <1>1, <3>1, RequiredIsTyped
    <3> QED
      BY <2>2, <3>2 DEF BuiltKwargs
  <2> QED
    BY <2>1, <2>2
<1> HIDE DEF built, all
<1>3. whole \in ArgMap
  BY <1>1, <1>2, UpdatedIsTyped
<1> HIDE DEF whole
<1>4. Restrict(whole, DOMAIN whole \ RESERVED_KEYWORDS) \in ArgMap
  BY <1>3, RestrictedIsTyped
<1> QED
  BY <1>4 DEF ActionKwargs, whole, built, all

=============================================================================
