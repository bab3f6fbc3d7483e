------------------------------- MODULE ClcProofs -------------------------------
(***************************************************************************)
(* Three parts of the constraint language, for all their inputs.  Bounds:  *)
(* the comparison that refuses amplification is sound, and the meet of two *)
(* grants admits exactly the values both admit.  Enforcement: obligations  *)
(* are never lost between Combine and the moment the consumer acts, and it *)
(* acts on a fresh context only.  The accepted-state file of verify-report *)
(* (SnapshotFile): without overlapping runs it stands for the whole        *)
(* history of accepted reports, and only an overlap can take it back.      *)
(***************************************************************************)
EXTENDS ClcEnforcement, SnapshotFile, WellFoundedInduction, TLAPS

(* The time limits of the provers, in seconds: Zenon is tried, then SMT. *)
USE ZenonT(10), SMTT(30)

--------------------------------------------------------------------------------
(* Divisibility *)

(* To leave no remainder is to be a multiple. *)
LEMMA Quotient ==
    ASSUME NEW v \in Int, NEW d \in Int, d > 0
    PROVE  v % d = 0 <=> \E k \in Int : v = k * d
  <1>1. ASSUME v % d = 0 PROVE v = (v \div d) * d
    BY <1>1, Z3
  <1>2. v \div d \in Int
    OBVIOUS
  <1>3. ASSUME NEW k \in Int, v = k * d PROVE v % d = 0
    BY <1>3, Z3
  <1> QED
    BY <1>1, <1>2, <1>3, ZenonT(30)

(* A multiple of a multiple is a multiple. *)
LEMMA MultipleOfMultiple ==
    ASSUME NEW v \in Int, NEW c \in Int, NEW p \in Int, c > 0, p > 0, v % c = 0, c % p = 0
    PROVE  v % p = 0
  <1>1. PICK j \in Int : v = j * c
    BY Quotient
  <1>2. PICK k \in Int : c = k * p
    BY Quotient
  <1>3. v = (j * k) * p /\ j * k \in Int
    BY <1>1, <1>2
  <1> QED
    BY <1>3, Quotient

--------------------------------------------------------------------------------
(* The members of a bound *)

(* The members of a numeric bound are integers, its step is positive. *)
LEMMA BoundMembers ==
    ASSUME NEW b \in NumericBounds
    PROVE  /\ DOMAIN b \subseteq NumericMembers
           /\ \A m \in DOMAIN b : b[m] \in Int
           /\ "step" \in DOMAIN b => b["step"] > 0
  BY DEF NumericBounds, ValidNumeric

(* A value on a step is on every step that divides it. *)
LEMMA StepOfStep ==
    ASSUME NEW v \in Int, NEW x \in Int, NEW y \in Int, x > 0, y > 0,
           isMultipleOf(x, y), isMultipleOf(v, x)
    PROVE  isMultipleOf(v, y)
  BY MultipleOfMultiple DEF isMultipleOf

(* A value on the coarser of two steps that meet is on both, and only then. *)
LEMMA CoarserIsBoth ==
    ASSUME NEW v \in Int, NEW x \in Int, NEW y \in Int, x > 0, y > 0,
           isMultipleOf(x, y) \/ isMultipleOf(y, x)
    PROVE  isMultipleOf(v, CoarserStep(x, y)) <=> isMultipleOf(v, x) /\ isMultipleOf(v, y)
  <1>1. CASE isMultipleOf(x, y)
    BY <1>1, StepOfStep DEF CoarserStep
  <1>2. CASE ~isMultipleOf(x, y)
    BY <1>2, StepOfStep DEF CoarserStep
  <1> QED
    BY <1>1, <1>2

(* To be at least the greater of two is to be at least both, ... *)
LEMMA GreaterIsBoth == \A v, x, y \in Int : v >= greater(x, y) <=> v >= x /\ v >= y
  BY DEF greater

(* ... and to be at most the lesser is to be at most both. *)
LEMMA LesserIsBoth == \A v, x, y \in Int : v <= lesser(x, y) <=> v <= x /\ v <= y
  BY DEF lesser

(* The members of a meet, one by one. *)
LEMMA MeetMembers ==
    ASSUME NEW a, NEW b
    PROVE  LET c == numericMeet(a, b) IN
           /\ DOMAIN c = DOMAIN a \cup DOMAIN b
           /\ \A m \in DOMAIN a \ DOMAIN b : c[m] = a[m]
           /\ \A m \in DOMAIN b \ DOMAIN a : c[m] = b[m]
           /\ "min" \in DOMAIN a \cap DOMAIN b => c["min"] = greater(a["min"], b["min"])
           /\ "max" \in DOMAIN a \cap DOMAIN b => c["max"] = lesser(a["max"], b["max"])
           /\ "step" \in DOMAIN a \cap DOMAIN b => c["step"] = CoarserStep(a["step"], b["step"])
  BY DEF numericMeet

--------------------------------------------------------------------------------

(* A child bound that boundWithin finds within its parent admits nothing   *)
(* the parent refuses: the comparison Contains makes for the numeric       *)
(* family is enough, for every value and every declared subset of members. *)
THEOREM WithinIsSound ==
    ASSUME NEW c \in NumericBounds, NEW p \in NumericBounds, NumericWithin(c, p),
           NEW v \in Int, Admits(c, v)
    PROVE  Admits(p, v)
  <1>1. InRange(v, p)
    BY BoundMembers DEF NumericWithin, Admits, InRange
  <1>2. ASSUME "step" \in DOMAIN p PROVE isMultipleOf(v, p["step"])
    <2>1. "step" \in DOMAIN c /\ isMultipleOf(c["step"], p["step"])
      BY <1>2 DEF NumericWithin
    <2>2. isMultipleOf(v, c["step"])
      BY <2>1 DEF Admits, OnStep
    <2>3. c["step"] \in Int /\ c["step"] > 0 /\ p["step"] \in Int /\ p["step"] > 0
      BY <1>2, <2>1, BoundMembers
    <2> QED
      BY <2>1, <2>2, <2>3, StepOfStep
  <1> QED
    BY <1>1, <1>2 DEF Admits, OnStep

(* numericMeet is exact: where the two steps meet, the bound it computes   *)
(* admits exactly the values that both sides admit.  It neither widens a   *)
(* grant nor refuses what every grant of the chain allows.                 *)
THEOREM MeetIsExact ==
    ASSUME NEW a \in NumericBounds, NEW b \in NumericBounds, StepsMeet(a, b), NEW v \in Int
    PROVE  Admits(numericMeet(a, b), v) <=> Admits(a, v) /\ Admits(b, v)
  <1> DEFINE c == numericMeet(a, b)
  <1>1. /\ DOMAIN c = DOMAIN a \cup DOMAIN b
        /\ \A m \in DOMAIN a \ DOMAIN b : c[m] = a[m]
        /\ \A m \in DOMAIN b \ DOMAIN a : c[m] = b[m]
        /\ "min" \in DOMAIN a \cap DOMAIN b => c["min"] = greater(a["min"], b["min"])
        /\ "max" \in DOMAIN a \cap DOMAIN b => c["max"] = lesser(a["max"], b["max"])
        /\ "step" \in DOMAIN a \cap DOMAIN b => c["step"] = CoarserStep(a["step"], b["step"])
    BY MeetMembers, ZenonT(30)
  <1> HIDE DEF c
  <1>2. /\ \A m \in DOMAIN a : a[m] \in Int
        /\ \A m \in DOMAIN b : b[m] \in Int
        /\ "step" \in DOMAIN a => a["step"] > 0
        /\ "step" \in DOMAIN b => b["step"] > 0
    BY BoundMembers
  <1>3. ("min" \in DOMAIN c => v >= c["min"])
          <=> ("min" \in DOMAIN a => v >= a["min"]) /\ ("min" \in DOMAIN b => v >= b["min"])
    BY <1>1, <1>2, GreaterIsBoth
  <1>4. ("max" \in DOMAIN c => v <= c["max"])
          <=> ("max" \in DOMAIN a => v <= a["max"]) /\ ("max" \in DOMAIN b => v <= b["max"])
    BY <1>1, <1>2, LesserIsBoth
  <1>5. OnStep(v, c) <=> OnStep(v, a) /\ OnStep(v, b)
    <2>1. CASE "step" \in DOMAIN a \cap DOMAIN b
      BY <1>1, <1>2, <2>1, CoarserIsBoth DEF OnStep, StepsMeet
    <2>2. CASE "step" \notin DOMAIN a \cap DOMAIN b
      BY <1>1, <2>2 DEF OnStep
    <2> QED
      BY <2>1, <2>2
  <1> QED
    BY <1>3, <1>4, <1>5 DEF Admits, InRange, c

(* The interval that numericMeet refuses with ErrNoOverlap is empty: no    *)
(* value is lost by the refusal.                                           *)
THEOREM NoOverlapIsEmpty ==
    ASSUME NEW a \in NumericBounds, NEW b \in NumericBounds, StepsMeet(a, b),
           EmptyRange(numericMeet(a, b)), NEW v \in Int
    PROVE  ~(Admits(a, v) /\ Admits(b, v))
  <1> DEFINE c == numericMeet(a, b)
  <1>1. "min" \in DOMAIN c /\ "max" \in DOMAIN c /\ c["min"] > c["max"]
    BY DEF EmptyRange
  <1>2. c["min"] \in Int /\ c["max"] \in Int
    <2>1. /\ DOMAIN c = DOMAIN a \cup DOMAIN b
          /\ \A m \in DOMAIN a \ DOMAIN b : c[m] = a[m]
          /\ \A m \in DOMAIN b \ DOMAIN a : c[m] = b[m]
          /\ "min" \in DOMAIN a \cap DOMAIN b => c["min"] = greater(a["min"], b["min"])
          /\ "max" \in DOMAIN a \cap DOMAIN b => c["max"] = lesser(a["max"], b["max"])
      BY MeetMembers, ZenonT(30)
    <2>2. (\A m \in DOMAIN a : a[m] \in Int) /\ (\A m \in DOMAIN b : b[m] \in Int)
      BY BoundMembers
    <2> HIDE DEF c
    <2> QED
      BY <1>1, <2>1, <2>2 DEF greater, lesser
  <1> HIDE DEF c
  <1>3. ~Admits(c, v)
    BY <1>1, <1>2 DEF Admits, InRange
  <1> QED
    BY <1>3, MeetIsExact DEF c

--------------------------------------------------------------------------------
(* Enforcement *)

Allowing == {"allow", "allow_unresolved"}

--------------------------------------------------------------------------------
(* The operators *)

(* The parts of the pairs <<reasons, result>>. *)
LEMMA Parts == ASSUME NEW x, NEW y PROVE <<x, y>>[1] = x /\ <<x, y>>[2] = y
  OBVIOUS

(* A chain of checks passes when each of them does. *)
LEMMA ChecksPass == ASSUME NEW x, NEW y PROVE ((x ?? y) = {}) <=> (x = {} /\ y = {})
  BY DEF ??

(* A check passes when its condition holds. *)
LEMMA UnlessPasses ==
    ASSUME NEW c \in BOOLEAN, NEW code PROVE (Unless(c, code) = {}) <=> c
  BY ZenonT(30) DEF Unless, Err

(* FirstOf passes only when every check of the sequence does. *)
LEMMA FirstOfPasses ==
    ASSUME NEW checks, DOMAIN checks \subseteq Nat, FirstOf(checks) = {}, NEW i \in DOMAIN checks
    PROVE  checks[i] = {}
  <1> DEFINE failing == {j \in DOMAIN checks : checks[j] # {}}
  <1>1. SUFFICES ASSUME failing # {} PROVE FALSE
    OBVIOUS
  <1>2. PICK k \in failing : \A j \in failing : ~(<<j, k>> \in OpToRel(<, Nat))
    <2>1. failing \subseteq Nat
      OBVIOUS
    <2> HIDE DEF failing
    <2> QED
      BY <1>1, <2>1, NatLessThanWellFounded, WFMin, ZenonT(30)
  <1>3. ASSUME NEW j \in failing PROVE k <= j
    <2>1. j \in Nat /\ k \in Nat
      OBVIOUS
    <2>2. <<j, k>> \in OpToRel(<, Nat) <=> j < k
      BY <2>1 DEF OpToRel
    <2>3. ~(j < k)
      BY <1>2, <2>2, ZenonT(30)
    <2> QED
      BY <2>1, <2>3
  <1>4. FirstOf(checks) = checks[CHOOSE j \in failing : \A m \in failing : j <= m]
    BY <1>1 DEF FirstOf
  <1>5. (CHOOSE j \in failing : \A m \in failing : j <= m) \in failing
    BY <1>3
  <1> QED
    BY <1>4, <1>5

(* What the shape check of a decision asks for, ... *)
LEMMA ShapePasses ==
    ASSUME NEW d
    PROVE  (checkDecisionShape(d) = {}) <=>
              /\ "" \notin ObligationIdentities(d)
              /\ d.verdict \in Verdicts
              /\ (d.verdict = "allow_unresolved") <=> (d.unresolved # {})
  <1> DEFINE c1 == "" \notin ObligationIdentities(d)
             c2 == /\ d.verdict \in Verdicts
                   /\ (d.verdict = "allow_unresolved") <=> (d.unresolved # {})
  <1>1. (Unless(c1, "obligation_unknown") = {}) <=> c1
    BY UnlessPasses, ZenonT(30)
  <1>2. (Unless(c2, "obligation_shape") = {}) <=> c2
    BY UnlessPasses, ZenonT(30)
  <1>3. checkDecisionShape(d) = (Unless(c1, "obligation_unknown") ?? Unless(c2, "obligation_shape"))
    BY DEF checkDecisionShape
  <1> HIDE DEF c1, c2
  <1>4. (checkDecisionShape(d) = {}) <=> (c1 /\ c2)
    BY <1>1, <1>2, <1>3, ChecksPass
  <1> QED
    BY <1>4, ZenonT(30) DEF c1, c2

(* A denial owes nothing and is well formed. *)
LEMMA DenyShape ==
    ASSUME NEW why
    PROVE  /\ checkDecisionShape(Deny(why)) = {}
           /\ Deny(why).verdict = "deny" /\ Deny(why).unresolved = {}
  <1>1. Deny(why).verdict = "deny" /\ Deny(why).unresolved = {}
    BY DEF Deny
  <1> QED
    BY <1>1, ShapePasses, ZenonT(30) DEF ObligationIdentities, Verdicts

(* ... and of an allow. *)
LEMMA AllowShape ==
    ASSUME NEW os, \A o \in os : ConstraintIdentity(o) # ""
    PROVE  /\ checkDecisionShape(Allow(os)) = {}
           /\ Allow(os).verdict \in Allowing /\ Allow(os).unresolved = os
  <1>1. /\ Allow(os).unresolved = os
        /\ Allow(os).verdict = IF os = {} THEN "allow" ELSE "allow_unresolved"
    BY ZenonT(30) DEF Allow
  <1>2. "" \notin ObligationIdentities(Allow(os))
    BY <1>1, ZenonT(30) DEF ObligationIdentities
  <1> QED
    BY <1>1, <1>2, ShapePasses, ZenonT(30) DEF Verdicts, Allowing

(* Combine hands on a well-formed decision, and unless it looks at one     *)
(* source only, an allow that owes what all of them owe.                   *)
LEMMA CombineResult ==
    ASSUME NEW alg, NEW S, NEW ds \in Seq(S), Combine(alg, ds)[1] = {},
           NEW d, d = Combine(alg, ds)[2]
    PROVE  /\ checkDecisionShape(d) = {}
           /\ d.verdict \in Allowing /\ alg # "first-applicable" =>
                /\ d.unresolved = Owed(ds)
                /\ alg = "deny-overrides" => Denying(ds) = {}
  <1> DEFINE c1 == Unless(alg \in Algorithms, "unknown_combining_algorithm")
             c2 == Unless(ds # <<>>, "no_decisions")
             shapes == [i \in DOMAIN ds |-> checkDecisionShape(ds[i])]
             c3 == FirstOf(shapes)
             bad == ((c1 ?? c2) ?? c3)
  <1>1. Combine(alg, ds) =
           IF bad # {} THEN <<bad, Deny(<<"", "">>)>>
           ELSE CASE alg = "first-applicable" -> <<{}, ds[1]>>
                  [] alg = "permit-overrides" -> combinePermitOverrides(ds)
                  [] OTHER -> combineDenyOverrides(ds)
    BY ZenonT(30) DEF Combine
  <1>2. bad = {}
    <2> DEFINE refused == Deny(<<"", "">>)
    <2> HIDE DEF bad, refused
    <2>1. bad # {} => Combine(alg, ds) = <<bad, refused>>
      BY <1>1, ZenonT(30) DEF refused
    <2> QED
      BY <2>1, Parts
  <1>3. c1 = {} /\ c2 = {} /\ c3 = {}
    <2> HIDE DEF c1, c2, c3
    <2> QED
      BY <1>2, ChecksPass
  <1>4. alg \in Algorithms /\ ds # <<>>
    BY <1>3, ZenonT(30) DEF Unless, Err
  <1>5. ASSUME NEW i \in DOMAIN ds PROVE checkDecisionShape(ds[i]) = {}
    <2>1. DOMAIN shapes \subseteq Nat /\ i \in DOMAIN shapes
      OBVIOUS
    <2>2. shapes[i] = {}
      <3> HIDE DEF shapes
      <3> QED
        BY <1>3, <2>1, FirstOfPasses DEF c3
    <2> QED
      BY <2>2
  <1>6. \A o \in Owed(ds) : ConstraintIdentity(o) # ""
    <2>1. ASSUME NEW i \in DOMAIN ds, NEW o \in ds[i].unresolved PROVE ConstraintIdentity(o) # ""
      <3>1. checkDecisionShape(ds[i]) = {}
        BY <1>5
      <3>2. "" \notin ObligationIdentities(ds[i])
        BY <3>1, ShapePasses, ZenonT(30)
      <3> QED
        BY <3>2, ZenonT(30) DEF ObligationIdentities
    <2> QED
      BY <2>1, ZenonT(30) DEF Owed
  <1> HIDE DEF bad
  <1>7. CASE alg = "first-applicable"
    <2>1. d = ds[1] /\ 1 \in DOMAIN ds
      BY <1>1, <1>2, <1>4, <1>7
    <2> QED
      BY <1>5, <1>7, <2>1
  <1>8. ASSUME combineDenyOverrides(ds)[2] = d
        PROVE  /\ checkDecisionShape(d) = {}
               /\ d.verdict \in Allowing => d.unresolved = Owed(ds) /\ Denying(ds) = {}
    <2>1. CASE Denying(ds) # {}
      <3>1. PICK why : d = Deny(why)
        BY <1>8, <2>1 DEF combineDenyOverrides, FirstDeny
      <3> QED
        BY <3>1, DenyShape DEF Allowing
    <2>2. CASE Denying(ds) = {}
      <3>1. d = Allow(Owed(ds))
        BY <1>8, <2>2 DEF combineDenyOverrides
      <3> QED
        BY <3>1, <1>6, <2>2, AllowShape, ZenonT(30)
    <2> QED
      BY <2>1, <2>2
  <1>9. CASE alg = "permit-overrides"
    <2>1. Combine(alg, ds) = combinePermitOverrides(ds)
      BY <1>1, <1>2, <1>9
    <2>2. CASE \E i \in DOMAIN ds : ds[i].verdict = "allow"
      <3> DEFINE dropped == Unless(Owed(ds) = {}, "combining_would_drop_obligations")
                 plain == Allow({})
      <3>1. Combine(alg, ds) = <<dropped, plain>>
        BY <2>1, <2>2 DEF combinePermitOverrides
      <3>3. (dropped = {}) <=> (Owed(ds) = {})
        BY UnlessPasses, ZenonT(30)
      <3> HIDE DEF dropped, plain
      <3>4. dropped = {} /\ d = plain
        BY <3>1, Parts
      <3>2. Owed(ds) = {} /\ d = Allow({})
        BY <3>3, <3>4 DEF plain
      <3> QED
        BY <1>9, <3>2, AllowShape, ZenonT(30)
    <2>3. CASE ~\E i \in DOMAIN ds : ds[i].verdict = "allow"
      BY <1>8, <1>9, <2>1, <2>3 DEF combinePermitOverrides
    <2> QED
      BY <2>2, <2>3
  <1>10. CASE alg = "deny-overrides"
    BY <1>1, <1>2, <1>8, <1>10
  <1> QED
    BY <1>4, <1>7, <1>9, <1>10 DEF Algorithms

(* Without a violation, the obligations Resolve keeps are those it was     *)
(* told nothing about.                                                     *)
LEMMA UnknownIsUnattested ==
    ASSUME NEW d, NEW reports, NEW now \in Int, now >= 0 \/ now = NoClock,
           WithStatus(d, reports, now, "violated") = {}
    PROVE  WithStatus(d, reports, now, "unknown") = d.unresolved \ {o \in d.unresolved : Attested(o, reports, now)}
  <1>1. ASSUME NEW o \in d.unresolved
        PROVE  ("satisfied" \in StatusesOf(o, reports, now)) <=> Attested(o, reports, now)
    BY DEF StatusesOf, Attested, NoClock
  <1>2. ASSUME NEW o \in d.unresolved
        PROVE  "violated" \notin StatusesOf(o, reports, now)
    BY DEF WithStatus, stricterStatus
  <1>3. ASSUME NEW o \in d.unresolved
        PROVE  (stricterStatus(StatusesOf(o, reports, now)) = "unknown") <=> ~Attested(o, reports, now)
    BY <1>1, <1>2 DEF stricterStatus
  <1> QED
    BY <1>3 DEF WithStatus

(* Resolve: a denial stays as it is, an allow loses exactly what is        *)
(* attested, and the shape is kept.                                        *)
LEMMA ResolveResult ==
    ASSUME NEW d, checkDecisionShape(d) = {}, NEW reports,
           NEW now \in Int, now >= 0 \/ now \in {NoClock, BadClock}, NEW e, e = Resolve(d, reports, now)
    PROVE  /\ checkDecisionShape(e) = {}
           /\ d.verdict = "deny" => e = d
           /\ e.unresolved \subseteq d.unresolved
           /\ e.verdict \in Allowing =>
                /\ d.verdict \in Allowing
                /\ e.unresolved = d.unresolved \ {o \in d.unresolved : Attested(o, reports, now)}
  <1>1. d.verdict \in Verdicts /\ (d.verdict = "allow_unresolved" <=> d.unresolved # {})
        /\ \A o \in d.unresolved : ConstraintIdentity(o) # ""
    BY ShapePasses, ZenonT(30) DEF ObligationIdentities
  <1>2. CASE d.verdict \in {"allow", "deny"}
    <2>1. e = d
      BY <1>2 DEF Resolve
    <2> QED
      BY <1>1, <1>2, <2>1, ZenonT(30) DEF Allowing
  <1>3. CASE d.verdict = "allow_unresolved"
    <2>1. \/ \E why : e = Deny(why)
          \/ /\ now # BadClock
             /\ WithStatus(d, reports, now, "violated") = {}
             /\ e = Allow(WithStatus(d, reports, now, "unknown"))
      BY <1>1, <1>3, ZenonT(30) DEF Resolve, Verdicts
    <2>2. CASE \E why : e = Deny(why)
      BY <2>2, <1>3, DenyShape DEF Allowing
    <2>3. CASE /\ now # BadClock
               /\ WithStatus(d, reports, now, "violated") = {}
               /\ e = Allow(WithStatus(d, reports, now, "unknown"))
      <3>1. WithStatus(d, reports, now, "unknown") = d.unresolved \ {o \in d.unresolved : Attested(o, reports, now)}
        BY <2>3, UnknownIsUnattested
      <3>2. \A o \in WithStatus(d, reports, now, "unknown") : ConstraintIdentity(o) # ""
        BY <1>1, <3>1, ZenonT(30)
      <3>3. checkDecisionShape(e) = {} /\ e.unresolved = WithStatus(d, reports, now, "unknown")
        BY <2>3, <3>2, AllowShape, ZenonT(30)
      <3> QED
        BY <1>3, <3>1, <3>3 DEF Allowing
    <2> QED
      BY <2>1, <2>2, <2>3
  <1> QED
    BY <1>1, <1>2, <1>3, ZenonT(30) DEF Verdicts

--------------------------------------------------------------------------------
(* The invariant *)

(* Between combination and act: nothing is met before there is a decision, *)
(* the context is bounded, and the consumer acted on an allow.             *)
EInv ==
    /\ TypeOK
    /\ DecisionKeepsShape
    /\ ObligationsAreConserved
    /\ CombineKeepsObligations
    /\ ActsOnlyInForce
    /\ decision = None => met = {} /\ acted = NoClock
    /\ decision # None => context.maxAge = MaxAge
    /\ acted # NoClock => decision.verdict \in Allowing

(* The absence of a decision is not one. *)
LEMMA NoneIsNoDecision == None.verdict \notin Verdicts /\ None.verdict \notin Allowing
  BY DEF None, Verdicts, Allowing

(* The invariant of the consumer holds at the start, and is kept ... *)
LEMMA InitEInv == Init => EInv
  <1> SUFFICES ASSUME Init PROVE EInv
    OBVIOUS
  <1>1. TypeOK
    <2>1. MaxTime \in Nat /\ MaxTime > 0 /\ Skew \in Nat /\ MaxSources \in Nat
      BY EnforcementAssumption
    <2>2. /\ clock = 1 /\ sources = <<>> /\ decision = None /\ context = NoContext
          /\ attempt = "first" /\ acted = NoClock
      BY ZenonT(30) DEF Init
    <2>3. sources \in Seq(Decisions) /\ Len(sources) <= MaxSources
      BY <2>1, <2>2
    <2>4. context.at \in 0..(MaxTime + Skew)
      BY <2>1, <2>2 DEF NoContext
    <2> QED
      BY <2>1, <2>2, <2>3, <2>4 DEF TypeOK
  <1> QED
    BY <1>1, NoneIsNoDecision, ZenonT(30)
       DEF Init, EInv, DecisionKeepsShape, ObligationsAreConserved, CombineKeepsObligations,
           ActsOnlyInForce, Allowing, NoClock

(* ... when time passes, ... *)
LEMMA TickStep == EInv /\ Tick => EInv'
  <1> SUFFICES ASSUME EInv, Tick PROVE EInv'
    OBVIOUS
  <1>1. TypeOK'
    BY EnforcementAssumption DEF EInv, Tick, TypeOK
  <1> QED
    BY <1>1 DEF EInv, Tick, DecisionKeepsShape, ObligationsAreConserved, CombineKeepsObligations,
                ActsOnlyInForce

(* ... when a decision arrives, ... *)
LEMMA ReceiveStep == ASSUME EInv, NEW d \in Decisions, Receive(d) PROVE EInv'
  <1>1. TypeOK'
    BY EnforcementAssumption DEF EInv, Receive, TypeOK
  <1> QED
    BY <1>1, NoneIsNoDecision
       DEF EInv, Receive, DecisionKeepsShape, ObligationsAreConserved, CombineKeepsObligations,
           ActsOnlyInForce, Allowing

(* ... when decisions are combined, ... *)
LEMMA CombineStep ==
    ASSUME EInv, NEW alg \in Algorithms, NEW skew \in 0..Skew, CombineSources(alg, skew)
    PROVE  EInv'
  <1> DEFINE result == Combine(alg, sources)
  <1>1. /\ decision = None /\ result[1] = {} /\ decision' = result[2] /\ algorithm' = alg
        /\ owed' = decision'.unresolved /\ met = {} /\ acted = NoClock
        /\ context' = [at |-> clock + skew, maxAge |-> MaxAge, implicit |-> FALSE]
        /\ UNCHANGED <<clock, sources, met, challenge, attempt, acted>>
    BY DEF CombineSources, EInv
  <1>2. /\ checkDecisionShape(decision') = {}
        /\ decision'.verdict \in Allowing /\ alg # "first-applicable" =>
             /\ decision'.unresolved = Owed(sources)
             /\ alg = "deny-overrides" => Denying(sources) = {}
    <2>1. sources \in Seq(Decisions)
      BY DEF EInv, TypeOK
    <2>2. /\ checkDecisionShape(result[2]) = {}
          /\ result[2].verdict \in Allowing /\ alg # "first-applicable" =>
               /\ result[2].unresolved = Owed(sources)
               /\ alg = "deny-overrides" => Denying(sources) = {}
      <3>1. result[1] = {}
        BY <1>1
      <3> QED
        BY <2>1, <3>1, CombineResult
    <2>3. decision' = result[2]
      BY <1>1
    <2> HIDE DEF result
    <2> QED
      BY <2>2, <2>3
  <1>3. decision'.verdict \in Verdicts /\ decision' # None
    BY <1>2, ShapePasses, NoneIsNoDecision, ZenonT(30)
  <1>4. TypeOK'
    BY <1>1, <1>3, EnforcementAssumption DEF EInv, TypeOK
  <1> HIDE DEF result
  <1>5. DecisionKeepsShape' /\ ObligationsAreConserved'
    BY <1>1, <1>2 DEF DecisionKeepsShape, ObligationsAreConserved
  <1>6. CombineKeepsObligations'
    BY <1>1, <1>2 DEF CombineKeepsObligations, Allowing, Owed, Denying
  <1> QED
    BY <1>1, <1>3, <1>4, <1>5, <1>6 DEF EInv, ActsOnlyInForce

(* ... when obligations are resolved, ... *)
LEMMA ResolveStep ==
    ASSUME EInv, NEW reports, NEW now \in {clock, NoClock, BadClock}, ResolveWith(reports, now)
    PROVE  EInv'
  <1>1. /\ decision # None /\ acted = NoClock
        /\ decision' = Resolve(decision, reports, now)
        /\ met' = IF decision'.verdict = "deny" THEN met
                  ELSE met \cup {o \in decision.unresolved : Attested(o, reports, now)}
        /\ UNCHANGED <<clock, sources, algorithm, owed, context, challenge, attempt, acted>>
    BY DEF ResolveWith
  <1>2. now \in Int /\ (now >= 0 \/ now \in {NoClock, BadClock})
    BY DEF EInv, TypeOK, NoClock, BadClock
  <1>3. checkDecisionShape(decision) = {}
    BY <1>1 DEF EInv, DecisionKeepsShape
  <1>4. /\ checkDecisionShape(decision') = {}
        /\ decision'.verdict \in Allowing =>
             /\ decision.verdict \in Allowing
             /\ decision'.unresolved
                  = decision.unresolved \ {o \in decision.unresolved : Attested(o, reports, now)}
    BY <1>1, <1>2, <1>3, ResolveResult
  <1>5. decision'.verdict \in Verdicts /\ decision' # None
    BY <1>4, ShapePasses, NoneIsNoDecision, ZenonT(30)
  <1>6. TypeOK'
    BY <1>1, <1>5 DEF EInv, TypeOK
  <1>7. ObligationsAreConserved'
    BY <1>1, <1>4 DEF EInv, ObligationsAreConserved, Allowing
  <1>8. CombineKeepsObligations'
    BY <1>1, <1>4 DEF EInv, CombineKeepsObligations, Allowing, Owed, Denying
  <1> QED
    BY <1>1, <1>4, <1>5, <1>6, <1>7, <1>8 DEF EInv, DecisionKeepsShape, ActsOnlyInForce

(* ... when a challenge is issued, ... *)
LEMMA ChallengeStep == ASSUME EInv, NEW delay, IssueChallenge(delay) PROVE EInv'
  <1>1. TypeOK'
    BY DEF EInv, IssueChallenge, TypeOK
  <1> QED
    BY <1>1 DEF EInv, IssueChallenge, DecisionKeepsShape, ObligationsAreConserved,
                CombineKeepsObligations, ActsOnlyInForce, Owed, Denying

(* ... when the request is retried, ... *)
LEMMA RetryStep == EInv /\ Retry => EInv'
  <1> SUFFICES ASSUME EInv, Retry PROVE EInv'
    OBVIOUS
  <1>1. /\ sources' = <<>> /\ decision' = None /\ met' = {} /\ acted = NoClock /\ acted' = acted
        /\ clock' = clock /\ context' = NoContext /\ attempt' = "again"
    BY ZenonT(30) DEF Retry
  <1>2. TypeOK'
    <2>1. MaxTime \in Nat /\ Skew \in Nat /\ MaxSources \in Nat
      BY EnforcementAssumption
    <2>2. sources' \in Seq(Decisions) /\ Len(sources') <= MaxSources
      BY <1>1, <2>1
    <2>3. context'.at \in 0..(MaxTime + Skew)
      BY <1>1, <2>1 DEF NoContext
    <2> QED
      BY <1>1, <2>2, <2>3 DEF EInv, TypeOK
  <1> QED
    BY <1>1, <1>2, NoneIsNoDecision
       DEF EInv, DecisionKeepsShape, ObligationsAreConserved, CombineKeepsObligations,
           ActsOnlyInForce, Allowing

(* The consumer acts: what is not met is understood, and the context is    *)
(* neither from the future nor too old.                                    *)
LEMMA ActStep == EInv /\ Act => EInv'
  <1> SUFFICES ASSUME EInv, Act PROVE EInv'
    OBVIOUS
  <1>1. /\ decision.verdict \in Allowing /\ acted' = clock
        /\ Discharge(decision, Understood) = {} /\ Fresh(context, clock) = {}
        /\ UNCHANGED <<clock, sources, decision, algorithm, owed, met, context>>
        /\ decision # None
    BY NoneIsNoDecision DEF Act, Allowing
  <1>2. {ConstraintIdentity(o) : o \in owed \ met} \subseteq Understood
    <2>1. owed \ met = decision.unresolved
      BY <1>1 DEF EInv, ObligationsAreConserved, Allowing
    <2>2. decision.verdict = "allow_unresolved" => ObligationIdentities(decision) \subseteq Understood
      <3> DEFINE c == decision.verdict = "allow_unresolved" => ObligationIdentities(decision) \subseteq Understood
      <3>1. Discharge(decision, Understood) = (checkDecisionShape(decision) ?? Unless(c, "obligation_unknown"))
        BY DEF Discharge
      <3>2. (Unless(c, "obligation_unknown") = {}) <=> c
        BY UnlessPasses, ZenonT(30)
      <3> HIDE DEF c
      <3>3. c
        BY <1>1, <3>1, <3>2, ChecksPass
      <3> QED
        BY <3>3 DEF c
    <2>3. decision.verdict # "allow_unresolved" => decision.unresolved = {}
      BY <1>1, ShapePasses, ZenonT(30) DEF EInv, DecisionKeepsShape
    <2> QED
      BY <2>1, <2>2, <2>3 DEF ObligationIdentities
  <1>3. context.at <= clock /\ clock <= context.at + MaxAge
    <2> DEFINE valid == validContext(context)
               dated == Unless(context.at # 0, "context_no_clock")
               c == context.at <= clock
               past == Unless(c, "context_future")
               k == context.maxAge > 0 => clock - context.at <= context.maxAge
               young == Unless(k, "context_stale")
    <2>1. Fresh(context, clock) = (((valid ?? dated) ?? past) ?? young)
      BY DEF Fresh
    <2>2. ((past = {}) <=> c) /\ ((young = {}) <=> k)
      BY ZenonT(30) DEF Unless, Err
    <2> HIDE DEF valid, dated, past, young, c, k
    <2>3. c /\ k
      BY <1>1, <2>1, <2>2, ChecksPass
    <2>4. context.maxAge = MaxAge /\ MaxAge \in Nat /\ MaxAge > 0 /\ clock \in Nat /\ context.at \in Nat
      BY <1>1, EnforcementAssumption DEF EInv, TypeOK
    <2> QED
      BY <2>3, <2>4 DEF c, k
  <1>4. TypeOK'
    BY <1>1 DEF EInv, TypeOK, Act
  <1>5. ActsOnlyInForce'
    BY <1>1, <1>2, <1>3 DEF ActsOnlyInForce
  <1> QED
    BY <1>1, <1>4, <1>5 DEF EInv, DecisionKeepsShape, ObligationsAreConserved,
                            CombineKeepsObligations, Owed, Denying

(* ... and so by every step. *)
LEMMA NextEInv == EInv /\ [Next]_vars => EInv'
  <1> SUFFICES ASSUME EInv, [Next]_vars PROVE EInv'
    OBVIOUS
  <1>1. CASE UNCHANGED vars
    BY <1>1 DEF vars, EInv, TypeOK, DecisionKeepsShape, ObligationsAreConserved,
                CombineKeepsObligations, ActsOnlyInForce, Owed, Denying
  <1>2. CASE Enforce
    BY <1>2, TickStep, CombineStep, ResolveStep, ChallengeStep, RetryStep, ActStep DEF Enforce
  <1>3. CASE \E d \in Decisions : Receive(d)
    BY <1>3, ReceiveStep
  <1> QED
    BY <1>1, <1>2, <1>3 DEF Next

(* The invariant that the results below follow from, for the whole package *)
(* as an enforcement point calls it.                                       *)
THEOREM Enforced == Spec => []EInv
  <1> QED
    BY InitEInv, NextEInv, PTL DEF Spec

(* Resolve neither drops nor invents an obligation, over any sequence of   *)
(* reports and clock readings and for any decisions that arrive.           *)
THEOREM ObligationsConserved == Spec => []ObligationsAreConserved
  <1>1. EInv => ObligationsAreConserved
    BY DEF EInv
  <1> QED
    BY <1>1, Enforced, PTL

(* Every obligation of every source is in the combined decision, and       *)
(* deny-overrides lets no denial through: Combine drops nothing.           *)
THEOREM CombinationKeepsObligations == Spec => [](CombineKeepsObligations /\ DecisionKeepsShape)
  <1>1. EInv => CombineKeepsObligations /\ DecisionKeepsShape
    BY DEF EInv
  <1> QED
    BY <1>1, Enforced, PTL

(* The consumer acts only on obligations it met or understands and under a *)
(* context that is in force at that moment, for any clocks and bounds.     *)
THEOREM ActsInForce == Spec => []ActsOnlyInForce
  <1>1. EInv => ActsOnlyInForce
    BY DEF EInv
  <1> QED
    BY <1>1, Enforced, PTL

(* Deny is final until a challenge in force is answered. *)
THEOREM DenialIsFinal == Spec => DenyIsFinal
  <1> DEFINE A == decision.verdict = "deny" =>
                    \/ decision' = decision
                    \/ /\ decision' = None
                       /\ clock < challenge.expires /\ clock >= challenge.notBefore
  <1>1. ASSUME EInv, Next PROVE A
    <2> SUFFICES ASSUME decision.verdict = "deny" PROVE A
      OBVIOUS
    <2>1. decision # None
      BY NoneIsNoDecision DEF Verdicts
    <2>2. CASE Retry
      <3> DEFINE sound == validChallenge(challenge)
                 c == clock < challenge.expires
                 k == clock >= challenge.notBefore
      <3>1. Usable(challenge, clock)
              = ((sound ?? Unless(c, "challenge_expired")) ?? Unless(k, "challenge_retry_not_before"))
        BY DEF Usable
      <3>2. ((Unless(c, "challenge_expired") = {}) <=> c)
            /\ ((Unless(k, "challenge_retry_not_before") = {}) <=> k)
        BY ZenonT(30) DEF Unless, Err
      <3>3. Usable(challenge, clock) = {} /\ decision' = None
        BY <2>2, ZenonT(30) DEF Retry
      <3> HIDE DEF sound, c, k
      <3>4. c /\ k
        BY <3>1, <3>2, <3>3, ChecksPass
      <3> QED
        BY <3>3, <3>4 DEF c, k
    <2>3. ASSUME NEW reports, NEW now, ResolveWith(reports, now) PROVE decision' = decision
      BY <2>3 DEF ResolveWith, Resolve
    <2> QED
      BY <1>1, <2>1, <2>2, <2>3 DEF Next, Enforce, Tick, Receive, CombineSources, IssueChallenge, Act
  <1>2. EInv /\ [Next]_vars => [A]_vars
    BY <1>1
  <1> QED
    BY <1>2, Enforced, PTL DEF Spec, DenyIsFinal

(* Between two combinations obligations only shrink. *)
THEOREM ResolutionIsMonotone == Spec => ResolveIsMonotone
  <1> DEFINE A == decision # None /\ decision' # None => decision'.unresolved \subseteq decision.unresolved
  <1>1. ASSUME EInv, Next PROVE A
    <2> SUFFICES ASSUME decision # None, decision' # None PROVE decision'.unresolved \subseteq decision.unresolved
      OBVIOUS
    <2>1. ASSUME NEW reports, NEW now \in {clock, NoClock, BadClock}, ResolveWith(reports, now)
          PROVE  decision'.unresolved \subseteq decision.unresolved
      <3>1. now \in Int /\ (now >= 0 \/ now \in {NoClock, BadClock})
        BY <1>1 DEF EInv, TypeOK, NoClock, BadClock
      <3>2. checkDecisionShape(decision) = {}
        BY <1>1 DEF EInv, DecisionKeepsShape
      <3> QED
        BY <2>1, <3>1, <3>2, ResolveResult DEF ResolveWith
    <2> QED
      BY <1>1, <2>1, ZenonT(30) DEF Next, Enforce, Tick, Receive, CombineSources, IssueChallenge, Retry, Act
  <1>2. EInv /\ [Next]_vars => [A]_vars
    BY <1>1
  <1> QED
    BY <1>2, Enforced, PTL DEF Spec, ResolveIsMonotone

--------------------------------------------------------------------------------
(* The accepted-state file *)

(* What the proofs need of a sequence of check results and of a state. *)
Results(rs) ==
    /\ Len(rs) \in Nat /\ DOMAIN rs = 1..Len(rs)
    /\ \A i \in DOMAIN rs : rs[i].generation \in Int
State(s) == \A k \in DOMAIN s : s[k].generation \in Int

--------------------------------------------------------------------------------
(* The operators *)

(* Follows is transitive ... *)
LEMMA FollowsTransitive ==
    ASSUME NEW a, NEW b, NEW c, a.generation \in Int, b.generation \in Int, c.generation \in Int,
           Follows(a, b), Follows(b, c)
    PROVE  Follows(a, c)
  BY DEF Follows

(* ... and reflexive. *)
LEMMA FollowsItself == ASSUME NEW a PROVE Follows(a, a)
  BY DEF Follows

(* A bounded set of positions has a last one. *)
LEMMA LastExists ==
    ASSUME NEW n \in Nat, NEW S, S \subseteq 1..n, S # {}
    PROVE  LastOf(S) \in S /\ \A j \in S : j <= LastOf(S)
  <1> DEFINE T == {n - i : i \in S}
  <1>1. T \subseteq Nat /\ T # {}
    <2>1. ASSUME NEW i \in S PROVE n - i \in Nat
      <3>1. i \in 1..n
        OBVIOUS
      <3> QED
        BY <3>1
    <2> QED
      BY <2>1, ZenonT(30)
  <1>2. PICK t \in T : \A u \in T : ~(<<u, t>> \in OpToRel(<, Nat))
    <2> HIDE DEF T
    <2> QED
      BY <1>1, NatLessThanWellFounded, WFMin, ZenonT(30)
  <1>3. ASSUME NEW u \in T PROVE t <= u
    <2>1. u \in Nat /\ t \in Nat
      BY <1>1
    <2>2. <<u, t>> \in OpToRel(<, Nat) <=> u < t
      BY <2>1 DEF OpToRel
    <2>3. ~(u < t)
      BY <1>2, <2>2, ZenonT(30)
    <2> QED
      BY <2>1, <2>3
  <1>4. PICK i \in S : t = n - i
    OBVIOUS
  <1>5. \A j \in S : j <= i
    <2> SUFFICES ASSUME NEW j \in S PROVE j <= i
      OBVIOUS
    <2>1. t <= n - j
      BY <1>3
    <2> QED
      BY <1>4, <2>1
  <1> QED
    BY <1>4, <1>5, ZenonT(30) DEF LastOf

(* The order of generations is total. *)
LEMMA NotBelow == \A x, y \in Int : ~(x < y) => y < x \/ y = x
  OBVIOUS

(* A result that passes follows everything bound to its coordinate before. *)
LEMMA PassFollows ==
    ASSUME NEW s, NEW rs, Results(rs), NEW i \in DOMAIN rs, CheckResult(s, rs, i) = "",
           Declares(rs[i]), NEW b \in Earlier(s, rs, i), b.generation \in Int
    PROVE  Follows(b, Binding(rs[i]))
  <1>1. /\ ~(rs[i].generation < b.generation)
        /\ ~(rs[i].generation = b.generation /\ rs[i].digest # b.digest)
    BY DEF CheckResult
  <1>2. rs[i].generation \in Int
    BY ZenonT(30) DEF Results
  <1>3. /\ Binding(rs[i]).generation = rs[i].generation
        /\ Binding(rs[i]).digest = rs[i].digest
    BY ZenonT(30) DEF Binding
  <1>4. b.generation < rs[i].generation \/ b.generation = rs[i].generation
    BY <1>1, <1>2, NotBelow, ZenonT(30)
  <1> QED
    BY <1>1, <1>3, <1>4, ZenonT(30) DEF Follows

(* A report that a state accepts follows what the state holds under its key. *)
LEMMA FollowsState ==
    ASSUME NEW s, State(s), NEW rs, Results(rs), Accepts(s, rs),
           NEW i \in DOMAIN rs, Declares(rs[i]), snapshotKey(rs[i]) \in DOMAIN s
    PROVE  Follows(s[snapshotKey(rs[i])], Binding(rs[i]))
  <1>1. s[snapshotKey(rs[i])] \in Earlier(s, rs, i)
    BY DEF Earlier
  <1> QED
    BY <1>1, PassFollows, ZenonT(30) DEF Accepts, State

(* The binding NextState keeps for a coordinate the results declare. *)
LEMMA KeptBinding ==
    ASSUME NEW s, NEW rs, Results(rs), NEW i \in DOMAIN rs, Declares(rs[i])
    PROVE  LET k == snapshotKey(rs[i])
               last == LastOf(Declaring(rs, k))
           IN  /\ k \in DOMAIN NextState(s, rs)
               /\ NextState(s, rs)[k] = Binding(rs[last])
               /\ last \in DOMAIN rs /\ i <= last /\ Declares(rs[last]) /\ snapshotKey(rs[last]) = k
  <1> DEFINE k == snapshotKey(rs[i])
             S == Declaring(rs, k)
  <1>1. i \in S /\ S \subseteq 1..Len(rs) /\ Len(rs) \in Nat
    BY DEF Declaring, Results
  <1>2. k \in Keys(rs)
    BY DEF Keys
  <1>3. LastOf(S) \in S /\ i <= LastOf(S)
    <2> HIDE DEF S
    <2> QED
      BY <1>1, LastExists
  <1>4. k \in DOMAIN NextState(s, rs) /\ NextState(s, rs)[k] = Binding(rs[LastOf(S)])
    BY <1>1, <1>2 DEF NextState
  <1> QED
    BY <1>3, <1>4 DEF Declaring

(* The next state holds, for what an accepted report declares, that or     *)
(* what may follow it.                                                     *)
LEMMA NextCovers ==
    ASSUME NEW s, NEW rs, Results(rs), Accepts(s, rs), NEW i \in DOMAIN rs, Declares(rs[i])
    PROVE  /\ snapshotKey(rs[i]) \in DOMAIN NextState(s, rs)
           /\ Follows(Binding(rs[i]), NextState(s, rs)[snapshotKey(rs[i])])
  <1> DEFINE k == snapshotKey(rs[i])
             last == LastOf(Declaring(rs, k))
  <1>1. /\ k \in DOMAIN NextState(s, rs)
        /\ NextState(s, rs)[k] = Binding(rs[last])
        /\ last \in DOMAIN rs /\ i <= last /\ Declares(rs[last]) /\ snapshotKey(rs[last]) = k
    BY KeptBinding
  <1> HIDE DEF k, last
  <1>2. CASE i = last
    BY <1>1, <1>2, FollowsItself DEF k
  <1>3. CASE i # last
    <2>1. i < last
      BY <1>1, <1>3 DEF Results
    <2>2. Binding(rs[i]) \in Earlier(s, rs, last)
      BY <1>1, <2>1 DEF Earlier, Declaring, k
    <2>3. Binding(rs[i]).generation \in Int
      BY DEF Results, Binding
    <2> QED
      BY <1>1, <2>2, <2>3, PassFollows, ZenonT(30) DEF Accepts, k
  <1> QED
    BY <1>2, <1>3

(* An accepted report never takes the state it was checked against back. *)
LEMMA NextIsForward ==
    ASSUME NEW s, State(s), NEW rs, Results(rs), Accepts(s, rs)
    PROVE  Forward(s, NextState(s, rs)) /\ State(NextState(s, rs))
  <1>1. DOMAIN NextState(s, rs) = DOMAIN s \cup Keys(rs)
    BY DEF NextState
  <1>2. ASSUME NEW k \in DOMAIN s PROVE Follows(s[k], NextState(s, rs)[k])
    <2>1. CASE Declaring(rs, k) = {}
      <3>1. NextState(s, rs)[k] = s[k]
        BY <2>1 DEF NextState
      <3> QED
        BY <3>1, FollowsItself
    <2>2. CASE Declaring(rs, k) # {}
      <3>1. PICK i \in DOMAIN rs : Declares(rs[i]) /\ snapshotKey(rs[i]) = k
        BY <2>2 DEF Declaring
      <3>2. PICK j \in DOMAIN rs : /\ NextState(s, rs)[k] = Binding(rs[j])
                                   /\ Declares(rs[j]) /\ snapshotKey(rs[j]) = k
        BY <3>1, KeptBinding
      <3> QED
        BY <3>2, FollowsState
    <2> QED
      BY <2>1, <2>2
  <1>3. ASSUME NEW k \in DOMAIN s \cup Keys(rs) PROVE NextState(s, rs)[k].generation \in Int
    <2>1. CASE Declaring(rs, k) = {}
      <3>1. k \in DOMAIN s
        BY <2>1 DEF Keys, Declaring
      <3>2. NextState(s, rs)[k] = s[k]
        BY <2>1 DEF NextState
      <3>3. s[k].generation \in Int
        BY <3>1, ZenonT(30) DEF State
      <3> QED
        BY <3>2, <3>3, ZenonT(30)
    <2>2. CASE Declaring(rs, k) # {}
      <3>1. PICK i \in DOMAIN rs : Declares(rs[i]) /\ snapshotKey(rs[i]) = k
        BY <2>2 DEF Declaring
      <3>2. PICK j \in DOMAIN rs : NextState(s, rs)[k] = Binding(rs[j])
        BY <3>1, KeptBinding
      <3>3. rs[j].generation \in Int
        BY DEF Results
      <3> QED
        BY <3>2, <3>3 DEF Binding
    <2> QED
      BY <2>1, <2>2
  <1> QED
    BY <1>1, <1>2, <1>3 DEF Forward, State

--------------------------------------------------------------------------------
(* The inductive invariant.  FileCoversLog is what makes AcceptedInOrder   *)
(* inductive: a report is compared with the file, never with the log.  An  *)
(* approved process still holds results that the state it read accepts.    *)
FInv ==
    /\ log \in Seq(Offers)
    /\ State(file)
    /\ DOMAIN run = Processes
    /\ \A p \in Processes : State(run[p].seen)
    /\ \A p \in Processes :
        run[p].pc = "approved" => run[p].results \in Offers /\ Accepts(run[p].seen, run[p].results)
    /\ FileCoversLog
    /\ AcceptedInOrder

(* What is offered to a process is a sequence of results. *)
LEMMA OfferResults == ASSUME NEW rs \in Offers PROVE Results(rs)
  BY OffersAssumption DEF Results

(* The invariant of the snapshot file holds at the start, ... *)
LEMMA InitFInv == FileInit => FInv
  <1> SUFFICES ASSUME FileInit PROVE FInv
    OBVIOUS
  <1>1. file = <<>> /\ log = <<>> /\ run = [p \in Processes |-> Idle]
    BY DEF FileInit
  <1>2. State(<<>>) /\ log \in Seq(Offers)
    BY <1>1 DEF State
  <1>3. \A p \in Processes : run[p].seen = <<>> /\ run[p].pc = "idle"
    BY <1>1 DEF Idle
  <1>4. FileCoversLog /\ AcceptedInOrder
    BY <1>1 DEF FileCoversLog, AcceptedInOrder
  <1>5. DOMAIN run = Processes
    BY <1>1
  <1>6. \A p \in Processes : State(run[p].seen) /\ run[p].pc # "approved"
    BY <1>2, <1>3
  <1> QED
    BY <1>1, <1>2, <1>4, <1>5, <1>6, ZenonT(30) DEF FInv

(* ... the steps that do not write the file keep it, ... *)
LEMMA QuietStep ==
    ASSUME FInv, NEW p \in Processes, Read(p) \/ Approve(p) \/ Abandon(p)
    PROVE  FInv'
  <1>0. /\ State(file) /\ State(run[p].seen) /\ DOMAIN run = Processes /\ log \in Seq(Offers)
        /\ \A q \in Processes : State(run[q].seen)
        /\ \A q \in Processes :
            run[q].pc = "approved" => run[q].results \in Offers /\ Accepts(run[q].seen, run[q].results)
    BY ZenonT(30) DEF FInv
  <1>1. /\ file' = file /\ log' = log /\ serial' = serial
        /\ DOMAIN run' = Processes
        /\ \A q \in Processes \ {p} : run'[q] = run[q]
    BY <1>0 DEF Read, Approve, Abandon
  <1>2. FileCoversLog' /\ AcceptedInOrder'
    <2>1. FileCoversLog /\ AcceptedInOrder
      BY DEF FInv
    <2>2. FileCoversLog'
      <3> SUFFICES ASSUME serial', NEW n \in DOMAIN log', NEW i \in DOMAIN log'[n],
                          Declares(log'[n][i])
                   PROVE  /\ snapshotKey(log'[n][i]) \in DOMAIN file'
                          /\ Follows(Binding(log'[n][i]), file'[snapshotKey(log'[n][i])])
        BY DEF FileCoversLog
      <3>1. serial /\ n \in DOMAIN log /\ i \in DOMAIN log[n] /\ Declares(log[n][i])
        BY <1>1
      <3>2. /\ snapshotKey(log[n][i]) \in DOMAIN file
            /\ Follows(Binding(log[n][i]), file[snapshotKey(log[n][i])])
        BY <2>1, <3>1, ZenonT(30) DEF FileCoversLog
      <3> QED
        BY <1>1, <3>2
    <2>3. AcceptedInOrder'
      <3> SUFFICES ASSUME serial', NEW m \in DOMAIN log', NEW n \in DOMAIN log', m < n,
                          NEW i \in DOMAIN log'[m], NEW j \in DOMAIN log'[n],
                          Declares(log'[m][i]), Declares(log'[n][j]),
                          snapshotKey(log'[m][i]) = snapshotKey(log'[n][j])
                   PROVE  Follows(Binding(log'[m][i]), Binding(log'[n][j]))
        BY DEF AcceptedInOrder
      <3>1. /\ serial /\ m \in DOMAIN log /\ n \in DOMAIN log
            /\ i \in DOMAIN log[m] /\ j \in DOMAIN log[n]
            /\ Declares(log[m][i]) /\ Declares(log[n][j])
            /\ snapshotKey(log[m][i]) = snapshotKey(log[n][j])
        BY <1>1
      <3>2. Follows(Binding(log[m][i]), Binding(log[n][j]))
        BY <2>1, <3>1, ZenonT(30) DEF AcceptedInOrder
      <3> QED
        BY <1>1, <3>2
    <2> QED
      BY <2>2, <2>3
  <1>3. /\ State(run'[p].seen)
        /\ run'[p].pc = "approved" =>
             run'[p].results \in Offers /\ Accepts(run'[p].seen, run'[p].results)
    <2>1. CASE Read(p)
      <3>1. run'[p] = [pc |-> "read", seen |-> file, results |-> <<>>]
        BY <1>0, <2>1 DEF Read
      <3>2. run'[p].seen = file /\ run'[p].pc = "read"
        BY <3>1
      <3> QED
        BY <1>0, <3>2
    <2>2. CASE Approve(p)
      <3>1. PICK rs \in Offers :
              /\ Accepts(run[p].seen, rs)
              /\ run'[p] = [pc |-> "approved", seen |-> run[p].seen, results |-> rs]
        BY <1>0, <2>2 DEF Approve
      <3>2. run'[p].seen = run[p].seen /\ run'[p].results = rs
        BY <3>1
      <3> QED
        BY <1>0, <3>1, <3>2, ZenonT(30)
    <2>3. CASE Abandon(p)
      <3>1. run'[p] = [pc |-> "idle", seen |-> <<>>, results |-> <<>>]
        BY <1>0, <2>3 DEF Abandon, Idle
      <3> QED
        BY <3>1 DEF State
    <2> QED
      BY <2>1, <2>2, <2>3
  <1>4. \A q \in Processes :
          /\ State(run'[q].seen)
          /\ run'[q].pc = "approved" =>
               run'[q].results \in Offers /\ Accepts(run'[q].seen, run'[q].results)
    <2> TAKE q \in Processes
    <2>1. CASE q = p
      BY <1>3, <2>1, ZenonT(30)
    <2>2. CASE q # p
      <3>1. run'[q] = run[q]
        BY <1>1, <2>2
      <3> QED
        BY <1>0, <3>1, ZenonT(30)
    <2> QED
      BY <2>1, <2>2
  <1> QED
    BY <1>0, <1>1, <1>2, <1>4, ZenonT(30) DEF FInv

(* ... and so does a write, ... *)
LEMMA WriteStep ==
    ASSUME FInv, NEW p \in Processes, Write(p)
    PROVE  FInv'
  <1> DEFINE rs == run[p].results
             s == run[p].seen
  <1>1. /\ file' = NextState(s, rs)
        /\ log' = Append(log, rs)
        /\ serial' => serial /\ file = s
        /\ run' = [run EXCEPT ![p] = Idle]
    BY ZenonT(30) DEF Write
  <1>2. rs \in Offers /\ Accepts(s, rs) /\ State(s)
    BY DEF FInv, Write
  <1>3. Results(rs)
    BY <1>2, OfferResults
  <1> HIDE DEF rs, s
  <1>4. Forward(s, file') /\ State(file')
    BY <1>1, <1>2, <1>3, NextIsForward
  <1>5. /\ log' \in Seq(Offers)
        /\ DOMAIN log' = 1..(Len(log) + 1) /\ DOMAIN log = 1..Len(log) /\ Len(log) \in Nat
        /\ log'[Len(log) + 1] = rs
        /\ \A n \in 1..Len(log) : log'[n] = log[n]
    BY <1>1, <1>2 DEF FInv
  <1>6. \A n \in DOMAIN log' : n \in 1..Len(log) \/ n = Len(log) + 1
    BY <1>5
  <1>7. \A n \in 1..Len(log) : Results(log[n])
    BY <1>5, OfferResults DEF FInv
  <1>8. FileCoversLog'
    <2> SUFFICES ASSUME serial', NEW n \in DOMAIN log', NEW i \in DOMAIN log'[n],
                        Declares(log'[n][i])
                 PROVE  /\ snapshotKey(log'[n][i]) \in DOMAIN file'
                        /\ Follows(Binding(log'[n][i]), file'[snapshotKey(log'[n][i])])
      BY DEF FileCoversLog
    <2>1. CASE n \in 1..Len(log)
      <3> DEFINE k == snapshotKey(log[n][i])
      <3>1. log'[n] = log[n] /\ serial /\ file = s
        BY <1>1, <1>5, <2>1
      <3>2. k \in DOMAIN s /\ Follows(Binding(log[n][i]), s[k])
        BY <1>5, <2>1, <3>1, ZenonT(30) DEF FInv, FileCoversLog
      <3>3. k \in DOMAIN file' /\ Follows(s[k], file'[k])
        BY <1>4, <3>2, ZenonT(30) DEF Forward
      <3>4. /\ s[k].generation \in Int /\ file'[k].generation \in Int
            /\ Binding(log[n][i]).generation \in Int
        <4>1. s[k].generation \in Int /\ file'[k].generation \in Int
          BY <1>2, <1>4, <3>2, <3>3, ZenonT(30) DEF State
        <4>2. log[n][i].generation \in Int
          BY <1>7, <2>1, <3>1, ZenonT(30) DEF Results
        <4> QED
          BY <4>1, <4>2, ZenonT(30) DEF Binding
      <3> HIDE DEF k
      <3>5. Follows(Binding(log[n][i]), file'[k])
        BY <3>2, <3>3, <3>4, FollowsTransitive, ZenonT(30)
      <3> QED
        BY <3>1, <3>3, <3>5 DEF k
    <2>2. CASE n = Len(log) + 1
      BY <1>1, <1>2, <1>3, <1>5, <2>2, NextCovers, ZenonT(30)
    <2> QED
      BY <1>6, <2>1, <2>2
  <1>9. AcceptedInOrder'
    <2> SUFFICES ASSUME serial', NEW m \in DOMAIN log', NEW n \in DOMAIN log', m < n,
                        NEW i \in DOMAIN log'[m], NEW j \in DOMAIN log'[n],
                        Declares(log'[m][i]), Declares(log'[n][j]),
                        snapshotKey(log'[m][i]) = snapshotKey(log'[n][j])
                 PROVE  Follows(Binding(log'[m][i]), Binding(log'[n][j]))
      BY DEF AcceptedInOrder
    <2>1. serial /\ file = s
      BY <1>1
    <2>2. m \in 1..Len(log) /\ log'[m] = log[m]
      BY <1>5
    <2>3. CASE n \in 1..Len(log)
      BY <1>5, <2>1, <2>2, <2>3, ZenonT(30) DEF FInv, AcceptedInOrder
    <2>4. CASE n = Len(log) + 1
      <3> DEFINE k == snapshotKey(rs[j])
      <3>1. log'[n] = rs /\ k = snapshotKey(log[m][i])
        BY <1>5, <2>2, <2>4, ZenonT(30)
      <3>2. k \in DOMAIN s /\ Follows(Binding(log[m][i]), s[k])
        BY <1>5, <2>1, <2>2, <3>1, ZenonT(30) DEF FInv, FileCoversLog
      <3>3. Follows(s[k], Binding(rs[j]))
        BY <1>2, <1>3, <3>1, <3>2, FollowsState, ZenonT(30)
      <3>4. /\ s[k].generation \in Int /\ Binding(rs[j]).generation \in Int
            /\ Binding(log[m][i]).generation \in Int
        BY <1>2, <1>3, <1>7, <2>2, <3>1, <3>2, ZenonT(30) DEF State, Results, Binding
      <3> HIDE DEF k
      <3> QED
        BY <2>2, <3>1, <3>2, <3>3, <3>4, FollowsTransitive, ZenonT(30)
    <2> QED
      BY <1>6, <2>3, <2>4
  <1>10. \A q \in Processes : run'[q] = IF q = p THEN Idle ELSE run[q]
    BY <1>1 DEF FInv
  <1>11. /\ DOMAIN run' = Processes
         /\ \A q \in Processes : State(run'[q].seen)
         /\ \A q \in Processes : run'[q].pc = "approved" =>
               run'[q].results \in Offers /\ Accepts(run'[q].seen, run'[q].results)
    <2>1. DOMAIN run' = Processes
      BY <1>1 DEF FInv
    <2>2. ASSUME NEW q \in Processes
          PROVE  /\ State(run'[q].seen)
                 /\ run'[q].pc = "approved" =>
                      run'[q].results \in Offers /\ Accepts(run'[q].seen, run'[q].results)
      <3>1. CASE q = p
        BY <1>10, <3>1 DEF Idle, State
      <3>2. CASE q # p
        <4>1. run'[q] = run[q]
          BY <1>10, <3>2
        <4> QED
          BY <4>1, ZenonT(30) DEF FInv
      <3> QED
        BY <3>1, <3>2
    <2> QED
      BY <2>1, <2>2, ZenonT(30)
  <1> QED
    BY <1>4, <1>5, <1>8, <1>9, <1>11, ZenonT(30) DEF FInv

(* ... hence every step. *)
LEMMA NextFInv == FInv /\ [FileNext]_fileVars => FInv'
  <1> SUFFICES ASSUME FInv, [FileNext]_fileVars PROVE FInv'
    OBVIOUS
  <1>1. CASE UNCHANGED fileVars
    <2>1. file' = file /\ run' = run /\ log' = log /\ serial' = serial
      BY <1>1 DEF fileVars
    <2> QED
      BY <2>1, SMTT(30) DEF FInv, FileCoversLog, AcceptedInOrder
  <1>2. ASSUME NEW p \in Processes, Read(p) \/ Approve(p) \/ Abandon(p) PROVE FInv'
    BY <1>2, QuietStep
  <1>3. ASSUME NEW p \in Processes, Write(p) PROVE FInv'
    BY <1>3, WriteStep
  <1> QED
    BY <1>1, <1>2, <1>3 DEF FileNext

(* FileSpec preserves the inductive invariant: every write of the state    *)
(* file by verify-report applies a report the state it read accepts.       *)
THEOREM FileInvariant == FileSpec => []FInv
  BY InitFInv, NextFInv, PTL DEF FileSpec

(* While no two runs of verify-report overlapped, the state file covers    *)
(* every accepted report, and no accepted report rolls back or forks the   *)
(* snapshot of an earlier one (main.go loads the state, Check compares the *)
(* results with it, WriteStateFile replaces it).                           *)
THEOREM SerialRunsKeepOrder == FileSpec => [](FileCoversLog /\ AcceptedInOrder)
  <1>1. FInv => FileCoversLog /\ AcceptedInOrder
    BY DEF FInv
  <1> QED
    BY <1>1, FileInvariant, PTL

(* Every write that takes the state file back replaces a state its process *)
(* has not read: the missing lock between loadState and WriteStateFile is  *)
(* the only way to lose an accepted snapshot.                              *)
THEOREM OverlapIsTheOnlyCause == FileSpec => OnlyOverlapTakesBack
  <1> DEFINE Caused == ~Forward(file, file') =>
                         \E p \in Processes : run[p].pc = "approved" /\ run'[p].pc = "idle"
                                              /\ run[p].seen # file
  <1>1. FInv /\ [FileNext]_fileVars => [Caused]_fileVars
    <2> SUFFICES ASSUME FInv, FileNext, ~Forward(file, file')
                 PROVE  \E p \in Processes : run[p].pc = "approved" /\ run'[p].pc = "idle"
                                            /\ run[p].seen # file
      BY DEF fileVars
    <2>1. Forward(file, file)
      BY FollowsItself DEF Forward
    <2>2. PICK p \in Processes : Write(p)
      BY <2>1 DEF FileNext, Read, Approve, Abandon
    <2>3. run[p].pc = "approved" /\ run'[p].pc = "idle"
      BY <2>2 DEF Write, FInv, Idle
    <2>4. ASSUME run[p].seen = file PROVE FALSE
      <3>1. /\ run[p].results \in Offers /\ Accepts(file, run[p].results) /\ State(file)
            /\ file' = NextState(file, run[p].results)
        BY <2>2, <2>3, <2>4 DEF Write, FInv
      <3>2. Forward(file, file')
        BY <3>1, OfferResults, NextIsForward
      <3> QED
        BY <3>2
    <2> QED
      BY <2>3, <2>4
  <1> HIDE DEF Caused
  <1>2. FileSpec => [][Caused]_fileVars
    BY <1>1, FileInvariant, PTL DEF FileSpec
  <1> QED
    BY <1>2 DEF OnlyOverlapTakesBack, Caused
================================================================================
