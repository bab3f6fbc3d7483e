----------------------------- MODULE ClcEnforcement -----------------------------
(***************************************************************************)
(* An enforcement point of the capability language: it collects decisions, *)
(* combines them, resolves the obligations as reports come in and the      *)
(* clock moves, hands out a challenge for what is outstanding, and acts.   *)
(* Each step is one call of package semantics; the order of the calls is   *)
(* the caller's, and the clocks of the two sides may differ.               *)
(***************************************************************************)
EXTENDS ClcDecision

CONSTANTS
    Decisions,      \* the decisions that may arrive
    Reports,        \* the sets of reports a caller may hand to Resolve
    Understood,     \* the obligation identities this consumer will discharge
    MaxSources, MaxTime, MaxAge, TTL, Delay, Skew

ASSUME EnforcementAssumption ==
    /\ {MaxSources, MaxTime, MaxAge, TTL, Delay, Skew} \subseteq Nat
    /\ MaxAge > 0 /\ MaxTime > 0

VARIABLES
    clock,
    sources,        \* the decisions received, in the order of arrival
    decision,       \* the combined decision, verdict "none" before there is one
    algorithm,      \* the combining algorithm, "" before there is one
    owed,           \* history: the obligations of the combined decision
    met,            \* history: the obligations a report or the clock showed satisfied
    context,        \* the DecisionContext pinned with the decision
    challenge,      \* the outstanding challenge; none when nothing is required
    attempt,        \* "first", or "again" once a challenge was answered
    acted           \* the instant the consumer acted, NoClock before

vars == <<clock, sources, decision, algorithm, owed, met, context, challenge, attempt, acted>>

None == [verdict |-> "none", reason |-> <<"", "">>, unresolved |-> {}]
NoChallenge == [required |-> {}, expires |-> 0, notBefore |-> 0]
NoContext == [at |-> 0, maxAge |-> 0, implicit |-> FALSE]

Init ==
    /\ clock = 1
    /\ sources = <<>>
    /\ decision = None
    /\ algorithm = ""
    /\ owed = {} /\ met = {}
    /\ context = NoContext
    /\ challenge = NoChallenge
    /\ attempt = "first"
    /\ acted = NoClock

Tick ==
    /\ clock < MaxTime
    /\ clock' = clock + 1
    /\ UNCHANGED <<sources, decision, algorithm, owed, met, context, challenge, attempt, acted>>

Receive(d) ==
    /\ decision = None /\ Len(sources) < MaxSources
    /\ sources' = Append(sources, d)
    /\ UNCHANGED <<clock, decision, algorithm, owed, met, context, challenge, attempt, acted>>

(* The context is stamped by a clock that may be ahead by up to Skew. *)
CombineSources(alg, skew) ==
    LET result == Combine(alg, sources)
    IN  /\ decision = None
        /\ result[1] = {}
        /\ decision' = result[2]
        /\ algorithm' = alg
        /\ owed' = result[2].unresolved
        /\ context' = [at |-> clock + skew, maxAge |-> MaxAge, implicit |-> FALSE]
        /\ UNCHANGED <<clock, sources, met, challenge, attempt, acted>>

(* History: what a call of Resolve was told about an obligation. *)
Attested(o, reports, now) ==
    \/ \E r \in reports : r[1] = o /\ r[2] = "satisfied"
    \/ now >= 0 /\ ClockDecides(o) /\ InWindow(o, now)

ResolveWith(reports, now) ==
    /\ decision # None /\ acted = NoClock
    /\ decision' = Resolve(decision, reports, now)
    /\ met' = IF decision'.verdict = "deny" THEN met
              ELSE met \cup {o \in decision.unresolved : Attested(o, reports, now)}
    /\ UNCHANGED <<clock, sources, algorithm, owed, context, challenge, attempt, acted>>

IssueChallenge(delay) ==
    LET built == BuildChallengeFromDecision(decision, clock, TTL, clock + delay)
    IN  /\ decision # None /\ acted = NoClock
        /\ challenge = NoChallenge /\ attempt = "first"
        /\ built[1] = {}
        /\ challenge' = built[2]
        /\ UNCHANGED <<clock, sources, decision, algorithm, owed, met, context, attempt, acted>>

(* A corrected presentation: the evaluation starts over. *)
Retry ==
    /\ challenge # NoChallenge /\ acted = NoClock
    /\ Usable(challenge, clock) = {}
    /\ sources' = <<>> /\ decision' = None /\ algorithm' = ""
    /\ owed' = {} /\ met' = {}
    /\ context' = NoContext
    /\ challenge' = NoChallenge
    /\ attempt' = "again"
    /\ UNCHANGED <<clock, acted>>

(* The consumer acts on an allow whose obligations it takes on, while the  *)
(* context is fresh (Discharge, VerifyAsOf).                               *)
Act ==
    /\ acted = NoClock
    /\ decision.verdict \in {"allow", "allow_unresolved"}
    /\ Discharge(decision, Understood) = {}
    /\ Fresh(context, clock) = {}
    /\ acted' = clock
    /\ UNCHANGED <<clock, sources, decision, algorithm, owed, met, context, challenge, attempt>>

(* Everything but the arrival of a decision. *)
Enforce ==
    \/ Tick
    \/ \E alg \in Algorithms, skew \in 0..Skew : CombineSources(alg, skew)
    \/ \E reports \in Reports, now \in {clock, NoClock, BadClock} : ResolveWith(reports, now)
    \/ \E delay \in 0..Delay : IssueChallenge(delay)
    \/ Retry
    \/ Act

Next == Enforce \/ \E d \in Decisions : Receive(d)

Spec == Init /\ [][Next]_vars

--------------------------------------------------------------------------------
TypeOK ==
    /\ clock \in 1..MaxTime
    /\ sources \in Seq(Decisions) /\ Len(sources) <= MaxSources
    /\ decision = None \/ decision.verdict \in Verdicts
    /\ context.at \in 0..(MaxTime + Skew)
    /\ attempt \in {"first", "again"}
    /\ acted \in {NoClock} \cup 1..MaxTime

(* Resolve neither drops nor invents an obligation: at every moment each   *)
(* obligation of the combined decision is either still unresolved or was   *)
(* reported satisfied or found so by the clock, and never both, over any   *)
(* sequence of partial, repeated and contradictory reports and clock       *)
(* readings (resolve.go).                                                  *)
ObligationsAreConserved ==
    decision.verdict \in {"allow", "allow_unresolved"} =>
        /\ owed = decision.unresolved \cup met
        /\ decision.unresolved \cap met = {}

(* Combining drops no obligation: unless the consumer pinned               *)
(* first-applicable, which by its definition looks at one source only, an  *)
(* allow carries every obligation of every source, in any order of         *)
(* arrival, and under deny-overrides no source denied (combine.go,         *)
(* "Obligations are never dropped").                                       *)
CombineKeepsObligations ==
    /\ decision.verdict \in {"allow", "allow_unresolved"}
    /\ algorithm # "first-applicable"
    => /\ owed = Owed(sources)
       /\ algorithm = "deny-overrides" => Denying(sources) = {}

(* A decision that reaches the consumer has the shape Discharge and        *)
(* Combine ask for, whatever shape arrived: a malformed source is never    *)
(* combined (combine.go, obligations.go).                                  *)
DecisionKeepsShape == decision # None => checkDecisionShape(decision) = {}

(* The consumer acts only on an obligation set it met or understands, and  *)
(* only while the context is fresh, even if the clock moved or the context *)
(* was stamped ahead of the consumer's clock (context.go Fresh).           *)
ActsOnlyInForce ==
    acted # NoClock =>
        /\ {ConstraintIdentity(o) : o \in owed \ met} \subseteq Understood
        /\ context.at <= acted /\ acted <= context.at + MaxAge

(* Deny is final: no report, no clock reading and no repeated call turns a *)
(* combined denial into anything else; only a new presentation, made while *)
(* its challenge is in force, starts over (resolve.go rule 1,              *)
(* challenge.go Usable).                                                   *)
DenyIsFinal ==
    [][decision.verdict = "deny" =>
          \/ decision' = decision
          \/ /\ decision' = None
             /\ clock < challenge.expires /\ clock >= challenge.notBefore]_vars

(* Obligations only shrink between two combinations (resolve.go, "monotone").*)
ResolveIsMonotone ==
    [][decision # None /\ decision' # None => decision'.unresolved \subseteq decision.unresolved]_vars
================================================================================
