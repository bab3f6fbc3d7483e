------------------------------ MODULE ClcDecision ------------------------------
(***************************************************************************)
(* What is done with a decision once it is made, in package semantics: its *)
(* shape, the combination of several (combine.go), the resolution of its   *)
(* residual obligations (resolve.go), their discharge (obligations.go),    *)
(* the freshness context it was made under (context.go) and the challenge  *)
(* that names what is outstanding (challenge.go).                          *)
(*                                                                         *)
(* A decision is [verdict, reason, unresolved], the obligations a set of   *)
(* constraints; the code keeps them as a sorted list.                      *)
(***************************************************************************)
EXTENDS ClcConstraint

Verdicts == {"allow", "deny", "allow_unresolved"}

Deny(why) == [verdict |-> "deny", reason |-> why, unresolved |-> {}]
Allow(residual) == [verdict |-> IF residual = {} THEN "allow" ELSE "allow_unresolved",
                    reason |-> <<"", "">>, unresolved |-> residual]

--------------------------------------------------------------------------------
(* Obligations *)

(* ConstraintIdentity and ObligationIdentities. *)
ConstraintIdentity(c) == c[1]
ObligationIdentities(d) == {ConstraintIdentity(c) : c \in d.unresolved}

checkDecisionShape(d) ==
    Unless("" \notin ObligationIdentities(d), "obligation_unknown")
    ?? Unless(/\ d.verdict \in Verdicts
              /\ (d.verdict = "allow_unresolved") <=> (d.unresolved # {}), "obligation_shape")

Discharge(d, understood) ==
    checkDecisionShape(d)
    ?? Unless(d.verdict = "allow_unresolved" => ObligationIdentities(d) \subseteq understood,
              "obligation_unknown")

--------------------------------------------------------------------------------
(* Combination of a sequence of decisions: <<reasons, decision>>. *)

Algorithms == {"deny-overrides", "permit-overrides", "first-applicable"}

Denying(ds) == {i \in DOMAIN ds : ds[i].verdict = "deny"}
FirstDeny(ds) ==
    Deny(ds[CHOOSE i \in Denying(ds) : \A j \in Denying(ds) : i <= j].reason)
Owed(ds) == UNION {ds[i].unresolved : i \in DOMAIN ds}

combineDenyOverrides(ds) ==
    <<{}, IF Denying(ds) # {} THEN FirstDeny(ds) ELSE Allow(Owed(ds))>>

combinePermitOverrides(ds) ==
    IF \E i \in DOMAIN ds : ds[i].verdict = "allow"
    THEN <<Unless(Owed(ds) = {}, "combining_would_drop_obligations"), Allow({})>>
    ELSE combineDenyOverrides(ds)

Combine(alg, ds) ==
    LET bad == Unless(alg \in Algorithms, "unknown_combining_algorithm")
               ?? Unless(ds # <<>>, "no_decisions")
               ?? FirstOf([i \in DOMAIN ds |-> checkDecisionShape(ds[i])])
    IN  IF bad # {} THEN <<bad, Deny(<<"", "">>)>>
        ELSE CASE alg = "first-applicable" -> <<{}, ds[1]>>
               [] alg = "permit-overrides" -> combinePermitOverrides(ds)
               [] OTHER -> combineDenyOverrides(ds)

--------------------------------------------------------------------------------
(* Resolution.  A report is a pair <<constraint, status>>; the instant is  *)
(* a number, NoClock when it is absent and BadClock when it does not parse.*)

Statuses == {"satisfied", "violated", "unknown"}
NoClock == -1
BadClock == -2

validReport(r) == r[1] # <<>> /\ r[2] \in Statuses

(* The statuses that bear on an obligation; stricterStatus picks violated  *)
(* before satisfied before unknown.                                        *)
StatusesOf(o, reports, now) ==
    {r[2] : r \in {s \in reports : s[1] = o}}
    \cup (IF now = NoClock \/ ~ClockDecides(o) THEN {}
          ELSE {IF InWindow(o, now) THEN "satisfied" ELSE "violated"})
stricterStatus(statuses) ==
    IF "violated" \in statuses THEN "violated"
    ELSE IF "satisfied" \in statuses THEN "satisfied" ELSE "unknown"

WithStatus(d, reports, now, status) ==
    {o \in d.unresolved : stricterStatus(StatusesOf(o, reports, now)) = status}

(* The first violated obligation in the sorted order names the reason. *)
violatedReason(os) == <<"violated", ConstraintIdentity(CHOOSE o \in os : TRUE)>>

\* Variant: any report settles every obligation that was not violated.
ResolveAll(d, reports, now) ==
    LET violated == WithStatus(d, reports, now, "violated")
    IN  IF d.verdict # "allow_unresolved" THEN d
        ELSE IF violated # {} THEN Deny(violatedReason(violated))
        ELSE IF reports = {} THEN d ELSE Allow({})

Resolve(d, reports, now) ==
    LET violated == WithStatus(d, reports, now, "violated")
    IN  IF d.verdict \in {"allow", "deny"} THEN d
        ELSE IF d.verdict \notin Verdicts \/ \E r \in reports : ~validReport(r)
             THEN Deny(<<"invalid_resolution", "">>)
        ELSE IF now = BadClock THEN Deny(<<"invalid_timestamp", "">>)
        ELSE IF violated # {} THEN Deny(violatedReason(violated))
        ELSE Allow(WithStatus(d, reports, now, "unknown"))

--------------------------------------------------------------------------------
(* Freshness.  A context is [at, maxAge, implicit]: at is 0 when it pins   *)
(* no instant, maxAge 0 when it sets no bound, and implicit tells whether  *)
(* it pins a nonce or an epoch.                                            *)

validContext(c) ==
    Unless(c.maxAge >= 0 /\ (c.maxAge > 0 => c.at # 0), "context_shape")
    ?? Unless(c.at # 0 \/ c.implicit, "context_missing")

\* Variant: a context from the future is fresh.
FreshAhead(c, now) ==
    validContext(c)
    ?? Unless(c.at # 0, "context_no_clock")
    ?? Unless(c.maxAge > 0 => now - c.at <= c.maxAge, "context_stale")

Fresh(c, now) ==
    validContext(c)
    ?? Unless(c.at # 0, "context_no_clock")
    ?? Unless(c.at <= now, "context_future")
    ?? Unless(c.maxAge > 0 => now - c.at <= c.maxAge, "context_stale")

--------------------------------------------------------------------------------
(* Challenges: [required, expires, notBefore], notBefore 0 without a       *)
(* schedule.  A required item is named by what it asks for.                *)

validChallenge(c) ==
    Unless(c.required # {} /\ c.expires # 0 /\ c.notBefore <= c.expires, "challenge_shape")

(* <<reasons, challenge>> *)
BuildChallengeFromDecision(d, now, ttl, notBefore) ==
    LET c == [required |-> d.unresolved, expires |-> now + ttl, notBefore |-> notBefore]
    IN  <<checkDecisionShape(d)
          ?? Unless(d.verdict = "allow_unresolved", "challenge_not_outstanding")
          ?? validChallenge(c), c>>

Usable(c, now) ==
    validChallenge(c)
    ?? Unless(now < c.expires, "challenge_expired")
    ?? Unless(now >= c.notBefore, "challenge_retry_not_before")
================================================================================
