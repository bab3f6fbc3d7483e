------------------------------ MODULE ReportIntake ------------------------------
(***************************************************************************)
(* Evidence reports from their producers to a deployer: producers appraise *)
(* native evidence and sign reports (package projection), a timestamp      *)
(* authority stamps them, and invocations of verify-report                 *)
(* (cmd/internal/verify-report/main.go) accept or refuse them against a    *)
(* policy and the accepted snapshot state they keep in a file.  Reports    *)
(* stay in circulation: they may be presented late, twice, out of order,   *)
(* with the stamp of another report, or never.                             *)
(*                                                                         *)
(* The stage chosen at the start fixes what happens: "text" types the      *)
(* expression of a requirement token by token; "registry" registers        *)
(* projectors; any other stage is a scenario of reports and policies.      *)
(***************************************************************************)
EXTENDS EvidenceReport, SnapshotFile

CONSTANTS
    Scenarios,      \* stage -> [inputs, edits, policies, processes] and bounds
    Tokens, Texts, MaxText,                 \* what is typed
    Projectors, Documents, RoleMaps, Evidence,  \* what is projected, and onto which facts
    TsaCert, OtherCert,                     \* certificates of the authority, of another signer
    WeakerProfile, WeakerRequirement,       \* what a producer may put in place of the pinned ones
    MaxTime, MaxGeneration                  \* bounds over all the scenarios

VARIABLES
    stage,
    text,           \* the expression typed so far
    registry,       \* the projectors registered
    clock,
    generation,     \* the snapshot the status authority has published
    issued,         \* the signed reports in circulation
    stamps,         \* the timestamps made, as <<report, instant>>
    held,           \* per process: the report it read, and its flags
    accepted        \* what was held when each report was accepted, beside log

world == <<stage, text, registry>>
supply == <<clock, generation, issued, stamps>>
vars == <<world, supply, held, accepted, fileVars>>

Here == Scenarios[stage]
Reporting == stage \in DOMAIN Scenarios
Nothing == [report |-> 0, stamp |-> <<>>, attestation |-> <<>>, policy |-> <<>>, at |-> 0]

Init ==
    /\ stage \in DOMAIN Scenarios \cup {"text", "registry"}
    /\ text \in IF stage = "text" THEN Texts \cup {<<>>} ELSE {<<>>}
    /\ registry = BuiltIn
    /\ clock = 2 /\ generation = 1
    /\ issued = <<>> /\ stamps = {}
    /\ held = [p \in Processes |-> Nothing]
    /\ accepted = <<>>
    /\ FileInit

--------------------------------------------------------------------------------

(* A requirement's expression gets its next token. *)
Type(t) ==
    /\ stage = "text" /\ Len(text) < MaxText
    /\ text' = Append(text, t)
    /\ UNCHANGED <<stage, registry, supply, held, accepted, fileVars>>

(* Register, under the package's mutex. *)
Register(p) ==
    /\ stage = "registry"
    /\ registry' = Registered(registry, p)
    /\ UNCHANGED <<stage, text, supply, held, accepted, fileVars>>

Tick ==
    /\ Reporting /\ clock < Here.time
    /\ clock' = clock + 1
    /\ UNCHANGED <<world, generation, issued, stamps, held, accepted, fileVars>>

(* The status authority publishes its next snapshot. *)
Publish ==
    /\ Reporting /\ generation < Here.generations
    /\ generation' = generation + 1
    /\ UNCHANGED <<world, clock, issued, stamps, held, accepted, fileVars>>

(* What the native verifier hands over now: the template's ages become     *)
(* instants, its snapshot is the published one.                            *)
Issued(f) == IF f.issued = 0 THEN f ELSE [f EXCEPT !.issued = clock + 1 - @]
Gathered(in) ==
    [in EXCEPT
        !.facts = [i \in DOMAIN @ |-> Issued(@[i])],
        !.records = [i \in DOMAIN @ |-> [@[i] EXCEPT !.fact = [j \in DOMAIN @ |-> Issued(@[j])]]],
        !.results = [i \in DOMAIN @ |-> [@[i] EXCEPT
                        !.at = clock, !.generation = IF @ = 1 THEN generation ELSE @]]]

InCirculation(env, own) ==
    /\ issued' = Append(issued, [payload |-> env.payload, canonical |-> env.canonical,
                                 signatures |-> env.signatures, own |-> own])
    /\ UNCHANGED <<world, clock, generation, stamps, held, accepted, fileVars>>

(* A producer builds and signs a report. *)
Signed(built, cert) == IF built[1] # {} THEN <<built[1], <<>>>> ELSE SignEvidenceReport(built[2], cert)
Sent(outcome) == outcome[1] = {} /\ InCirculation(outcome[2], TRUE)
Appraise(in) ==
    /\ Reporting /\ Len(issued) < Here.own
    /\ Sent(Signed(BuildEvidenceReport(Gathered(in), clock), in.cert))

(* A report by a producer that is not this package: it differs from one    *)
(* this package built in a single respect.                                 *)
Friendlier(rep) == [rep.satisfaction[1] EXCEPT !.verdict = "satisfied", !.expression = TRUE, !.missing = {}]
Differing(env, rep, edit) ==
    CASE edit = "verdict" -> [rep EXCEPT !.satisfaction = <<Friendlier(rep)>>]
      [] edit = "no verdict" -> [rep EXCEPT !.satisfaction = <<>>]
      [] edit = "complete" -> [rep EXCEPT !.complete = ~@]
      [] edit = "assessment" -> [rep EXCEPT !.assessment = <<Assessment({}, {}, {}, <<"any">>)>>, !.complete = TRUE]
      [] edit = "records" -> [rep EXCEPT !.records = <<>>, !.derivations = <<>>, !.assurance = "E1"]
      [] edit = "profile" -> [rep EXCEPT !.profile = <<WeakerProfile>>, !.complete = TRUE,
                                         !.assessment = <<>>]
      [] edit = "requirement" ->
           [rep EXCEPT !.requirement = <<WeakerRequirement>>, !.projected = <<WeakerRequirement>>,
                       !.satisfaction = <<EvaluateRequirement(WeakerRequirement, rep.facts, Ctx(rep.appraisal))>>]
      [] edit = "date" -> [rep EXCEPT !.appraisal = @ + 2]
      [] OTHER -> rep
Resigned(env, rep, edit) ==
    [payload |-> rep, canonical |-> edit # "form",
     signatures |->
        CASE edit = "unsigned" -> <<>>
          [] edit = "other signer" -> <<[cert |-> OtherCert, over |-> rep]>>
          [] edit = "second signer" -> <<[cert |-> env.signatures[1].cert, over |-> rep],
                                         [cert |-> OtherCert, over |-> rep]>>
          [] edit = "altered" -> <<[cert |-> env.signatures[1].cert, over |-> [rep EXCEPT !.complete = ~@]]>>
          [] OTHER -> <<[cert |-> env.signatures[1].cert, over |-> rep]>>]
SendOther(i, edit) ==
    /\ Len(issued) < Here.reports
    /\ edit = "verdict" => issued[i].payload.satisfaction # <<>>
    /\ InCirculation(Resigned(issued[i], Differing(issued[i], issued[i].payload, edit), edit), FALSE)

(* NewTimestampAssertion over a report's envelope. *)
Stamp(i) ==
    /\ Cardinality(stamps) < Here.stamps
    /\ stamps' = stamps \cup {<<i, clock>>}
    /\ UNCHANGED <<world, clock, generation, issued, held, accepted, fileVars>>

--------------------------------------------------------------------------------
(* verify-report. *)

StampOf(s) == IF s = <<>> THEN <<>> ELSE <<NewTimestampAssertion(issued[s[1]], s[2], TsaCert)>>
AttestationOf(a) == IF a = <<>> THEN <<>> ELSE <<EnvelopeDigest(issued[a[1]])>>

(* The process reads its flags, a signed report and the state file. *)
Load(p, i, stamp, attestation, policy) ==
    /\ p \in Here.processes /\ Len(accepted) < Here.accepted
    /\ Read(p)
    /\ held' = [held EXCEPT ![p] = [report |-> i, stamp |-> stamp, attestation |-> attestation,
                                    policy |-> <<policy>>, at |-> 0]]
    /\ UNCHANGED <<world, supply, accepted>>

(* VerifySignedReport, against the state that was read. *)
Refusal(p) ==
    VerifySignedReport(issued[held[p].report], StampOf(held[p].stamp), AttestationOf(held[p].attestation),
                       held[p].policy[1], run[p].seen, clock)
Coordinate(r) == [source |-> r.source, component |-> r.component, evidence |-> r.evidence,
                  generation |-> r.generation, digest |-> r.digest]
Reported(p) == LET rs == issued[held[p].report].payload.results
               IN  [i \in DOMAIN rs |-> Coordinate(rs[i])]

Verify(p) ==
    /\ run[p].pc = "read"
    /\ IF Refusal(p) = {}
       THEN /\ run' = [run EXCEPT ![p].pc = "approved", ![p].results = Reported(p)]
            /\ held' = [held EXCEPT ![p].at = clock]
       ELSE /\ run' = [run EXCEPT ![p] = Idle]
            /\ held' = [held EXCEPT ![p] = Nothing]
    /\ UNCHANGED <<world, supply, accepted, file, log, serial>>

(* -state-out: WriteStateFile replaces the file in one step. *)
Save(p) ==
    /\ Write(p)
    /\ accepted' = Append(accepted, held[p])
    /\ held' = [held EXCEPT ![p] = Nothing]
    /\ UNCHANGED <<world, supply>>

(* The process is killed, or the write fails. *)
Crash(p) ==
    /\ Abandon(p)
    /\ held' = [held EXCEPT ![p] = Nothing]
    /\ UNCHANGED <<world, supply, accepted>>

Attestations == {<<>>} \cup {<<i>> : i \in DOMAIN issued}
Next ==
    \/ \E t \in Tokens : Type(t)
    \/ \E p \in Projectors : Register(p)
    \/ Tick \/ Publish
    \/ Reporting /\ \E in \in Here.inputs : Appraise(in)
    \/ Reporting /\ \E i \in DOMAIN issued, e \in Here.edits : SendOther(i, e)
    \/ Reporting /\ \E i \in DOMAIN issued : Stamp(i)
    \/ Reporting /\ \E p \in Processes, i \in DOMAIN issued, s \in stamps \cup {<<>>}, policy \in Here.policies :
          \E a \in IF policy.attestor = "" THEN {<<>>} ELSE Attestations : Load(p, i, s, a, policy)
    \/ \E p \in Processes : Verify(p) \/ Save(p) \/ Crash(p)

Spec == Init /\ [][Next]_vars

--------------------------------------------------------------------------------
(* The meaning of an expression by its grammar alone: the values its       *)
(* derivations give, none when it has none.  Operators bind equally and to *)
(* the left.                                                               *)
RECURSIVE ExprValues(_, _), TermValues(_, _)
Symbols == {"(", ")", "AND", "&&", "OR", "||", "?"}
Split(t) == {i \in 2..(Len(t) - 1) : t[i] \in {"AND", "&&", "OR", "||"}}
TermValues(t, present) ==
    IF Len(t) = 1 THEN IF t[1] \in Symbols THEN {} ELSE {(t[1] \in present)}
    ELSE IF Len(t) >= 3 /\ t[1] = "(" /\ t[Len(t)] = ")" THEN ExprValues(SubSeq(t, 2, Len(t) - 1), present)
    ELSE {}
ExprValues(t, present) ==
    TermValues(t, present)
    \cup UNION {{IF t[i] \in {"AND", "&&"} THEN x /\ y ELSE x \/ y :
                    x \in ExprValues(SubSeq(t, 1, i - 1), present),
                    y \in TermValues(SubSeq(t, i + 1, Len(t)), present)} : i \in Split(t)}

Nesting(t) == {Cardinality({j \in 1..i : t[j] = "("}) - Cardinality({j \in 1..(i - 1) : t[j] = ")"}) :
                 i \in DOMAIN t}
WithinLimits(t) ==
    /\ \A d \in Nesting(t) : d <= MaxDepth
    /\ Cardinality({i \in DOMAIN t : requirementOperator(t[i]) # ""}) <= MaxNodes

Means(req, present) == TRUE \in ExprValues(req.text, present)

(* What a constraint asks of a role's facts, said without the evaluator. *)
Holds(c, role, facts, now) ==
    LET good == {f \in ToSet(facts) : f.verified /\ f.type = role}
    IN  CASE c[1] = "freshness" -> good # {} /\ \A f \in good : f.issued \in (now - c[2])..now \ {0}
          [] c[1] = "quorum" -> Cardinality({f.subject : f \in {g \in good : g.subject # ""}}) >= c[2]
          [] OTHER -> FALSE

BarIsMet(req, facts, now) ==
    /\ Means(req, {f.type : f \in {g \in ToSet(facts) : g.verified}})
    /\ \A c \in ToSet(req.constraints) : Holds(c.constraint, c.role, facts, now)

--------------------------------------------------------------------------------
(* Properties. *)

(* The hand-written parser accepts exactly the texts of the grammar within *)
(* its limits, and its tree has the grammar's only value, whichever roles  *)
(* are present (parseRequirementExpression, "the two operators bind        *)
(* equally, so parentheses are the only precedence mechanism").            *)
ParserFollowsGrammar ==
    stage = "text" =>
        \A present \in SUBSET (Tokens \ Symbols) :
            LET parsed == parseRequirementExpression(text)
                values == ExprValues(text, present)
            IN  /\ parsed.bad = {} => values = {eval(parsed.expr, present)}
                /\ WithinLimits(text) => (parsed.bad = {} <=> values # {})

(* A later registration never changes which projector a document gets      *)
(* ("a later registration must not shadow an established mapping").        *)
FoundIsFoundForGood ==
    stage = "registry" =>
        \A d \in Documents, earlier \in {BuiltIn} \cup Prefixes(registry) :
            Find(earlier, d) # {} => Find(registry, d) = Find(earlier, d)

(* Facts that satisfy a projected requirement meet the bar of the foreign  *)
(* document it came from: its expression, every freshness bound and quorum *)
(* on the pinned role, and one derived role per required binding.          *)
ProjectionKeepsTheBar ==
    stage = "registry" =>
        \A d \in Documents, roleMap \in RoleMaps, facts \in Evidence :
            LET view == Normalize(registry, d, roleMap)
                present == {f.type : f \in {g \in ToSet(facts) : g.verified}}
            IN  (/\ view[1] = {} /\ d.format = AEC
                 /\ EvaluateRequirement(view[2].requirement, facts, Ctx(MaxTime)).verdict = "satisfied")
                => /\ ExprValues(d.text, present) \in {{TRUE}, {}}
                   /\ \A b \in ToSet(d.bindings) : BindingRole[b] \in present
                   /\ \A b \in ToSet(d.freshness) :
                        Holds(<<"freshness", b[2]>>, roleMap[b[1]], facts, MaxTime)
                   /\ \A q \in ToSet(d.quorums) :
                        Holds(<<"quorum", q.threshold>>, roleMap[q.component], facts, MaxTime)

(* From the text a verifier receives to the requirement it evaluates,      *)
(* nothing changes its meaning: parsing, the choice of the projector, and  *)
(* the projection.                                                         *)
RequirementsKeepTheirMeaning ==
    ParserFollowsGrammar /\ FoundIsFoundForGood /\ ProjectionKeepsTheBar

Reports == {[rep |-> issued[a.report].payload, env |-> issued[a.report], policy |-> a.policy[1],
             at |-> a.at, stamped |-> a.stamp # <<>>, attested |-> a.attestation # <<>>] :
              a \in ToSet(accepted)}

(* An accepted report reports exactly the inventory of the profile the     *)
(* deployer pinned: each expected component once, nothing else, and every  *)
(* check that profile, report or deployer requires.                        *)
AcceptedIsComplete ==
    \A a \in Reports : a.policy.profile # <<>> /\ a.policy.profile[1].status = "required" =>
        LET p == a.policy.profile[1]
            keys == [i \in DOMAIN a.rep.results |-> resultKey(a.rep.results[i])]
        IN  /\ ToSet(keys) = ToSet(p.expectations) /\ IsInjective(keys)
            /\ ToSet(p.required) \cup a.policy.required \cup a.rep.required
                 \subseteq {k[1] : k \in ToSet(keys)}

(* The verdict of an accepted report is the truth about the requirement    *)
(* the deployer pinned: satisfied exactly when the report's verified facts *)
(* meet that bar at the appraisal (recomputeSatisfaction).                 *)
VerdictIsTruthful ==
    \A a \in Reports : a.rep.satisfaction # <<>> =>
        /\ a.rep.requirement = a.policy.requirement
        /\ (a.rep.satisfaction[1].verdict = "satisfied"
            <=> BarIsMet(a.policy.requirement[1], a.rep.facts, a.rep.appraisal))

(* Every fact of an accepted profile report comes from one record, whose   *)
(* artifact the signing verifier itself reported checks on; at assurance   *)
(* E2 it is derived from that artifact, and at E3 the report was attested. *)
EveryFactHasOneOrigin ==
    \A a \in Reports : a.rep.profile # <<>> =>
        /\ \A n \in DOMAIN a.rep.facts :
             \E i \in DOMAIN a.rep.records :
                LET rec == a.rep.records[i]
                    gates == {r \in ToSet(a.rep.results) : r.evidence = rec.artifact /\ r.check \in rec.checks}
                IN  /\ rec.fact = <<a.rep.facts[n]>>
                    /\ \A j \in DOMAIN a.rep.records \ {i} : a.rep.records[j].index # n
                    /\ gates # {}
                    /\ \A r \in gates, sig \in ToSet(a.env.signatures) : r.verifier \in sig.cert.names
                    /\ a.rep.assurance # "E1" =>
                         \E d \in ToSet(a.rep.derivations) : d.index = n /\ d.artifact = rec.artifact
        /\ a.rep.assurance = "E3" => a.attested

(* An accepted report was appraised neither after the verification nor     *)
(* longer before it than the deployer's MaxAge, up to the clock skews; a   *)
(* timestamp on the report cannot make an old appraisal look recent.       *)
AcceptedInTime ==
    \A a \in Reports :
        /\ a.rep.appraisal <= a.at + a.policy.skew
        /\ a.policy.maxAge > 0 =>
             a.at - a.rep.appraisal <= a.policy.maxAge + (IF a.stamped THEN a.policy.tsSkew ELSE 0)

(* A bar that is not met always says what is missing: the requirement and  *)
(* verdict of an accepted report that is not satisfied give a challenge    *)
(* with an outstanding item (BuildChallengeFromRequirement).               *)
UnmetIsChallengeable ==
    \A a \in Reports : a.rep.satisfaction # <<>> /\ a.rep.satisfaction[1].verdict # "satisfied" =>
        BuildChallengeFromRequirement(a.rep.requirement[1], a.rep.satisfaction[1], a.at, 1, 0)[1] = {}

(* What a deployer accepts can be relied on: complete, truthful, traced to *)
(* one origin for every fact, in time, and with something to ask for when  *)
(* the bar is not met.                                                     *)
AcceptedReportsAreSound ==
    /\ AcceptedIsComplete /\ VerdictIsTruthful /\ EveryFactHasOneOrigin
    /\ AcceptedInTime /\ UnmetIsChallengeable

(* What BuildEvidenceReport and SignEvidenceReport let through, the        *)
(* deployer's checks do not find malformed: it is refused for the          *)
(* deployer's pins, its age, its completeness or the snapshots only.  The  *)
(* exception is a requirement nothing was supplied for.                    *)
Malformed == {"report_shape", "report_digest_invalid", "report_inventory_mismatch",
              "report_not_applicable_unauthorized", "report_fact_unbound", "report_check_binding",
              "report_derivation_invalid", "report_verdict_mismatch", "report_verifier_mismatch"}
BuiltReportsAreWellFormed ==
    \A p \in Processes : run[p].pc = "read" =>
        LET env == issued[held[p].report]
        IN  env.own /\ (env.payload.requirement = <<>> \/ env.payload.satisfaction # <<>>) =>
              {r[1] : r \in Refusal(p)} \cap Malformed = {}

(* The state file keeps the promises of SnapshotFile: what                 *)
(* VerifySignedReport accepts, the check against the state that was read   *)
(* accepts too, and nothing else of a report reaches the file.             *)
ImplementsFile == FileSpec
================================================================================
