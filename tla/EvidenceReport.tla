----------------------------- MODULE EvidenceReport -----------------------------
(***************************************************************************)
(* Package projection, the evidence report: how a producer assembles and   *)
(* signs one (evidence.go, report.go, reportauth.go), and what a deployer  *)
(* checks before it accepts one (validate.go, derivation.go, timestamp.go, *)
(* attestation.go, lifecycle.go).                                          *)
(*                                                                         *)
(* An optional member is <<>> or <<value>>.  The digest of a profile or a  *)
(* requirement is its content; the digest of an artifact is a name, "" and *)
(* "malformed" being invalid.  A check result is [check, component,        *)
(* evidence, outcome, reason, verifier, vprofile, trust, digest, source,   *)
(* generation, at, fresh, replay], its reason <<>> or <<namespace, code>>. *)
(***************************************************************************)
EXTENDS EvidenceProjection, SnapshotState

Absent(option) == option = <<>>
OptionalDigest(d) == d = "" \/ ValidDigest(d)

--------------------------------------------------------------------------------
(* Check results and the expected inventory. *)

Outcomes == {"success", "failed", "unavailable", "not_applicable"}

(* NativeCheckResult.validate *)
validResult(r) ==
    /\ r.check # "" /\ r.component # "" /\ r.outcome \in Outcomes
    /\ ValidDigest(r.evidence)
    /\ r.verifier # "" /\ ValidDigest(r.vprofile)
    /\ r.at # 0
    /\ OptionalDigest(r.replay)
    /\ r.outcome # "success" => r.reason # <<>>
    /\ r.outcome \in {"success", "failed"} =>
         /\ ValidDigest(r.trust) /\ ValidDigest(r.digest)
         /\ r.fresh \in {"fresh", "cached", "stale"}
    /\ r.outcome = "success" => r.fresh # "stale"

(* The identity of a result, and of an expectation. *)
resultKey(r) == <<r.check, r.component, r.evidence>>

normalizeResults(rs) ==
    FirstOf([i \in DOMAIN rs |->
        Unless(validResult(rs[i]) /\ \A j \in 1..(i - 1) : resultKey(rs[j]) # resultKey(rs[i]),
               "report_shape")])

(* AssessNativeChecks: the positions of the expectations nobody reported   *)
(* (or repeated), of the results nobody expected, and the keys reported    *)
(* with two outcomes.                                                      *)
Assessment(missing, unexpected, conflicting, expected) ==
    [missing |-> missing, unexpected |-> unexpected, conflicting |-> conflicting,
     complete |-> expected # <<>> /\ missing = {} /\ unexpected = {} /\ conflicting = {}]
AssessNativeChecks(expected, rs) ==
    Assessment({i \in DOMAIN expected :
                   \/ \E j \in 1..(i - 1) : expected[j] = expected[i]
                   \/ \A r \in ToSet(rs) : resultKey(r) # expected[i]},
               {i \in DOMAIN rs : expected # <<>> /\ resultKey(rs[i]) \notin ToSet(expected)},
               {resultKey(r) : r \in {x \in ToSet(rs) :
                   \E y \in ToSet(rs) : resultKey(x) = resultKey(y) /\ x.outcome # y.outcome}},
               expected)

requiredChecksComplete(required, rs) == required \subseteq {r.check : r \in ToSet(rs)}

validExpectation(e) == e[1] # "" /\ e[2] # "" /\ ValidDigest(e[3])

--------------------------------------------------------------------------------
(* Profiles. *)

ProfileDigest(p) == <<[p EXCEPT !.digest = <<>>]>>
Seal(p) == [p EXCEPT !.digest = ProfileDigest(p)]

validProfile(p) ==
    Unless(/\ p.id # ""
           /\ CASE p.status = "none" -> p.required = <<>>
                [] p.status = "required" -> p.required # <<>> /\ p.expectations # <<>>
                [] OTHER -> FALSE
           /\ "" \notin ToSet(p.required) /\ IsInjective(p.required)
           /\ \A e \in ToSet(p.expectations) : validExpectation(e)
           /\ IsInjective(p.expectations)
           /\ p.namespace # "malformed"
           /\ p.registry # "" => p.namespace # "" /\ ValidDigest(p.registry)
           /\ p.digest # <<>> => p.digest = ProfileDigest(p)
           /\ OptionalDigest(p.naAuthority) /\ OptionalDigest(p.mapping), "report_profile_invalid")

(* reasonCode: the reason's code within the profile's namespace. *)
reasonCode(p, r) == IF p.namespace # "" /\ r.reason[1] = p.namespace THEN r.reason[2] ELSE ""

--------------------------------------------------------------------------------
(* ValidateEvidenceReport, in the order of its checks. *)

validDigests(r) ==
    \A d \in {r.evidence, r.vprofile, r.trust, r.digest, r.replay} : OptionalDigest(d)

validateAssessment(rep, p) ==
    Unless(IF p.expectations = <<>> THEN Absent(rep.assessment)
           ELSE rep.assessment = <<AssessNativeChecks(p.expectations, rep.results)>>,
           "report_inventory_mismatch")

validateNotApplicableAuthority(rep, p) ==
    Unless(\A r \in ToSet(rep.results) : r.outcome = "not_applicable" =>
               p.naAuthority # "" /\ r.vprofile = p.naAuthority,
           "report_not_applicable_unauthorized")

validateReasonCodes(rep, p) ==
    Unless(\A r \in ToSet(rep.results) : r.reason # <<>> => reasonCode(p, r) # "",
           "report_profile_invalid")

validateVerifier(rep) ==
    IF Absent(rep.verifier) THEN {}
    ELSE Unless(/\ rep.verifier[1].principal # "" /\ ValidDigest(rep.verifier[1].vprofile)
                /\ \A r \in ToSet(rep.results) :
                     /\ r.verifier = rep.verifier[1].principal
                     /\ r.vprofile = rep.verifier[1].vprofile, "report_verifier_mismatch")

validateObservations(rep) ==
    Unless(\A rec \in ToSet(rep.records) : rec.observation # "" =>
               rep.observation # <<>> /\ rec.observation = rep.observation[1].id,
           "report_check_binding")

checkIDsBoundToArtifact(rec, rs) ==
    \A id \in rec.checks : \E r \in ToSet(rs) : r.check = id /\ r.evidence = rec.artifact

(* validateLineage on the i-th record, then on the facts. *)
lineageOf(rep, i, rec) ==
    IF Absent(rec.fact)
    THEN Unless(rec.index = 0, "report_fact_unbound")
         ?? Unless(checkIDsBoundToArtifact(rec, rep.results), "report_check_binding")
    ELSE Unless(/\ rec.index \in DOMAIN rep.facts
                /\ \A j \in 1..(i - 1) :
                     rep.records[j].fact # <<>> => rep.records[j].index # rec.index, "report_fact_unbound")
         ?? Unless(rep.facts[rec.index] = rec.fact[1], "report_fact_unbound")
         ?? Unless(rec.checks # {} /\ checkIDsBoundToArtifact(rec, rep.results), "report_check_binding")
validateLineage(rep) ==
    FirstOf([i \in DOMAIN rep.records |-> lineageOf(rep, i, rep.records[i])])
    ?? Unless(\A n \in DOMAIN rep.facts : \E rec \in ToSet(rep.records) : rec.fact # <<>> /\ rec.index = n,
              "report_fact_unbound")

FactBindingDigest(fact, artifact) == <<fact, artifact>>

(* derivationMatchesRecord: the first record of the fact decides. *)
derivationMatchesRecord(rep, d) ==
    LET candidates == SelectSeq(rep.records, LAMBDA rec : rec.index = d.index)
    IN  candidates # <<>> /\ candidates[1].artifact = d.artifact
        /\ (d.checks # {} => d.checks = candidates[1].checks)

validDerivation(rep, d, before) ==
    /\ d.carrier # "" /\ ValidDigest(d.artifact) /\ ValidDigest(d.vprofile) /\ OptionalDigest(d.mapping)
    /\ d.index \in DOMAIN rep.facts /\ d.index \notin before
    /\ rep.verifier # <<>> => d.vprofile = rep.verifier[1].vprofile
    /\ rep.observation # <<>> /\ d.mapping # "" => d.mapping = rep.observation[1].mapping
    /\ d.binding = FactBindingDigest(rep.facts[d.index], d.artifact)
    /\ derivationMatchesRecord(rep, d)
validateDerivations(rep) ==
    Unless(\/ rep.derivations = <<>>
           \/ /\ \A i \in DOMAIN rep.derivations :
                    validDerivation(rep, rep.derivations[i], {rep.derivations[j].index : j \in 1..(i - 1)})
              /\ {d.index : d \in ToSet(rep.derivations)} = DOMAIN rep.facts, "report_derivation_invalid")

WithProfile(rep, outcome) == IF Absent(rep.profile) THEN {} ELSE outcome

ReportVersion == "CLC-EVIDENCE-REPORT-v1"
Levels == <<"E1", "E2", "E3">>
rank(level) == CHOOSE n \in 1..3 : Levels[n] = level

ValidateEvidenceReport(rep) ==
    WithProfile(rep, validProfile(rep.profile[1]))
    ?? Unless(\A r \in ToSet(rep.results) : validDigests(r), "report_digest_invalid")
    ?? Unless(rep.version = ReportVersion /\ rep.assurance \in ToSet(Levels), "report_shape")
    ?? normalizeResults(rep.results)
    ?? Unless(/\ \A rec \in ToSet(rep.records) : ValidDigest(rec.artifact)
              /\ rep.observation # <<>> => OptionalDigest(rep.observation[1].mapping),
              "report_digest_invalid")
    ?? WithProfile(rep, validateAssessment(rep, rep.profile[1]))
    ?? WithProfile(rep, validateNotApplicableAuthority(rep, rep.profile[1]))
    ?? Unless(rep.requirement # <<>> /\ rep.projected # <<>> => rep.projected = rep.requirement,
              "report_digest_invalid")
    ?? WithProfile(rep, validateReasonCodes(rep, rep.profile[1]))
    ?? validateVerifier(rep)
    ?? Unless(rep.appraisal # 0, "report_shape")
    ?? validateObservations(rep)
    ?? (IF rep.records # <<>> \/ ~Absent(rep.profile) THEN validateLineage(rep) ELSE {})
    ?? validateDerivations(rep)

--------------------------------------------------------------------------------
(* BuildEvidenceReport on the inputs [profile, requirement, projected,     *)
(* required, expectations, results, verifier, assurance, carrier, facts,   *)
(* supplied, records, observation] at instant now; supplied says that the  *)
(* facts are not nil.                                                      *)

RequiredIds(in) == in.required \cup (IF Absent(in.profile) THEN {} ELSE ToSet(in.profile[1].required))
Inventory(in) ==
    IF in.expectations = <<>> /\ ~Absent(in.profile) THEN in.profile[1].expectations ELSE in.expectations

sameExpectations(in) ==
    \/ Absent(in.profile) \/ in.expectations = <<>>
    \/ /\ Len(in.expectations) = Len(in.profile[1].expectations)
       /\ \A e \in ToSet(in.expectations) :
            Cardinality({i \in DOMAIN in.expectations : in.expectations[i] = e})
            = Cardinality({i \in DOMAIN in.expectations : in.profile[1].expectations[i] = e})

(* assessCompleteness *)
complete(in, rs) ==
    /\ requiredChecksComplete(RequiredIds(in), rs)
    /\ Inventory(in) # <<>> => AssessNativeChecks(Inventory(in), rs).complete

Evaluates(in) == ~Absent(in.requirement) /\ (in.supplied \/ in.results # <<>>)
Ctx(now) == [now |-> now, initiator |-> "", executor |-> ""]
\* Variant: the instant of the appraisal is not handed to the evaluation.
SatisfactionUndated(in, now) ==
    IF Evaluates(in) THEN <<EvaluateRequirement(in.requirement[1], in.facts, Ctx(0))>> ELSE <<>>

SatisfactionOf(in, now) ==
    IF Evaluates(in) THEN <<EvaluateRequirement(in.requirement[1], in.facts, Ctx(now))>> ELSE <<>>

(* uniqueFactIndex for the records that name a fact and no index. *)
Places(facts, f) == {i \in DOMAIN facts : facts[i] = f}
unindexed(rec) == ~Absent(rec.fact) /\ rec.index = 0
indexed(rec, facts) ==
    IF unindexed(rec) THEN [rec EXCEPT !.index = CHOOSE i \in Places(facts, rec.fact[1]) : TRUE] ELSE rec

derive(in, rec) ==
    [carrier |-> in.carrier, artifact |-> rec.artifact, vprofile |-> in.verifier[1].vprofile,
     mapping |-> IF Absent(in.observation) THEN "" ELSE in.observation[1].mapping,
     index |-> rec.index, checks |-> rec.checks,
     binding |-> FactBindingDigest(rec.fact[1], rec.artifact)]
derivationsOf(in, records) ==
    IF in.carrier = "" THEN <<>>
    ELSE LET named == SelectSeq(records, LAMBDA rec : rec.index # 0 /\ ~Absent(rec.fact))
         IN  [i \in DOMAIN named |-> derive(in, named[i])]

Assembled(in, now, records, derivations) ==
    [version |-> ReportVersion, profile |-> in.profile, requirement |-> in.requirement,
     projected |-> in.projected, results |-> in.results, observation |-> in.observation,
     records |-> records, facts |-> in.facts, required |-> RequiredIds(in),
     verifier |-> in.verifier, appraisal |-> now, derivations |-> derivations,
     assessment |-> IF Inventory(in) = <<>> THEN <<>>
                    ELSE <<AssessNativeChecks(Inventory(in), in.results)>>,
     complete |-> complete(in, in.results), satisfaction |-> SatisfactionOf(in, now),
     assurance |-> IF in.assurance # "" THEN in.assurance
                   ELSE IF derivations # <<>> THEN "E2" ELSE "E1"]

buildErrors(in) ==
    normalizeResults(in.results)
    ?? (IF Absent(in.profile) THEN {} ELSE validProfile(in.profile[1]))
    ?? Unless(sameExpectations(in), "report_profile_invalid")
    ?? Unless(\A e \in ToSet(Inventory(in)) : validExpectation(e), "report_shape")
    ?? (IF Evaluates(in) THEN ValidateRequirement(in.requirement[1]) ELSE {})
    ?? Unless(\A rec \in ToSet(in.records) : unindexed(rec) =>
                  Cardinality(Places(in.facts, rec.fact[1])) = 1, "report_fact_unbound")
    ?? Unless(in.carrier # "" => in.verifier # <<>> /\ in.verifier[1].vprofile # "",
              "report_derivation_invalid")

assuranceErrors(rep) ==
    Unless(rep.assurance \in ToSet(Levels), "report_shape")
    ?? Unless(rank(rep.assurance) >= 2 => rep.derivations # <<>>, "report_policy")

Finished(rep, bad) == IF bad # {} THEN <<bad, <<>>>> ELSE <<{}, rep>>
Completed(in, now, records) == Assembled(in, now, records, derivationsOf(in, records))
Checked(rep) == Finished(rep, assuranceErrors(rep) ?? ValidateEvidenceReport(rep))

BuildEvidenceReport(in, now) ==
    IF buildErrors(in) # {} THEN <<buildErrors(in), <<>>>>
    ELSE Checked(Completed(in, now, [i \in DOMAIN in.records |-> indexed(in.records[i], in.facts)]))

--------------------------------------------------------------------------------
(* Certificates are [names, root, from, until, aic, stamping]: the names   *)
(* a declared principal may use for it, its anchor and validity, whether   *)
(* it carries a valid AIC for its own key, and the extended key usage of a *)
(* timestamp authority.                                                    *)

chains(cert, roots, now) == cert.root \in roots /\ now \in cert.from..cert.until
principalMatches(declared, cert) == declared \in cert.names

(* An envelope is [payload, canonical, signatures], a signature [cert,     *)
(* over]; canonical says that the signed bytes are the report's own form.  *)
SignEvidenceReport(rep, cert) ==
    LET filled == IF rep.projected = <<>> THEN [rep EXCEPT !.projected = rep.requirement] ELSE rep
    IN  IF rep.verifier = <<>> THEN <<Err("report_verifier_mismatch"), <<>>>>
        ELSE Finished([payload |-> filled, canonical |-> TRUE,
                       signatures |-> <<[cert |-> cert, over |-> filled]>>],
                      ValidateEvidenceReport(filled)
                      ?? Unless(cert.aic /\ principalMatches(rep.verifier[1].principal, cert),
                                "report_verifier_mismatch"))

(* EnvelopeDigest and NewTimestampAssertion: [digest, time, cert]. *)
EnvelopeDigest(env) == env.payload
NewTimestampAssertion(env, at, cert) == [digest |-> EnvelopeDigest(env), time |-> at, cert |-> cert]

verifyTimestamp(stamp, env, policy, now) ==
    Unless(stamp # <<>>, "report_stale")
    ?? Unless(/\ stamp[1].digest = EnvelopeDigest(env)
              /\ stamp[1].cert.stamping /\ chains(stamp[1].cert, policy.tsRoots, now)
              /\ stamp[1].time \in stamp[1].cert.from..stamp[1].cert.until
              /\ stamp[1].time <= now + policy.tsSkew, "report_stale")

--------------------------------------------------------------------------------
(* What a deployer checks.  policy is [roots, principals, profile,         *)
(* requirement, requireProfile, allowIncomplete, vprofiles, sources,       *)
(* registries, requireDerivations, artifacts, requireArtifacts, attestor,  *)
(* requireAttestation, minAssurance, required, maxAge, skew, tsRoots,      *)
(* tsSkew, requireTimestamp, keepsState, requireBinding, replay,           *)
(* requireReplay]; artifacts and replay are functions from digests, to the *)
(* digest of the bytes supplied and to a replay object.                    *)

(* replayMatchesResult, and the artifact being the one the digest names. *)
replays(r, object) ==
    /\ object.digest = r.replay
    /\ \A member \in {"check", "component", "evidence", "outcome", "verifier", "vprofile"} :
         object[member] = r[member]
ValidateReplayEvidence(r, policy) ==
    IF r.replay = "" THEN Unless(~policy.requireReplay, "report_replay_missing")
    ELSE Unless(r.replay \in DOMAIN policy.replay, "report_replay_missing")
         ?? Unless(replays(r, policy.replay[r.replay]), "report_replay_mismatch")

checkSnapshots(s, rs) ==
    FirstOf([i \in DOMAIN rs |-> Unless(CheckResult(s, rs, i) = "", CheckResult(s, rs, i))])

\* Variant: the snapshots are compared with the policy only.
CheckReportStateless(rep, policy, s) ==
    FirstOf([i \in DOMAIN rep.results |-> ValidateReplayEvidence(rep.results[i], policy)])

CheckReportLifecycle(rep, policy, s) ==
    Unless(policy.sources # {} => {r.source : r \in ToSet(rep.results)} \subseteq policy.sources \cup {""},
           "report_snapshot_source")
    ?? Unless(policy.requireBinding =>
                \A r \in ToSet(rep.results) : r.outcome \in {"success", "failed"} => WholeCoordinate(r),
              "report_snapshot_missing")
    ?? checkSnapshots(s, rep.results)
    ?? FirstOf([i \in DOMAIN rep.results |-> ValidateReplayEvidence(rep.results[i], policy)])

(* Completeness is computed again from what is pinned. *)
recomputedComplete(rep, policy) ==
    /\ requiredChecksComplete(
          rep.required \cup policy.required
          \cup (IF Absent(rep.profile) THEN {} ELSE ToSet(rep.profile[1].required)), rep.results)
    /\ ~Absent(rep.profile) =>
          \/ rep.profile[1].expectations = <<>>
          \/ rep.assessment # <<>> /\ rep.assessment[1].complete

pinnedProfile(rep, policy) ==
    Unless(policy.profile # <<>> => rep.profile # <<>> /\ rep.profile[1].digest = policy.profile,
           "report_policy")

checkReasons(rep, policy) ==
    IF Absent(rep.profile) \/ rep.profile[1].registry = "" THEN {}
    ELSE Unless(rep.profile[1].registry \in DOMAIN policy.registries, "report_policy")
         ?? Unless(\A r \in ToSet(rep.results) : r.reason # <<>> =>
                     reasonCode(rep.profile[1], r) \in policy.registries[rep.profile[1].registry],
                   "report_policy")

checkAssurance(rep, policy, attested) ==
    Unless(/\ rank(rep.assurance) >= 2 \/ policy.requireDerivations => rep.derivations # <<>>
           /\ rep.assurance = "E3" => attested
           /\ policy.minAssurance # "" => rank(rep.assurance) >= rank(policy.minAssurance),
           "report_policy")

checkArtifacts(rep, policy) ==
    Unless(\A d \in ToSet(rep.derivations) :
             IF d.artifact \in DOMAIN policy.artifacts THEN policy.artifacts[d.artifact] = d.artifact
             ELSE ~policy.requireArtifacts, "report_policy")

VerifyEvidenceReport(rep, policy, s, attested) ==
    ValidateEvidenceReport(rep)
    ?? Unless(policy.minAssurance \in ToSet(Levels) \cup {""}, "report_policy")
    ?? Unless(policy.requireProfile => rep.profile # <<>>, "report_profile_invalid")
    ?? Unless(recomputedComplete(rep, policy) = rep.complete, "report_incomplete")
    ?? pinnedProfile(rep, policy)
    ?? Unless(policy.requirement # <<>> => rep.projected = policy.requirement, "report_policy")
    ?? checkReasons(rep, policy)
    ?? checkAssurance(rep, policy, attested)
    ?? checkArtifacts(rep, policy)
    ?? Unless(policy.vprofiles # {} => rep.verifier # <<>> /\ rep.verifier[1].vprofile \in policy.vprofiles,
              "report_policy")
    ?? Unless(~rep.complete => policy.allowIncomplete /\
                 (Absent(rep.profile) \/ rep.profile[1].status # "required"), "report_incomplete")
    ?? (IF policy.keepsState \/ policy.replay # <<>> \/ policy.sources # {} \/ policy.requireBinding
           \/ policy.requireReplay
        THEN CheckReportLifecycle(rep, policy, s) ELSE {})

(* The signature, chain, identity and allowlist of one signer. *)
checkSigner(sig, env, policy, now) ==
    Unless(/\ sig.over = env.payload
           /\ policy.roots # {} /\ chains(sig.cert, policy.roots, now)
           /\ sig.cert.aic, "report_signature")
    ?? Unless(policy.principals # {} =>
                \E name \in policy.principals : principalMatches(name, sig.cert), "report_policy")

checkReportAge(rep, policy, now, reference) ==
    Unless(/\ rep.appraisal <= now + policy.skew
           /\ policy.maxAge > 0 => now - reference <= policy.maxAge, "report_stale")

\* Variant: the reported verdict is taken on trust.
trustSatisfaction(rep) ==
    Unless(Absent(rep.requirement) <=> Absent(rep.satisfaction), "report_verdict_mismatch")

recomputeSatisfaction(rep) ==
    IF Absent(rep.requirement) THEN Unless(Absent(rep.satisfaction), "report_verdict_mismatch")
    ELSE Unless(~Absent(rep.satisfaction), "report_verdict_mismatch")
         ?? ValidateRequirement(rep.requirement[1])
         ?? Unless(rep.satisfaction
                   = <<EvaluateRequirement(rep.requirement[1], rep.facts, Ctx(rep.appraisal))>>,
                   "report_verdict_mismatch")

VerifySignedEvidenceReportAt(env, rep, stamp, policy, s, now, attested) ==
    Unless(env.signatures # <<>>, "report_signature")
    ?? (IF stamp # <<>> \/ policy.requireTimestamp THEN verifyTimestamp(stamp, env, policy, now) ELSE {})
    ?? FirstOf([i \in DOMAIN env.signatures |-> checkSigner(env.signatures[i], env, policy, now)])
    ?? Unless(env.canonical, "report_shape")
    ?? Unless(rep.verifier # <<>>, "report_verifier_mismatch")
    ?? Unless(rep.profile # <<>> => rep.profile[1].digest # <<>>, "report_profile_invalid")
    ?? Unless(/\ rep.profile # <<>> => policy.profile # <<>>
              /\ rep.requirement # <<>> => policy.requirement # <<>>, "report_policy")
    ?? Unless(\A sig \in ToSet(env.signatures) : principalMatches(rep.verifier[1].principal, sig.cert),
              "report_verifier_mismatch")
    ?? VerifyEvidenceReport(rep, policy, s, attested)
    ?? Unless(stamp # <<>> => /\ rep.appraisal <= stamp[1].time + policy.tsSkew
                              /\ stamp[1].time - rep.appraisal <= policy.tsSkew, "report_stale")
    ?? checkReportAge(rep, policy, now, IF Absent(stamp) THEN rep.appraisal ELSE stamp[1].time)
    ?? recomputeSatisfaction(rep)
    ?? CheckReportLifecycle(rep, policy, s)

(* An attestation is <<>> or <<digest>>; policy.attestor says what the     *)
(* deployer's verifier answers, "" when there is none.                     *)
VerifySignedReport(env, stamp, attestation, policy, s, now) ==
    Unless(IF Absent(attestation) THEN ~policy.requireAttestation
           ELSE attestation[1] = EnvelopeDigest(env) /\ policy.attestor = "accepts", "report_policy")
    ?? VerifySignedEvidenceReportAt(env, env.payload, stamp, policy, s, now, ~Absent(attestation))
================================================================================
