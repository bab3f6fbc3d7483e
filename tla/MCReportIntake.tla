----------------------------- MODULE MCReportIntake -----------------------------
(* Instances of ReportIntake for TLC. *)
EXTENDS ReportIntake

MCTokens == {"a", "b", "(", ")", "AND", "||"}
MCTexts == {<<"(", "a", "||", "b", ")", "AND", "b">>, <<"a", "&&", "(", "b", "OR", "a", ")">>,
            <<"a", "OR", "a", "AND", "b", "OR", "b">>, <<"(", "(", "a", ")", ")">>, <<"a", "?">>,
            <<"(", "a", ")", "||", "(", "b", ")">>}

Triple == <<"a", "covers", "b">>
MCBindingRole == (Triple :> "bound")
MCProjectors == {[id |-> "other", format |-> "OTHER-v1"], [id |-> "late", format |-> AEC], [id |-> "", format |-> AEC],
                 [id |-> "clc/requirement-v1", format |-> "OTHER-v1"]}
Quorum2 == [type |-> "distinct-subject-quorum", component |-> "a", threshold |-> 2, source |-> "native-verifier"]
Doc == [format |-> AEC, id |-> "d", text |-> <<"a", "OR", "b">>, freshness |-> <<>>, quorums |-> <<>>,
        status |-> <<>>, bindings |-> <<>>, constraints |-> <<>>, unknown |-> FALSE]
MCDocuments ==
    {Doc, [Doc EXCEPT !.bindings = <<Triple, Triple>>], [Doc EXCEPT !.freshness = <<<<"a", 1>>>>],
     [Doc EXCEPT !.quorums = <<Quorum2>>], [Doc EXCEPT !.quorums = <<[Quorum2 EXCEPT !.source = "self"]>>],
     [Doc EXCEPT !.freshness = <<<<"b", 0>>>>, !.bindings = <<Triple>>, !.status = <<"a">>],
     [Doc EXCEPT !.status = <<"c">>], [Doc EXCEPT !.unknown = TRUE],
     [Doc EXCEPT !.bindings = <<<<"", "covers", "b">>>>], [Doc EXCEPT !.format = "OTHER-v1"],
     [Doc EXCEPT !.text = <<"a", ")", "OR", "(", "b">>, !.bindings = <<Triple>>],
     [Doc EXCEPT !.format = RequirementVersion]}
MCRoleMaps == {("a" :> "a") @@ ("b" :> "b"), ("a" :> "x") @@ ("b" :> "b"), ("a" :> "")}
SomeFacts == {[type |-> t, subject |-> s, issued |-> n, verified |-> v] :
                t \in {"a", "b"}, s \in {"s1", "s2"}, n \in {2, 3}, v \in {TRUE}}
             \cup {[type |-> t, subject |-> "", issued |-> 3, verified |-> v] :
                t \in {"bound", "x", "b"}, v \in BOOLEAN}
MCEvidence == {<<>>} \cup {<<f>> : f \in SomeFacts} \cup {<<f, g>> : f, g \in SomeFacts}
              \cup {<<f, g, [type |-> "bound", subject |-> "", issued |-> 3, verified |-> TRUE]>> :
                      f, g \in {h \in SomeFacts : h.subject = "s1"}}

--------------------------------------------------------------------------------
Cert == [names |-> {"principal:v", "realm:v"}, root |-> "ca", from |-> 1, until |-> 3, aic |-> TRUE,
         stamping |-> FALSE]
MCTsaCert == [names |-> {}, root |-> "tsa", from |-> 1, until |-> 4, aic |-> FALSE, stamping |-> TRUE]
MCOtherCert == [Cert EXCEPT !.names = {"principal:w"}]

Requirement == [version |-> RequirementVersion, id |-> "r", text |-> <<"role", "AND", "role2">>,
                constraints |-> <<[role |-> "role", constraint |-> <<"freshness", 1>>]>>]
Consumed == [Requirement EXCEPT !.text = <<"role", "||", "role3">>,
                !.constraints = <<[role |-> "role", constraint |-> <<"consumption", "once">>],
                                  [role |-> "role", constraint |-> <<"exclusion", "executor">>]>>]
MCWeakerRequirement == [Requirement EXCEPT !.text = <<"role">>, !.constraints = <<>>]

Expected == <<"status", "card", "a1">>
Expected2 == <<"status", "card", "a2">>
Profile == Seal([id |-> "p", status |-> "required", required |-> <<"status">>,
                 expectations |-> <<Expected, Expected2>>, naAuthority |-> "vp", mapping |-> "",
                 namespace |-> "ns", registry |-> "reg", digest |-> <<>>])
MCWeakerProfile == Seal([Profile EXCEPT !.status = "none", !.required = <<>>, !.expectations = <<>>,
                                        !.digest = <<>>])

Result(artifact, view) ==
    [check |-> "status", component |-> "card", evidence |-> artifact, outcome |-> "success", reason |-> <<>>,
     verifier |-> "principal:v", vprofile |-> "vp", trust |-> "t", digest |-> view, source |-> "crl",
     generation |-> 1, at |-> 0, fresh |-> "fresh", replay |-> ""]
Fact(t, s, n) == [type |-> t, subject |-> s, issued |-> n, verified |-> TRUE]
Rec(artifact, f) == [artifact |-> artifact, observation |-> "", fact |-> <<f>>, index |-> 0, checks |-> {"status"}]

Plain == [profile |-> <<Profile>>, requirement |-> <<Requirement>>, projected |-> <<>>, required |-> {},
          expectations |-> <<>>, results |-> <<Result("a1", "main"), Result("a2", "main")>>,
          verifier |-> <<[principal |-> "principal:v", vprofile |-> "vp"]>>, assurance |-> "", carrier |-> "c",
          facts |-> <<Fact("role", "s1", 1), Fact("role2", "s1", 2)>>, supplied |-> TRUE,
          records |-> <<Rec("a1", Fact("role", "s1", 1)), Rec("a2", Fact("role2", "s1", 2))>>,
          observation |-> <<>>, cert |-> Cert]

With(in, artifact, f) ==
    [in EXCEPT !.results = <<Result(artifact, "main")>>, !.facts = <<f>>, !.records = <<Rec(artifact, f)>>]
Outcome1(o, code) ==
    [Plain EXCEPT !.results[1] = [@ EXCEPT !.outcome = o, !.reason = <<"ns", code>>]]
Twin == Fact("role", "s1", 1)
OwnInputs ==
    {Plain,
     With(Plain, "a1", Fact("role", "s1", 1)),
     [Plain EXCEPT !.facts[1].verified = FALSE, !.records[1].fact[1].verified = FALSE],
     [Plain EXCEPT !.facts[1].issued = 0, !.records[1].fact[1].issued = 0],
     [With(Plain, "a1", Fact("role", "s1", 1)) EXCEPT !.profile = <<>>, !.expectations = <<Expected, Expected2>>],
     [Plain EXCEPT !.profile = <<>>, !.records = <<>>, !.carrier = "", !.required = {"status"}],
     [Plain EXCEPT !.profile = <<>>, !.records = <<>>, !.carrier = "", !.required = {"status", "ocsp"}],
     [Plain EXCEPT !.profile = <<>>, !.requirement = <<Consumed>>, !.carrier = ""],
     Outcome1("failed", "revoked"), Outcome1("not_applicable", "revoked"), Outcome1("unavailable", "down"),
     [Plain EXCEPT !.assurance = "E3"], [Plain EXCEPT !.carrier = ""],
     [Plain EXCEPT !.profile = <<MCWeakerProfile>>, !.results = <<>>, !.facts = <<>>, !.records = <<>>,
                   !.supplied = FALSE, !.carrier = ""],
     [Plain EXCEPT !.results[1].replay = "rp", !.results[2].replay = "rp2"],
     [Plain EXCEPT !.results[1].generation = 0],
     [Plain EXCEPT !.facts = <<Twin, Twin>>, !.records = <<[Rec("a1", Twin) EXCEPT !.index = 1],
                                                         [Rec("a2", Twin) EXCEPT !.index = 2]>>],
     [Plain EXCEPT !.observation = <<[id |-> "act", mapping |-> "m"]>>, !.records[1].observation = "act",
                   !.requirement = <<>>]}
OtherInputs == {Plain, With(Plain, "a1", Fact("role", "s1", 1)),
                [Plain EXCEPT !.facts[1].verified = FALSE, !.records[1].fact[1].verified = FALSE]}
MCEdits == {"verdict", "no verdict", "complete", "assessment", "records", "profile", "requirement", "date",
            "form", "unsigned", "other signer", "second signer", "altered"}

ReplayOf(r, d) == [check |-> r.check, component |-> r.component, evidence |-> r.evidence, outcome |-> r.outcome,
                   verifier |-> r.verifier, vprofile |-> r.vprofile, digest |-> d]
Strict == [roots |-> {"ca"}, principals |-> {"realm:v"}, profile |-> ProfileDigest(Profile),
           requirement |-> <<Requirement>>, requireProfile |-> TRUE, allowIncomplete |-> FALSE,
           vprofiles |-> {"vp"}, sources |-> {"crl"}, registries |-> ("reg" :> {"revoked"}),
           requireDerivations |-> FALSE, artifacts |-> ("a1" :> "a1"), requireArtifacts |-> FALSE, attestor |-> "",
           requireAttestation |-> FALSE, minAssurance |-> "", required |-> {"status"}, maxAge |-> 1, skew |-> 1,
           tsRoots |-> {"tsa"}, tsSkew |-> 1, requireTimestamp |-> FALSE, keepsState |-> TRUE,
           requireBinding |-> FALSE,
           replay |-> ("rp" :> ReplayOf(Result("a1", "main"), "rp")) @@ ("rp2" :> ReplayOf(Result("a2", "main"), "rp2")),
           requireReplay |-> FALSE]
Lax == [Strict EXCEPT !.principals = {}, !.profile = <<>>, !.requireProfile = FALSE, !.allowIncomplete = TRUE,
                      !.vprofiles = {}, !.sources = {}, !.required = {}, !.maxAge = 0, !.replay = <<>>]
Consuming == [Lax EXCEPT !.requirement = <<Consumed>>]
Stamped == [Strict EXCEPT !.requireTimestamp = TRUE, !.requireBinding = TRUE, !.requireDerivations = TRUE]
Attesting == [Strict EXCEPT !.attestor = "accepts", !.minAssurance = "E2", !.requireArtifacts = FALSE]

MCScenarios ==
    ("own" :> [inputs |-> OwnInputs, edits |-> {}, policies |-> {Strict, Lax, Consuming, Stamped, Attesting},
               processes |-> {"p1"}, own |-> 1, reports |-> 1, accepted |-> 1, stamps |-> 1, time |-> 4,
               generations |-> 1])
    @@ ("other" :> [inputs |-> OtherInputs, edits |-> MCEdits, policies |-> {Strict, Lax, Stamped},
                    processes |-> {"p1"}, own |-> 1, reports |-> 2, accepted |-> 1, stamps |-> 1, time |-> 4,
                    generations |-> 1])
    @@ ("series" :> [inputs |-> {Plain, [Plain EXCEPT !.results = <<Result("a1", "other"), Result("a2", "main")>>]},
                     edits |-> {}, policies |-> {[Strict EXCEPT !.maxAge = 0]}, processes |-> {"p1", "p2"},
                     own |-> 2, reports |-> 2, accepted |-> 3, stamps |-> 0, time |-> 2, generations |-> 2])
MCOffers ==
    UNION {{[i \in DOMAIN in.results |->
               [Coordinate(in.results[i]) EXCEPT !.generation = IF @ = 1 THEN g ELSE @]] : in \in MCScenarios[s].inputs} :
             s \in DOMAIN MCScenarios, g \in 1..2}
================================================================================
