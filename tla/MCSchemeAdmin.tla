------------------------------ MODULE MCSchemeAdmin ----------------------------
(***************************************************************************)
(* A pool for SchemeAdminCLI: two first generations, and as successors of  *)
(* p1 an update, a revocation (with a proper and with its own digest as    *)
(* replacement), a root rotation and a package of another scheme; p3       *)
(* follows the revocation.  Among the certificates are two of one          *)
(* principal of which one has no authority, approvers that share a key,    *)
(* two certificates of one root key, and a co-signer without an AIC.       *)
(***************************************************************************)
EXTENDS SchemeAdminCLI, TLC

MCPackage(scheme, minor, change, gen, prev, until) ==
    [scheme |-> scheme, major |-> 1, minor |-> minor, clc |-> "clc", change |-> change,
     declaration |-> [scheme |-> scheme, clc |-> "clc"], previous |-> prev,
     publisher |-> "acme", generation |-> gen, issuedAt |-> 0, validUntil |-> until]

MCPackageOf ==
    [p1  |-> MCPackage("pay", 0, "major", 1, "", NoTime),
     q1  |-> MCPackage("pay", 0, "major", 1, "", 1),
     p2  |-> MCPackage("pay", 1, "minor", 2, "p1", 2),
     p2r |-> MCPackage("pay", 0, "patch", 2, "p1", NoTime),
     p2x |-> MCPackage("log", 0, "patch", 2, "p1", NoTime),
     p2n |-> MCPackage("pay", 0, "patch", 2, "p1", NoTime),
     p3  |-> MCPackage("pay", 0, "patch", 3, "p2r", NoTime)]

MCStepTo(action, scheme, gen, from, d, change) ==
    [action |-> action, scheme |-> scheme, fromGeneration |-> gen - 1, toGeneration |-> gen,
     from |-> from, to |-> d, change |-> change, clc |-> "clc", effective |-> NoTime,
     replacement |-> "", tombstone |-> 0, nextRoot |-> "", nextKeys |-> {}, nextThreshold |-> 0]

MCRevoke(replacement) ==
    [MCStepTo("revoke", "pay", 2, "p1", "p2r", "patch") EXCEPT
        !.effective = 2, !.replacement = replacement, !.tombstone = 3]

MCTransitionOf ==
    [t1  |-> MCStepTo("create", "pay", 1, "", "p1", "major"),
     u1  |-> MCStepTo("create", "pay", 1, "", "q1", "major"),
     t2  |-> MCStepTo("update", "pay", 2, "p1", "p2", "minor"),
     t2r |-> MCRevoke("p2r"),
     t2s |-> MCRevoke("p1"),
     t2x |-> MCStepTo("update", "log", 2, "p1", "p2x", "patch"),
     t2n |-> [MCStepTo("root-rotate", "pay", 2, "p1", "p2n", "patch") EXCEPT
                 !.nextRoot = "p2n", !.nextKeys = {"K7"}, !.nextThreshold = 1],
     t3  |-> MCStepTo("update", "pay", 3, "p2r", "p3", "patch")]

\* The operations the publisher, the roots and the approvers are allowed.
MCManage ==
    {<<"create", "pay", "major", 1, "clc">>, <<"update", "pay", "minor", 1, "clc">>,
     <<"update", "pay", "patch", 1, "clc">>, <<"update", "log", "patch", 1, "clc">>,
     <<"revoke", "pay", "p1", "clc">>}
MCRotate == {<<"root-rotate", "p1", "clc">>}
MCApproval == {<<"approve", "pay", "p2", "t2", "clc">>}

MCCert(key, principal, until, grants) ==
    [root |-> "R", key |-> key, principal |-> principal, notBefore |-> 1, notAfter |-> until,
     maySign |-> TRUE, hasAIC |-> TRUE, keyBound |-> TRUE, grants |-> grants]

MCCertOf ==
    [pub   |-> MCCert("K1", "acme", 2, {MCManage}),
     weak  |-> MCCert("K2", "acme", 3, {}),
     ann   |-> MCCert("K3", "ann", 3, {MCApproval}),
     bob   |-> MCCert("K4", "bob", 3, {MCApproval}),
     ann2  |-> MCCert("K3", "cid", 3, {MCApproval}),
     root1 |-> MCCert("K5", "acme", 3, {MCRotate}),
     renew |-> MCCert("K5", "acme", 3, {MCRotate}),
     root2 |-> [MCCert("K6", "ops", 3, {}) EXCEPT !.hasAIC = FALSE]]

MCSign(certs, d) == [i \in DOMAIN certs |-> [by |-> certs[i], over |-> d]]

MCSubmission(t, d, scheme, signers, tsigners) ==
    [package |-> d, signatures |-> MCSign(signers, d),
     transition |-> t, transitionSignatures |-> MCSign(tsigners, t),
     declaration |-> [scheme |-> scheme, clc |-> "clc"]]

MCSubmissions ==
    {MCSubmission("t1", "p1", "pay", <<"pub">>, <<"pub">>),
     MCSubmission("u1", "q1", "pay", <<"pub">>, <<"pub">>),
     MCSubmission("t2", "p2", "pay", <<"pub">>, <<"pub">>),
     MCSubmission("t2", "p2", "pay", <<"weak", "pub">>, <<"weak">>),
     MCSubmission("t2r", "p2r", "pay", <<"weak", "pub">>, <<"weak", "pub">>),
     MCSubmission("t2r", "p2r", "pay", <<"pub">>, <<"root2", "pub">>),
     MCSubmission("t2s", "p2r", "pay", <<"pub">>, <<"pub">>),
     MCSubmission("t2x", "p2x", "log", <<"pub">>, <<"pub">>),
     MCSubmission("t2n", "p2n", "pay", <<"root1", "root2">>, <<"root1">>),
     MCSubmission("t2n", "p2n", "pay", <<"root1", "renew">>, <<"root1">>),
     MCSubmission("t3", "p3", "pay", <<"pub">>, <<"pub">>)}

MCPolicy(approvals) ==
    [rootPackage |-> "p1", rootKeys |-> {"K5", "K6"}, rootThreshold |-> 2,
     rootGrants |-> {MCManage, MCRotate, MCApproval}, clcs |-> {"clc"}, namespaces |-> {"pay", "log"},
     maxMajor |-> 1, maxStaleness |-> 0, approvalThreshold |-> approvals, nextRoot |-> "p2n",
     nextKeys |-> {"K7"}, nextThreshold |-> 1, roots |-> {"R"}, observedAt |-> 0]

MCPolicies == {MCPolicy(0), MCPolicy(2)}

MCApprove(k, approver) ==
    [package |-> "p2", transition |-> "t2", over |-> <<"p2", "t2">>, by |-> k, approver |-> approver]

MCApprovals ==
    {<<MCApprove("ann", "ann"), MCApprove("bob", "bob")>>,
     <<MCApprove("ann", "ann"), MCApprove("ann2", "cid")>>}

MCSymmetry == Permutations(Processes)
================================================================================
