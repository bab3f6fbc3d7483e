------------------------------- MODULE SchemeAdmin -----------------------------
(***************************************************************************)
(* The deployer-side confirmation of package schemeadmin: may a signed     *)
(* scheme package and the signed transition that installs it advance the   *)
(* local registry state of a scheme?  One operator per check, in the order *)
(* of the code; reason codes and the shapes of single strings are left     *)
(* out.  Packages and transitions are named by their digests.              *)
(*                                                                         *)
(* A policy is a record with the fields of TrustPolicy; roots are the      *)
(* trust anchors passed beside it, namespaces the schemes under one of its *)
(* prefixes.  CLC is abstracted: a grant is the set of the operations it   *)
(* allows, so that containment is inclusion.                               *)
(*                                                                         *)
(* A submission is the input of ConfirmSigned: a package, a transition,    *)
(* detached signatures over each ([by, over]) and the declaration payload. *)
(***************************************************************************)
EXTENDS Integers, Sequences, FiniteSets

CONSTANTS
    PackageOf,      \* the package with each digest
    TransitionOf,   \* the transition with each digest
    CertOf,         \* certificates by name
    NoDigest,       \* the empty digest
    NoScheme,       \* the empty scheme name
    NoTime,         \* an absent timestamp
    ClockSkew       \* tolerated forward error of artifact timestamps

RangeOf(f) == {f[i] : i \in DOMAIN f}
KeyOf(k) == CertOf[k].key
Signers(signatures) == {s.by : s \in RangeOf(signatures)}

--------------------------------------------------------------------------------
ValidatePolicy(p) ==
    /\ p.rootKeys # {} => p.rootThreshold >= 1
    /\ p.rootThreshold \in 0 .. Cardinality(p.rootKeys)
    /\ p.approvalThreshold >= 0 /\ p.maxStaleness >= 0 /\ p.maxMajor >= 1
    /\ p.nextThreshold \in 0 .. Cardinality(p.nextKeys)

ValidatePackage(pkg) ==
    /\ pkg.generation >= 1
    /\ (pkg.generation = 1) <=> (pkg.previous = NoDigest)

RequireFrom(tr) == tr.fromGeneration >= 1 /\ tr.from # NoDigest

(* The members of other actions are absent. *)
NoRevocation(tr) ==
    tr.effective = NoTime /\ tr.replacement = NoDigest /\ tr.tombstone = 0
NoNextRoot(tr) == tr.nextRoot = NoDigest /\ tr.nextKeys = {} /\ tr.nextThreshold = 0

ValidateTransition(tr) ==
    /\ tr.toGeneration >= 1 /\ tr.to # NoDigest
    /\ tr.action # "revoke" => NoRevocation(tr)
    /\ tr.action # "root-rotate" => NoNextRoot(tr)
    /\ \/ /\ tr.action = "create"
          /\ tr.fromGeneration = 0 /\ tr.from = NoDigest
          /\ tr.toGeneration = 1 /\ tr.change = "major"
       \/ tr.action = "update" /\ RequireFrom(tr)
       \/ /\ tr.action = "revoke" /\ RequireFrom(tr)
          /\ tr.effective # NoTime /\ tr.tombstone >= tr.toGeneration
       \/ /\ tr.action = "root-rotate" /\ RequireFrom(tr)
          /\ tr.nextRoot # NoDigest /\ tr.nextKeys # {} /\ tr.nextThreshold >= 1

(* The payload is the one the package pins, and it describes the package. *)
ValidatePayload(pkg, declaration) ==
    /\ declaration = pkg.declaration
    /\ declaration.scheme = pkg.scheme
    /\ declaration.clc = pkg.clc

(* The part of decide that compares package and transition. *)
SamePackage(d, tr) ==
    LET pkg == PackageOf[d] IN
    /\ pkg.scheme = tr.scheme
    /\ pkg.generation = tr.toGeneration
    /\ pkg.change = tr.change
    /\ pkg.clc = tr.clc
    /\ d = tr.to
    /\ tr.from # NoDigest => pkg.previous = tr.from

--------------------------------------------------------------------------------
VerifyChain(k, roots, now) ==
    /\ CertOf[k].maySign
    /\ CertOf[k].root \in roots
    /\ CertOf[k].notBefore <= now /\ now <= CertOf[k].notAfter

VerifyCertificate(k, roots, now) ==
    VerifyChain(k, roots, now) /\ CertOf[k].hasAIC /\ CertOf[k].keyBound

VerifyPublisher(pkg, k, roots, now) ==
    VerifyCertificate(k, roots, now) /\ CertOf[k].principal = pkg.publisher

(* BuildManagementOperation and BuildApprovalOperation: the capability and *)
(* the parameters CLC decides on.                                          *)
ManagementOperation(pkg, tr) ==
    CASE tr.action \in {"create", "update"} -> <<tr.action, tr.scheme, tr.change, pkg.major, tr.clc>>
      [] tr.action = "revoke"               -> <<"revoke", tr.scheme, tr.from, tr.clc>>
      [] tr.action = "root-rotate"          -> <<"root-rotate", tr.from, tr.clc>>

ApprovalOperation(d, t) ==
    <<"approve", TransitionOf[t].scheme, d, t, TransitionOf[t].clc>>

(* grantsFor, containGrants and AuthorizeSetWithDomains: some grant of the *)
(* certificate that names the capability lies inside a root grant and      *)
(* allows the operation.                                                   *)
GrantsFor(k, op) == {g \in CertOf[k].grants : \E o \in g : o[1] = op[1]}
ContainGrants(grants, roots) == {g \in grants : \E r \in roots : g \subseteq r}
Authorized(k, op, p) == \E g \in ContainGrants(GrantsFor(k, op), p.rootGrants) : op \in g

\* Variant: counts certificates of root keys
CheckRootRotationByCertificate(tr, k, signers, p) ==
    /\ KeyOf(k) \in p.rootKeys
    /\ p.rootThreshold >= 1
    /\ Cardinality({c \in signers : KeyOf(c) \in p.rootKeys}) >= p.rootThreshold
    /\ p.rootPackage # NoDigest /\ tr.from = p.rootPackage
    /\ p.nextRoot # NoDigest /\ p.nextKeys # {} /\ p.nextThreshold >= 1
    /\ tr.nextRoot = p.nextRoot
    /\ tr.nextThreshold = p.nextThreshold
    /\ tr.nextKeys = p.nextKeys
    /\ Cardinality(tr.nextKeys) >= tr.nextThreshold
    /\ p.nextRoot # p.rootPackage
    /\ tr.to = p.nextRoot

CheckRootRotation(tr, k, signers, p) ==
    /\ KeyOf(k) \in p.rootKeys
    /\ p.rootThreshold >= 1
    /\ Cardinality({KeyOf(c) : c \in signers} \cap p.rootKeys) >= p.rootThreshold
    /\ p.rootPackage # NoDigest /\ tr.from = p.rootPackage
    /\ p.nextRoot # NoDigest /\ p.nextKeys # {} /\ p.nextThreshold >= 1
    /\ tr.nextRoot = p.nextRoot
    /\ tr.nextThreshold = p.nextThreshold
    /\ tr.nextKeys = p.nextKeys
    /\ Cardinality(tr.nextKeys) >= tr.nextThreshold
    /\ p.nextRoot # p.rootPackage
    /\ tr.to = p.nextRoot

CheckFreshness(pkg, p) ==
    /\ pkg.issuedAt # NoTime => pkg.issuedAt <= p.observedAt + ClockSkew
    /\ pkg.validUntil # NoTime =>
          /\ pkg.issuedAt # NoTime => pkg.validUntil > pkg.issuedAt
          /\ p.observedAt <= pkg.validUntil
    /\ p.maxStaleness > 0 =>
          /\ pkg.issuedAt # NoTime
          /\ p.observedAt - pkg.issuedAt <= p.maxStaleness

--------------------------------------------------------------------------------
(* RegistryState.  A revocation keeps the signed transition that made it   *)
(* (tombstone) and who signed that (signer).                               *)
EmptyState ==
    [scheme |-> NoScheme, major |-> 0, minor |-> 0, generation |-> 0, digest |-> NoDigest,
     history |-> <<>>, revoked |-> {}, approvals |-> <<>>]

HeadOf(s) ==
    LET generations == {s.generation} \cup {e.generation : e \in RangeOf(s.history)}
    IN  CHOOSE g \in generations : \A h \in generations : h <= g

DigestAt(s, g) ==
    IF s.generation = g /\ s.digest # NoDigest THEN s.digest
    ELSE IF \E e \in RangeOf(s.history) : e.generation = g
         THEN s.history[CHOOSE i \in DOMAIN s.history :
                            /\ s.history[i].generation = g
                            /\ \A j \in 1 .. i - 1 : s.history[j].generation # g].digest
         ELSE NoDigest

IsRevokedAt(s, d, now) == \E r \in s.revoked : r.digest = d /\ r.effective <= now

\* isRevokedAt fails on a revocation that names itself as its replacement.
RevocationError(s, d) == \E r \in s.revoked : r.digest = d /\ r.replacement = r.digest

RevisionFollows(s, pkg, change) ==
    \/ change = "patch" /\ pkg.major = s.major /\ pkg.minor = s.minor
    \/ change = "minor" /\ pkg.major = s.major /\ pkg.minor = s.minor + 1
    \/ change = "major" /\ pkg.major = s.major + 1 /\ pkg.minor = 0

Unused(s) == s.generation = 0 /\ s.history = <<>> /\ s.digest = NoDigest

\* Variant: compares generations only
CheckStateByGeneration(pkg, tr, s) ==
    \/ tr.action = "create" /\ Unused(s)
    \/ /\ tr.action # "create"
       /\ DigestAt(s, tr.toGeneration) \in {NoDigest, tr.to}
       /\ s.generation = tr.fromGeneration
       /\ tr.toGeneration = tr.fromGeneration + 1
       /\ tr.toGeneration > HeadOf(s)
       /\ tr.action = "update" /\ s.generation # 0 => RevisionFollows(s, pkg, tr.change)

CheckState(pkg, tr, s) ==
    \/ tr.action = "create" /\ Unused(s)
    \/ /\ tr.action # "create"
       /\ DigestAt(s, tr.toGeneration) \in {NoDigest, tr.to}
       /\ s.generation = tr.fromGeneration
       /\ s.digest = tr.from
       /\ tr.toGeneration = tr.fromGeneration + 1
       /\ tr.toGeneration > HeadOf(s)
       /\ tr.action = "update" /\ s.generation # 0 => RevisionFollows(s, pkg, tr.change)

VerifyTombstone(r, scheme, roots, now) ==
    LET tr == TransitionOf[r.tombstone] IN
    /\ VerifyCertificate(r.signer, roots, now)
    /\ ValidateTransition(tr)
    /\ tr.action = "revoke" /\ tr.scheme = scheme
    /\ tr.from = r.digest
    /\ tr.effective = r.effective /\ tr.replacement = r.replacement
    /\ tr.tombstone = r.generation

(* verifyApprovals: among the records for this package and transition, one *)
(* that is unsigned, signed over something else, by someone else or        *)
(* without authority, or a second one of a principal or of a key, is an    *)
(* error.  The others are counted.                                         *)
ApprovalsFor(s, d, t) ==
    {i \in DOMAIN s.approvals : s.approvals[i].package = d /\ s.approvals[i].transition = t}

ValidApproval(a, d, t, p) ==
    /\ a.over = <<d, t>>
    /\ VerifyCertificate(a.by, p.roots, p.observedAt)
    /\ CertOf[a.by].principal = a.approver
    /\ Authorized(a.by, ApprovalOperation(d, t), p)

\* Variant: does not compare the keys of the approvers
VerifyApprovalsByPrincipal(s, d, t, p) ==
    LET records == ApprovalsFor(s, d, t)
        cert(i) == CertOf[s.approvals[i].by]
    IN  /\ \A i \in records : ValidApproval(s.approvals[i], d, t, p)
        /\ \A i, j \in records :
              i # j => cert(i).principal # cert(j).principal
        /\ Cardinality(records) >= p.approvalThreshold

VerifyApprovals(s, d, t, p) ==
    LET records == ApprovalsFor(s, d, t)
        cert(i) == CertOf[s.approvals[i].by]
    IN  /\ \A i \in records : ValidApproval(s.approvals[i], d, t, p)
        /\ \A i, j \in records :
              i # j => cert(i).principal # cert(j).principal /\ cert(i).key # cert(j).key
        /\ Cardinality(records) >= p.approvalThreshold

--------------------------------------------------------------------------------
(* decide, for the publisher candidate k *)
Decide(sub, k, s, p) ==
    LET pkg == PackageOf[sub.package]
        tr  == TransitionOf[sub.transition]
        now == p.observedAt
    IN  /\ ValidatePolicy(p)
        /\ ValidatePackage(pkg)
        /\ ValidateTransition(tr)
        /\ ValidatePayload(pkg, sub.declaration)
        /\ SamePackage(sub.package, tr)
        /\ VerifyPublisher(pkg, k, p.roots, now)
        /\ pkg.clc \in p.clcs /\ tr.clc \in p.clcs
        /\ tr.action = "root-rotate" => CheckRootRotation(tr, k, Signers(sub.signatures), p)
        /\ Authorized(k, ManagementOperation(pkg, tr), p)
        /\ tr.scheme \in p.namespaces
        /\ pkg.major <= p.maxMajor
        /\ CheckState(pkg, tr, s)
        /\ \A r \in s.revoked : VerifyTombstone(r, s.scheme, p.roots, now)
        /\ \A d \in {tr.from, sub.package} : ~RevocationError(s, d) /\ ~IsRevokedAt(s, d, now)
        /\ CheckFreshness(pkg, p)
        /\ p.approvalThreshold > 0 => VerifyApprovals(s, sub.package, sub.transition, p)

(* What ConfirmSigned checks of the signatures before it tries candidates. *)
SignaturesVerify(sub, p) ==
    LET pkg == PackageOf[sub.package] IN
    /\ sub.signatures # <<>> /\ sub.transitionSignatures # <<>>
    /\ \A x \in RangeOf(sub.signatures) : x.over = sub.package
    /\ \A x \in RangeOf(sub.transitionSignatures) : x.over = sub.transition
    /\ ValidatePackage(pkg)
    /\ \A k \in Signers(sub.signatures) \cup Signers(sub.transitionSignatures) :
          VerifyChain(k, p.roots, p.observedAt)
    /\ ValidateTransition(TransitionOf[sub.transition])

Candidates(sub, p) ==
    {k \in Signers(sub.signatures) :
        VerifyPublisher(PackageOf[sub.package], k, p.roots, p.observedAt)}

(* Transition signers that use the key of a candidate. *)
TransitionSigners(sub, p) ==
    {k \in Signers(sub.transitionSignatures) : \E c \in Candidates(sub, p) : KeyOf(k) = KeyOf(c)}

\* Variant: the authority of one candidate serves another one's signature
PublishersPooled(sub, s, p) ==
    {k \in Candidates(sub, p) :
        /\ \E c \in TransitionSigners(sub, p) : KeyOf(c) = KeyOf(k)
        /\ \E c \in Candidates(sub, p) : Decide(sub, c, s, p)}

(* The candidates that ConfirmSigned accepts; the first of them is the     *)
(* publisher of the result, and without one the verdict is reject.         *)
Publishers(sub, s, p) ==
    {k \in Candidates(sub, p) :
        /\ \E c \in TransitionSigners(sub, p) : KeyOf(c) = KeyOf(k)
        /\ Decide(sub, k, s, p)}

FirstSigner(signatures, certs) ==
    signatures[CHOOSE i \in DOMAIN signatures :
                   /\ signatures[i].by \in certs
                   /\ \A j \in 1 .. i - 1 : signatures[j].by \notin certs].by

ConfirmSigned(sub, s, p) ==
    IF /\ SignaturesVerify(sub, p)
       /\ \A k \in TransitionSigners(sub, p) :
             VerifyPublisher(PackageOf[sub.package], k, p.roots, p.observedAt)
       /\ Publishers(sub, s, p) # {}
    THEN "accept"
    ELSE "reject"

--------------------------------------------------------------------------------
RevocationOf(tr, t, signer) ==
    [digest |-> tr.from, generation |-> tr.tombstone, effective |-> tr.effective,
     replacement |-> tr.replacement, tombstone |-> t, signer |-> signer]

(* The conditions of Accept on a signed accept result for the package d    *)
(* and the transition t; signer made the transition signature it is given. *)
CanAccept(s, d, t, signer, p) ==
    LET pkg == PackageOf[d]
        tr  == TransitionOf[t]
    IN  /\ pkg.scheme = tr.scheme
        /\ tr.toGeneration = pkg.generation
        /\ \/ tr.action = "create" /\ Unused(s) /\ tr.toGeneration = 1
           \/ /\ tr.action # "create"
              /\ s.generation = tr.fromGeneration
              /\ s.digest = tr.from
              /\ tr.toGeneration = s.generation + 1
        /\ DigestAt(s, tr.toGeneration) \in {NoDigest, d}
        /\ tr.action = "revoke" =>
              /\ tr.replacement # tr.from
              /\ \A r \in s.revoked : r.digest # tr.from
              /\ VerifyTombstone(RevocationOf(tr, t, signer), pkg.scheme, p.roots, p.observedAt)

\* Variant: starts a new history
RecordOnly(s, g, d) == <<[generation |-> g, digest |-> d]>>

RecordEntry(s, g, d) ==
    IF s.history # <<>> /\ s.history[Len(s.history)].generation = g THEN s.history
    ELSE Append(s.history, [generation |-> g, digest |-> d])

\* Variant: does not copy the revocations of the old state
RevokedOnly(s, tr, t, signer) ==
    IF tr.action = "revoke" THEN {RevocationOf(tr, t, signer)} ELSE {}

RevokedAfter(s, tr, t, signer) ==
    s.revoked \cup IF tr.action = "revoke" THEN {RevocationOf(tr, t, signer)} ELSE {}

(* Accept: the state after the transition. *)
Accept(s, d, t, signer) ==
    LET pkg == PackageOf[d]
        tr  == TransitionOf[t]
    IN  [scheme |-> pkg.scheme, major |-> pkg.major, minor |-> pkg.minor,
         generation |-> tr.toGeneration, digest |-> d,
         history |-> RecordEntry(s, tr.toGeneration, d),
         revoked |-> RevokedAfter(s, tr, t, signer), approvals |-> s.approvals]
================================================================================
