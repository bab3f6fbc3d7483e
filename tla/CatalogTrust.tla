------------------------------ MODULE CatalogTrust -----------------------------
(***************************************************************************)
(* The deployer-local decision of package catalog: is a signed catalog, or *)
(* the catalog a signed delta produces, admissible under a trust policy, a *)
(* set of roots and the accepted state?  One operator per check, in the    *)
(* order in which the code makes them; reason codes are left out.          *)
(*                                                                         *)
(* A policy is a record with the fields of TrustPolicy.  schemes maps a    *)
(* supported scheme to the declaration it pins, statusValues a status      *)
(* reference to its pinned health, resolver a reference to what the status *)
(* resolver answers now ("" when there is no resolver or no answer),       *)
(* providers a provider to the producer it is bound to.  observedAt is the *)
(* time of the decision.                                                   *)
(***************************************************************************)
EXTENDS CatalogArtifact

CONSTANTS
    NoName,         \* the empty domain, catalog identity or producer string
    NoStatus,       \* an entry without a status reference
    ClockSkew       \* tolerated forward error of artifact timestamps

ASSUME ClockSkewAssumption == ClockSkew \in Nat

\* Every catalog that parses names its domain, its identity and its producer.
ASSUME NamedAssumption ==
    \A d \in Digest :
        NoName \notin {CatalogOf[d].domain, CatalogOf[d].catalogID, CatalogOf[d].producer}

ValidatePolicy(p) ==
    /\ p.schemes # <<>>
    /\ p.maxStaleness >= 0 /\ p.maxStatusStaleness >= 0
    /\ p.requireStatus => p.statusValues # <<>> \/ p.hasResolver

(* verifySigner: the certificate may sign, chains to one of the roots at   *)
(* now, carries a valid AIC naming the producer and bound to its own key.  *)
VerifySigner(producer, k, roots, now) ==
    LET cert == CertOf[k] IN
    /\ cert.maySign
    /\ cert.root \in roots
    /\ cert.notBefore <= now /\ now <= cert.notAfter
    /\ cert.hasAIC
    /\ cert.principal = producer
    /\ cert.keyBound

CheckDeclarationPins(entries, p) ==
    \A e \in entries : /\ e.scheme \in DOMAIN p.schemes
                       /\ e.declaration = p.schemes[e.scheme]

CheckProviderBindings(c, p) ==
    p.providers # <<>> =>
        \A e \in EntriesOf(c) : /\ e.provider \in DOMAIN p.providers
                                /\ p.providers[e.provider] = c.producer

\* Zero disables a staleness window.
WithinWindow(age, window) == window > 0 => age <= window

(* checkFreshness and checkDeltaFreshness *)
CheckFreshness(a, p) ==
    /\ a.issuedAt <= p.observedAt + ClockSkew
    /\ p.observedAt <= a.validUntil
    /\ WithinWindow(p.observedAt - a.issuedAt, p.maxStaleness)

(* The health of a status reference: the resolver's answer, when it has    *)
(* one, wins over the pinned value; a resolver error is not healthy.       *)
Healthy(ref, p) ==
    \/ p.resolver[ref] = "healthy"
    \/ /\ p.resolver[ref] = ""
       /\ ref \in DOMAIN p.statusValues
       /\ p.statusValues[ref] = "healthy"

CheckStatus(c, p) ==
    \A e \in EntriesOf(c) :
        IF e.status = NoStatus
        THEN ~p.requireStatus
        ELSE /\ e.status.checkedAt <= p.observedAt
             /\ WithinWindow(p.observedAt - e.status.checkedAt, p.maxStatusStaleness)
             /\ p.requireStatus => Healthy(e.status.reference, p)

(* grantsFor: the grants of the AIC whose identifier covers the capability *)
GrantsFor(k, capability) == {g \in CertOf[k].grants : capability \in g.covers}

(* checkAuthority.  Containment of an operation's parameters in a grant's  *)
(* bounds is CLC containment, abstracted here to set membership.           *)
CheckAuthority(entries, k) ==
    \A e \in entries :
        /\ GrantsFor(k, e.capability) # {}
        /\ \A op \in e.operations :
              \E g \in GrantsFor(k, e.capability) : op \in g.operations

--------------------------------------------------------------------------------
(***************************************************************************)
(* The accepted state.  history is a set of records: that it holds each    *)
(* generation once is a property, not a matter of representation.          *)
(***************************************************************************)
EmptyState ==
    [domain |-> NoName, catalogID |-> NoName, producer |-> NoName,
     generation |-> 0, digest |-> NoDigest, history |-> {}]

(* digestAt: the digest the state records for a generation. *)
DigestAt(s, g) ==
    IF s.generation = g THEN s.digest
    ELSE IF \E r \in s.history : r.generation = g
         THEN (CHOOSE r \in s.history : r.generation = g).digest
         ELSE NoDigest

SameIdentity(s, c) ==
    /\ s.domain \in {NoName, c.domain}
    /\ s.catalogID \in {NoName, c.catalogID}
    /\ s.producer \in {NoName, c.producer}

\* Variant: the previous digest is not compared.
CheckGenerationUnlinked(d, s) ==
    LET c == CatalogOf[d] IN
    /\ SameIdentity(s, c)
    /\ \/ s.generation = 0 /\ c.generation = 1
       \/ /\ s.generation # 0
          /\ \/ c.generation = s.generation /\ d = s.digest
             \/ c.generation = s.generation + 1

CheckGeneration(d, s) ==
    LET c == CatalogOf[d] IN
    /\ SameIdentity(s, c)
    /\ \/ s.generation = 0 /\ c.generation = 1
       \/ /\ s.generation # 0
          /\ DigestAt(s, c.generation) \in {NoDigest, d}
          /\ \/ c.generation = s.generation /\ d = s.digest
             \/ c.generation = s.generation + 1 /\ c.previousDigest = s.digest

\* The part of decide before the generation check.
AcceptableSource(d, k, roots, p) ==
    LET c == CatalogOf[d] IN
    /\ ValidatePolicy(p)
    /\ Validate(c)
    /\ c.domain = p.domain
    /\ c.catalogID = p.catalogID
    /\ p.producer \in {NoName, c.producer}
    /\ VerifySigner(c.producer, k, roots, p.observedAt)
    /\ CheckDeclarationPins(EntriesOf(c), p)
    /\ CheckProviderBindings(c, p)

\* The part of decide after the generation check.
AcceptableContent(d, k, p) ==
    LET c == CatalogOf[d] IN
    /\ CheckFreshness(c, p)
    /\ CheckStatus(c, p)
    /\ CheckAuthority(EntriesOf(c), k)

Decide(d, k, roots, p, s) ==
    /\ AcceptableSource(d, k, roots, p)
    /\ CheckGeneration(d, s)
    /\ AcceptableContent(d, k, p)

\* Variant: the catalog the delta produces is not checked.
DecideDeltaUnchecked(x, b, k, roots, p) ==
    LET delta == DeltaOf[x]
        base  == CatalogOf[b]
        next  == CatalogOf[delta.targetDigest]
    IN  /\ ValidatePolicy(p)
        /\ Validate(base)
        /\ delta.domain = p.domain /\ delta.catalogID = p.catalogID
        /\ delta.producer = base.producer
        /\ p.producer \in {NoName, delta.producer}
        /\ CheckFreshness(delta, p)
        /\ VerifySigner(delta.producer, k, roots, p.observedAt)
        /\ CheckDeclarationPins(delta.add \cup delta.replace, p)
        /\ CheckAuthority(delta.add \cup delta.replace, k)
        /\ Applies(b, delta)

(* VerifySignedDelta accepts delta x, signed by k, on base b. *)
DecideDelta(x, b, k, roots, p) ==
    LET delta == DeltaOf[x]
        base  == CatalogOf[b]
        next  == CatalogOf[delta.targetDigest]
    IN  /\ ValidatePolicy(p)
        /\ Validate(base)
        /\ delta.domain = base.domain /\ delta.catalogID = base.catalogID
        /\ delta.domain = p.domain /\ delta.catalogID = p.catalogID
        /\ delta.producer = base.producer
        /\ p.producer \in {NoName, delta.producer}
        /\ CheckFreshness(delta, p)
        /\ VerifySigner(delta.producer, k, roots, p.observedAt)
        /\ CheckDeclarationPins(delta.add \cup delta.replace, p)
        /\ CheckAuthority(delta.add \cup delta.replace, k)
        /\ Applies(b, delta)
        /\ CheckDeclarationPins(EntriesOf(next), p)
        /\ CheckProviderBindings(next, p)
        /\ CheckFreshness(next, p)
        /\ CheckStatus(next, p)
        /\ CheckAuthority(EntriesOf(next), k)

\* Variant: the base is compared by generation only.
DecideDeltaOfGeneration(x, b, k, roots, p, s) ==
    /\ s.generation # 0
    /\ s.generation = CatalogOf[b].generation
    /\ DecideDelta(x, b, k, roots, p)

(* VerifySignedDeltaWithState: the base must be the accepted head. *)
DecideDeltaWithState(x, b, k, roots, p, s) ==
    /\ s.generation # 0
    /\ s.domain \in {NoName, CatalogOf[b].domain}
    /\ s.catalogID \in {NoName, CatalogOf[b].catalogID}
    /\ s.generation = CatalogOf[b].generation /\ s.digest = b
    /\ DecideDelta(x, b, k, roots, p)

--------------------------------------------------------------------------------
\* Variant: the previous digest is not compared.
CanAdvanceUnlinked(d, s) ==
    LET c == CatalogOf[d] IN
    /\ Validate(c)
    /\ SameIdentity(s, c)
    /\ \/ s.generation = 0 /\ c.generation = 1
       \/ s.generation # 0 /\ c.generation = s.generation /\ d = s.digest
       \/ s.generation # 0 /\ c.generation = s.generation + 1

(* advance returns a state, rather than an error, for catalog d. *)
CanAdvance(d, s) ==
    LET c == CatalogOf[d] IN
    /\ Validate(c)
    /\ SameIdentity(s, c)
    /\ \/ s.generation = 0 /\ s.history = {} /\ s.digest = NoDigest /\ c.generation = 1
       \/ s.generation # 0 /\ c.generation = s.generation /\ d = s.digest
       \/ /\ s.generation # 0
          /\ c.generation = s.generation + 1 /\ c.previousDigest = s.digest
          /\ DigestAt(s, c.generation) \in {NoDigest, d}

\* A record of the old state is kept unless its generation is taken already.
Merge(history, records) ==
    history \cup {r \in records : \A q \in history : q.generation # r.generation}

\* Variant: the new record names the previous digest.
AdvanceRecordsPrevious(d, s) ==
    LET c == CatalogOf[d] IN
    IF c.generation = s.generation THEN s
    ELSE [domain |-> c.domain, catalogID |-> c.catalogID, producer |-> c.producer,
          generation |-> c.generation, digest |-> d,
          history |-> Merge({[generation |-> c.generation, digest |-> c.previousDigest]}, s.history)]

(* The state advance returns.  A catalog that is the head leaves it alone. *)
Advance(d, s) ==
    LET c    == CatalogOf[d]
        new  == {[generation |-> c.generation, digest |-> d]}
        head == {r \in {[generation |-> s.generation, digest |-> s.digest]} : r.generation # 0}
    IN  IF c.generation = s.generation THEN s
        ELSE [domain |-> c.domain, catalogID |-> c.catalogID, producer |-> c.producer,
              generation |-> c.generation, digest |-> d,
              history |-> Merge(Merge(new, s.history), head)]

\* Variant: the result is not bound to the digest.
BindsGeneration(res, d) ==
    /\ res.generation = CatalogOf[d].generation
    /\ res.producer = CatalogOf[d].producer

\* advance first checks that res binds the catalog it is asked to admit.
Binds(res, d) ==
    /\ res.catalogDigest = d
    /\ res.generation = CatalogOf[d].generation
    /\ res.producer = CatalogOf[d].producer

(* Accept returns an advanced state *)
Accepts(s, d, res) ==
    /\ res.signatureVerified /\ res.verdict = "accept"
    /\ Binds(res, d)
    /\ CanAdvance(d, s)

(* AcceptDelta returns an advanced state: base b must be the accepted head *)
AcceptsDelta(s, b, d, res) ==
    /\ res.deltaVerified /\ res.verdict = "accept"
    /\ s.generation # 0 /\ CatalogOf[b].generation = s.generation /\ b = s.digest
    /\ Binds(res, d)
    /\ CanAdvance(d, s)

--------------------------------------------------------------------------------
Records == [generation : Nat, digest : Digest]

StateType(s) ==
    /\ s.generation \in Nat
    /\ s.digest \in Digest \cup {NoDigest}
    /\ s.history \subseteq Records

\* The history holds one record for each generation from 1 to the head.
EachGenerationOnce(s) ==
    /\ \A r \in s.history : r.generation \in 1 .. s.generation
    /\ \A g \in 1 .. s.generation : \E r \in s.history : r.generation = g
    /\ \A r, q \in s.history : r.generation = q.generation => r = q

\* Every record names the digest of the one before it.
Linked(s) ==
    \A r, q \in s.history :
        q.generation = r.generation + 1 => CatalogOf[q.digest].previousDigest = r.digest

\* Every record is of a catalog of its generation and of the state's identity.
OfOneIdentity(s) ==
    \A r \in s.history :
        /\ CatalogOf[r.digest].generation = r.generation
        /\ CatalogOf[r.digest].domain = s.domain
        /\ CatalogOf[r.digest].catalogID = s.catalogID
        /\ CatalogOf[r.digest].producer = s.producer

HeadRecorded(s) ==
    IF s.generation = 0 THEN s = EmptyState
    ELSE [generation |-> s.generation, digest |-> s.digest] \in s.history

IsChain(s) == EachGenerationOnce(s) /\ Linked(s) /\ OfOneIdentity(s) /\ HeadRecorded(s)

\* t records all that s records, and is not older.
Continues(t, s) == t.generation >= s.generation /\ s.history \subseteq t.history
================================================================================
