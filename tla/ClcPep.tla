--------------------------------- MODULE ClcPep ---------------------------------
(***************************************************************************)
(* The capability language core at work: delegated grants are presented    *)
(* one by one, an operation is decided over them (ClcGrant, ClcDomains),   *)
(* and the decision is enforced (ClcEnforcement) or filed as a signed      *)
(* record and audited later (ClcRecord).                                   *)
(***************************************************************************)
EXTENDS ClcRecord, ClcEnforcement

CONSTANTS
    Grants, Ops,    \* the grants presented and the operations judged
    Requests,       \* those of Ops that are decided and enforced
    Texts,          \* raw params texts of the operation TextId
    TextId,
    Domains,        \* the declaration of parameter domains
    Defaults,       \* the defaults of the scheme
    Chains,         \* source chains a record may rest on
    ActionType,     \* the pinned action type definition
    Signers, Trusted,
    MaxChain, MaxDecided, MaxFiled  \* the most grants presented, decided and filed over

VARIABLES chain, op, episode, file, audit
pepVars == <<chain, op, episode, file, audit>>

NoOp == [id |-> <<>>, params |-> Empty]
Unread == [ok |-> FALSE, match |-> "INDETERMINATE"]

PepInit == /\ Init
           /\ chain = <<>> /\ op = NoOp /\ episode = "open"
           /\ file = <<>> /\ audit = Unread

Present(g) ==
    /\ episode = "open" /\ Len(chain) < MaxChain
    /\ chain' = Append(chain, g)
    /\ UNCHANGED <<op, episode, file, audit, vars>>

(* The decision over the chain, of the request filled in with the defaults *)
(* of the keys the leaf declares; a retry decides the same request again.  *)
Decide(o) ==
    /\ \/ episode = "open" /\ Len(chain) <= MaxDecided
       \/ episode = "enforce" /\ sources = <<>> /\ o = op
    /\ op' = IF chain = <<>> THEN o ELSE MaterializeDefaults(Last(chain), o, Defaults)
    /\ \E d \in AuthorizeWithChain(chain, op') : Receive(d)
    /\ episode' = "enforce"
    /\ UNCHANGED <<chain, file, audit>>

(* Another decision point, for the same request; its answer comes later. *)
OtherSource(d) ==
    /\ episode = "enforce" /\ sources # <<>> /\ Receive(d)
    /\ UNCHANGED pepVars

EnforceStep == episode = "enforce" /\ Enforce /\ UNCHANGED pepVars

(* record -envelope, with the context and sources of RecordWith. *)
File(o, src, signer) ==
    /\ episode = "open" /\ Len(chain) <= MaxFiled
    /\ \E r \in RecordWith(chain, o, [at |-> clock, maxAge |-> MaxAge, implicit |-> FALSE], src) :
          file' = Sign(NewEnvelope(r), signer)
    /\ op' = o /\ episode' = "filed"
    /\ UNCHANGED <<chain, audit, vars>>

(* The store hands out the statement of one record with another record of  *)
(* the same grants as its predicate.                                       *)
Misfile(o) ==
    /\ episode = "filed" /\ audit = Unread
    /\ \E r \in RecordWith(chain, o, file.statement.predicate.inputs.context, NoSources) :
          file' = [file EXCEPT !.statement.predicate = r]
    /\ UNCHANGED <<chain, op, episode, audit, vars>>

(* The auditor checks the envelope and compares the action the executor    *)
(* reports, o, with the recorded one.                                      *)
Audit(o) ==
    LET recorded == file.statement.predicate.inputs.operations[1]
        id(x) == ComputeActionID(ActionType, "jcs-sha256", x.params)[2]
    IN  /\ episode = "filed" /\ audit = Unread
        /\ \E outcome \in VerifyRecord(file, Trusted) :
              audit' = [ok |-> outcome = {}, match |-> Match(id(o), id(recorded))]
        /\ op' = o /\ episode' = "audited"
        /\ UNCHANGED <<chain, file, vars>>

PepNext ==
    \/ \E g \in Grants : Present(g)
    \/ \E o \in Requests \cup {op} : Decide(o)
    \/ \E o \in Requests : Misfile(o) \/ Audit(o)
    \/ \E d \in Decisions : OtherSource(d)
    \/ EnforceStep
    \/ \E o \in Requests, src \in Chains, k \in Signers : File(o, src, k)

PepSpec == PepInit /\ [][PepNext]_<<vars, pepVars>>

--------------------------------------------------------------------------------
Allows(decisions) == \A d \in decisions : d.verdict # "deny"
Residual(decisions) == UNION {d.unresolved : d \in decisions}

(* Constraints of g that the core evaluates hold of o. *)
CoreHolds(g, o) == \A c \in Range(g.constraints) : CheckConstraint(c, o) = {}

(* A delegation chain never amplifies: what AuthorizeWithChain lets        *)
(* through, every ancestor would let through by itself, its row limits     *)
(* hold, and each of its other constraints is among the obligations        *)
(* (authorizechain.go, Contains and Intersect together).                   *)
ChainNeverAmplifies ==
    episode = "open" =>
        \A o \in Ops : LET ds == AuthorizeWithChain(chain, o) IN
            Allows(ds) => \A g \in Range(chain) :
                /\ Entails(g, o) = {} /\ CoreHolds(g, o)
                /\ {c \in Range(g.constraints) : ~coreEvaluatesConstraint(c)} \subseteq Residual(ds)

(* Composition narrows only (principle P11 of property_test.go), also for  *)
(* grants that do not contain each other: an operation the intersection    *)
(* allows is, in the parameters a source declares, within that source;     *)
(* and the order of the sources decides neither whether there is an        *)
(* intersection nor what it allows.                                        *)
IntersectNarrows ==
    episode = "open" /\ chain # <<>> =>
        LET effective == Intersect(chain)
            reversed == Intersect(Reverse(chain))
            part(g, o) == [o EXCEPT !.params = [k \in DOMAIN @ \cap Declared(g) |-> @[k]]]
        IN  /\ (effective[1] = {}) <=> (reversed[1] = {})
            /\ effective[1] = {} => \A o \in Ops :
                 /\ Authorize(effective[2], o) = Authorize(reversed[2], o)
                 /\ Allows(Authorize(effective[2], o)) =>
                      \A g \in Range(chain) : Entails(g, part(g, o)) = {} /\ CoreHolds(g, o)

(* Grants add up: one more grant never turns an allow into a denial, nor   *)
(* drops an obligation (AuthorizeSet, union semantics).                    *)
MoreGrantsNeverDeny ==
    episode = "open" /\ chain # <<>> =>
        \A o \in Ops :
          LET before == AuthorizeSet(Front(chain), o)
              after == AuthorizeSet(chain, o)
          IN  Allows(before) => Allows(after) /\ Residual(before) \subseteq Residual(after)

(* A params text that is let through has one reading: whichever of the     *)
(* members with a repeated key a decoder keeps (AuthorizeJSONText).        *)
RECURSIVE FirstReading(_)
FirstReading(v) ==
    CASE Kind(v) = "raw" ->
           <<"obj", [k \in {v[2][i][1] : i \in DOMAIN v[2]} |->
                        FirstReading(v[2][Min({i \in DOMAIN v[2] : v[2][i][1] = k})][2])]>>
      [] Kind(v) = "arr" -> <<"arr", [i \in DOMAIN v[2] |-> FirstReading(v[2][i])]>>
      [] OTHER -> v
TextHasOneReading ==
    episode = "open" =>
        \A raw \in Texts :
            Allows(AuthorizeJSONText(chain, TextId, raw)) => FirstReading(raw) = Decode(raw)

(* Declared domains never widen: an operation allowed under a declaration  *)
(* is covered under it by one of the grants (AuthorizeSetWithDomains).     *)
DomainsNeverWiden ==
    episode = "open" =>
        \A o \in Ops :
            Allows(AuthorizeSetWithDomains(chain, o, Domains)) =>
                \E g \in Range(chain) : EntailsWithDomains(g, o, Domains) = {} /\ CoreHolds(g, o)

(* Containment under a declaration is sound for the parameters it orders:  *)
(* if a parent and a child declare only those, what the child covers under *)
(* the declaration the parent covers too (ContainsWithDomains).            *)
DomainContainmentIsSound ==
    /\ episode = "open" /\ Len(chain) = 2
    /\ UNION {Declared(g) : g \in Range(chain)} \subseteq DOMAIN Domains
    /\ ContainsWithDomains(chain[1], chain[2], Domains, Domains) = {}
    => \A o \in Ops : EntailsWithDomains(chain[2], o, Domains) = {} =>
                          EntailsWithDomains(chain[1], o, Domains) = {}

(* What the core lets through is granted, however it is asked: along a     *)
(* chain, through an intersection, by a set of grants, as a text, or under *)
(* a declaration of domains.                                               *)
AuthorizationIsSound ==
    /\ ChainNeverAmplifies /\ IntersectNarrows /\ MoreGrantsNeverDeny
    /\ TextHasOneReading /\ DomainsNeverWiden /\ DomainContainmentIsSound

(* What is acted on under deny-overrides lies within every ancestor, and   *)
(* each of the ancestors' constraints is met or taken on by the consumer,  *)
(* through combination, resolution, challenge and retry.                   *)
ActsWithinEveryAncestor ==
    acted # NoClock /\ algorithm = "deny-overrides" =>
        \A g \in Range(chain) :
            /\ Entails(g, op) = {} /\ CoreHolds(g, op)
            /\ \A c \in Range(g.constraints) :
                  coreEvaluatesConstraint(c) \/ c \in met \/ ConstraintIdentity(c) \in Understood

(* Re-computing a record gives the verdict and the obligations again; at   *)
(* most the reason of a denial differs (record.go Recompute).              *)
VerdictIsReproducible ==
    episode = "filed" =>
        LET r == file.statement.predicate
        IN  \A d \in Recompute(r) : d.verdict = r.verdict /\ d.unresolved = r.unresolved

(* An envelope that passes the audit is about the operation it was signed  *)
(* for, by a trusted signer, rests on sources that lead to a root, and an  *)
(* executor's action matches it only with the same material fields, all of *)
(* them present (envelope.go Check, sources.go, match.go).                 *)
AuditBindsRecord ==
    audit.ok =>
        LET r == file.statement.predicate
            fields == Range(ActionType.fields)
            recorded == r.inputs.operations[1].params
        IN  /\ file.statement = NewStatement(r)
            /\ file.signatures[1][1] \in Trusted
            /\ r.inputs.sources # NoSources =>
                 \A s \in SourcesOf(r.inputs.sources) :
                     StandingOn(r.inputs.sources, s.digest)[1] \in {{}, Err("source_chain_branch")}
            /\ audit.match = "MATCH" =>
                 /\ fields \subseteq DOMAIN op.params \cap DOMAIN recorded
                 /\ \A f \in fields : op.params[f] = recorded[f]

(* A record can be computed again, and an audited one is what it says.     *)
RecordsAreFaithful == VerdictIsReproducible /\ AuditBindsRecord

(* What record.go says of every record: any holder of the inputs re-runs   *)
(* the language and obtains the same verdict, reason and obligations.      *)
RecordVerifies == episode = "filed" /\ op = file.statement.predicate.inputs.operations[1]
                  => Verify(file.statement.predicate) = {{}}
================================================================================
