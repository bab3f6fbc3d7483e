------------------------------- MODULE ClcRecord -------------------------------
(***************************************************************************)
(* Evidence about decisions, package semantics: the decision record and    *)
(* its re-computation (record.go), the signed statement that carries it    *)
(* (envelope.go), the authorization sources it rests on (sources.go) and   *)
(* the identity of an action (match.go).                                   *)
(*                                                                         *)
(* A digest is modelled by the value it is taken of: equal digests, equal  *)
(* values.  NoDigest is the unusable one.                                  *)
(***************************************************************************)
EXTENDS ClcDomains

CONSTANT
    Revision        \* CLCRevision, a pair <<major, minor>>

NoDigest == <<"digest">>
DigestOf(v) == <<"digest", v>>
digestUsable(d) == d # NoDigest

RevisionCompatible(ver) == ver[1] = Revision[1] /\ ver[2] <= Revision[2]

--------------------------------------------------------------------------------
(* Sources: a chain is [sources, links], a source [id, digest, references] *)
(* and a link a pair of digests.                                           *)

SourcesOf(chain) == Range(chain.sources)
Named(chain, d) == {l[2] : l \in {k \in Range(chain.links) : k[1] = d}}

(* detectCycle: in no group of sources does each name one of the group. *)
Acyclic(chain) ==
    LET digests == {s.digest : s \in SourcesOf(chain)}
    IN  ~\E group \in SUBSET digests \ {{}} :
            \A d \in group : Named(chain, d) \cap group # {}

validateSources(chain) ==
    LET digests == {s.digest : s \in SourcesOf(chain)}
        refs(d) == (CHOOSE s \in SourcesOf(chain) : s.digest = d).references
    IN  Unless(chain.sources # <<>>, "source_chain_empty")
        ?? FirstOf([i \in DOMAIN chain.sources |->
               Unless(chain.sources[i].id # "" /\ digestUsable(chain.sources[i].digest),
                      "source_shape")
               ?? Unless(\A j \in 1..(i - 1) : chain.sources[j].digest # chain.sources[i].digest,
                         "source_duplicate")])
        ?? FirstOf([i \in DOMAIN chain.links |->
               Unless(Range(chain.links[i]) \subseteq digests, "source_dangling_link")
               ?? Unless(chain.links[i][2] \in refs(chain.links[i][1]), "source_edge_unbacked")])
        ?? Unless(Acyclic(chain), "source_chain_cycle")

(* StandingOn: the walk from a digest along the only source each one names.*)
RECURSIVE walk(_, _)
walk(chain, d) ==
    CASE Named(chain, d) = {} -> <<{}, <<d>>>>
      [] Cardinality({i \in DOMAIN chain.links : chain.links[i][1] = d}) > 1 ->
           <<Err("source_chain_branch"), <<>>>>
      [] OTHER -> LET rest == walk(chain, CHOOSE e \in Named(chain, d) : TRUE)
                  IN  <<rest[1], <<d>> \o rest[2]>>
StandingOn(chain, from) ==
    LET bad == validateSources(chain)
               ?? Unless(\E s \in SourcesOf(chain) : s.digest = from, "source_dangling_link")
    IN  IF bad # {} THEN <<bad, <<>>>> ELSE walk(chain, from)

--------------------------------------------------------------------------------
(* Records *)

NoSources == [sources |-> <<>>, links |-> <<>>]

(* RecordWith and record: the records it may make, one for each decision   *)
(* AuthorizeSet may give; none when the context or the chain is refused.   *)
RecordWith(grants, op, context, chain) ==
    LET inputs == [grants |-> grants, operations |-> <<op>>, context |-> context, sources |-> chain]
        refused == validContext(context)
                   ?? IF chain = NoSources THEN {} ELSE validateSources(chain)
    IN  IF refused # {} THEN {}
        ELSE {[ver |-> Revision, inputs |-> inputs, inputDigest |-> DigestOf(inputs),
               verdict |-> d.verdict, reason |-> d.reason, unresolved |-> d.unresolved] :
                  d \in AuthorizeSet(grants, op)}

(* The decisions Recompute may give. *)
Recompute(r) == AuthorizeSet(r.inputs.grants, r.inputs.operations[1])

(* Verify against one re-computed decision. *)
VerifyAgainst(r, d) ==
    Unless(Len(r.inputs.operations) = 1, "record_operation_count")
    ?? Unless(RevisionCompatible(r.ver), "record_unsupported_revision")
    ?? Unless(r.inputDigest = DigestOf(r.inputs), "record_input_digest_mismatch")
    ?? Unless(<<d.verdict, d.reason, d.unresolved>> = <<r.verdict, r.reason, r.unresolved>>,
              "record_verdict_mismatch")

(* The outcomes of Verify. *)
Verify(r) == {VerifyAgainst(r, d) : d \in Recompute(r)}

--------------------------------------------------------------------------------
(* Envelopes: [statement, signatures], a statement [action, inputs,        *)
(* predicate], a signature <<key, what it is over>>.                       *)

NewStatement(r) == [action |-> DigestOf(r.inputs.operations), inputs |-> r.inputDigest,
                    predicate |-> r]
NewEnvelope(r) == [statement |-> NewStatement(r), signatures |-> <<>>]
Sign(e, key) == [e EXCEPT !.signatures = Append(@, <<key, e.statement>>)]

(* Check re-runs the record and compares the two subjects. *)
CheckEnvelope(e) ==
    LET want == NewStatement(e.statement.predicate)
    IN  {check ?? Unless(/\ e.statement.action = want.action
                         /\ e.statement.inputs = want.inputs, "envelope_subject_mismatch") :
            check \in Verify(e.statement.predicate)}

VerifyRecord(e, keys) ==
    {check ?? Unless(\E i \in DOMAIN e.signatures :
                        /\ e.signatures[i][1] \in keys
                        /\ e.signatures[i][2] = e.statement, "envelope_signature") :
        check \in CheckEnvelope(e)}

--------------------------------------------------------------------------------
(* Action identity.  A type definition is [type, fields], an action a      *)
(* function from its fields.  <<reasons, id>>.                             *)

NoAction == [type |-> "", suite |-> "", digest |-> NoDigest]

ComputeActionID(def, suite, action) ==
    LET fields == Range(def.fields)
        bad == Unless(def.type # "" /\ def.fields # <<>> /\ IsInjective(def.fields)
                      /\ "" \notin fields, "action_shape")
               ?? Unless(suite = "jcs-sha256", "action_suite")
               ?? Unless(fields \subseteq DOMAIN action, "action_not_matchable")
    IN  <<bad, IF bad # {} THEN NoAction
               ELSE [type |-> def.type, suite |-> suite,
                     digest |-> DigestOf([f \in fields |-> action[f]])]>>

validActionId(a) == a.type # "" /\ a.suite = "jcs-sha256" /\ digestUsable(a.digest)

\* Variant: two identities that could not be computed are compared.
MatchDigests(observed, evidence) ==
    IF observed.digest = evidence.digest THEN "MATCH" ELSE "NOT_EQUIVALENT"

Match(observed, evidence) ==
    IF \/ ~validActionId(observed) \/ ~validActionId(evidence)
       \/ observed.type # evidence.type \/ observed.suite # evidence.suite
    THEN "INDETERMINATE"
    ELSE IF observed.digest = evidence.digest THEN "MATCH" ELSE "NOT_EQUIVALENT"
================================================================================
