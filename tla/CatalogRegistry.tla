----------------------------- MODULE CatalogRegistry ---------------------------
(***************************************************************************)
(* A deployer that follows one catalog through the library: callers verify *)
(* signed catalogs and signed deltas against the accepted state, keep the  *)
(* Result, and hand it to Accept or AcceptDelta at some later time, when   *)
(* another caller may have advanced the state, the clock has moved and the *)
(* policy may have changed.  AcceptSigned does both in one call.           *)
(***************************************************************************)
EXTENDS CatalogTrust

CONSTANTS
    Callers,        \* concurrent users of the library
    NoResult,       \* a caller that holds no verification result
    CallerRoots,    \* the roots a caller passes to VerifySigned
    Rotation,       \* the TrustRotation profile: current, next, overlapUntil, revokedKeys
    Policies,       \* the policies the deployer may configure
    MaxTime         \* bound on the observation clock

ASSUME MaxTimeAssumption == MaxTime \in Nat

ASSUME PolicyAssumption ==
    \A p \in Policies : "observedAt" \in DOMAIN p /\ p = [f \in DOMAIN p |-> p[f]]

ASSUME RotationAssumption == Rotation.overlapUntil \in Int

VARIABLES
    accepted,       \* the accepted RegistryState
    policy,         \* the TrustPolicy in force, its observedAt the current time
    held,           \* the Result each caller holds
    admitted        \* the Results the state was advanced from

registryVars == <<accepted, policy, held, admitted>>

(* The Result of a verification: it binds the catalog, the signer, the     *)
(* policy and the state it was decided against.  roots is the argument the *)
(* caller passed; via says which entry point decided.                      *)
Result(verdict, via, d, k, roots) ==
    [verdict |-> verdict, catalogDigest |-> d,
     generation |-> CatalogOf[d].generation, producer |-> CatalogOf[d].producer,
     signer |-> k, roots |-> roots, policy |-> policy, state |-> accepted,
     signatureVerified |-> via # "delta", deltaVerified |-> via = "delta", via |-> via]

\* Variant: the overlap includes its end.
RootsAtInclusive(now) ==
    IF Rotation.next = {} THEN Rotation.current
    ELSE IF now <= Rotation.overlapUntil THEN Rotation.current \cup Rotation.next
    ELSE Rotation.next

(* TrustRotation.RootsAt *)
RootsAt(now) ==
    IF Rotation.next = {} THEN Rotation.current
    ELSE IF now < Rotation.overlapUntil THEN Rotation.current \cup Rotation.next
    ELSE Rotation.next

--------------------------------------------------------------------------------
RegistryInit ==
    /\ accepted = EmptyState
    /\ policy \in {p \in Policies : p.observedAt = 0}
    /\ held = [u \in Callers |-> NoResult]
    /\ admitted = {}

(* VerifySigned: a refused catalog leaves nothing to accept. *)
VerifySigned(u, d, k) ==
    /\ <<d, k>> \in Signed
    /\ held' = [held EXCEPT ![u] =
                    IF Decide(d, k, CallerRoots, policy, accepted)
                    THEN Result("accept", "snapshot", d, k, CallerRoots) ELSE NoResult]
    /\ UNCHANGED <<accepted, policy, admitted>>

(* TrustRotation.VerifySigned: the roots of the rotation window; a revoked *)
(* signer key turns an accept into a reject that still carries             *)
(* signatureVerified.                                                      *)
RotationVerifySigned(u, d, k) ==
    LET roots   == RootsAt(policy.observedAt)
        verdict == IF CertOf[k].key \in Rotation.revokedKeys THEN "reject" ELSE "accept"
    IN  /\ <<d, k>> \in Signed
        /\ held' = [held EXCEPT ![u] =
                        IF Decide(d, k, roots, policy, accepted)
                        THEN Result(verdict, "rotation", d, k, roots) ELSE NoResult]
        /\ UNCHANGED <<accepted, policy, admitted>>

(* VerifySignedDelta and VerifySignedDeltaWithState: withState tells them apart. *)
VerifySignedDelta(u, x, b, k, withState) ==
    /\ <<x, k>> \in SignedDelta
    /\ held' = [held EXCEPT ![u] =
                    IF IF withState
                       THEN DecideDeltaWithState(x, b, k, CallerRoots, policy, accepted)
                       ELSE DecideDelta(x, b, k, CallerRoots, policy)
                    THEN Result("accept", "delta", DeltaOf[x].targetDigest, k, CallerRoots)
                    ELSE NoResult]
    /\ UNCHANGED <<accepted, policy, admitted>>

\* The state and the record of what it was advanced from, or neither.
AdvanceIf(accepts, d, res) ==
    /\ accepted' = IF accepts THEN Advance(d, accepted) ELSE accepted
    /\ admitted' = IF accepted' # accepted THEN admitted \cup {res} ELSE admitted

Accept(u, d) ==
    /\ held[u] # NoResult
    /\ AdvanceIf(Accepts(accepted, d, held[u]), d, held[u])
    /\ held' = [held EXCEPT ![u] = NoResult]
    /\ UNCHANGED policy

AcceptDelta(u, b, d) ==
    /\ held[u] # NoResult
    /\ AdvanceIf(AcceptsDelta(accepted, b, d, held[u]), d, held[u])
    /\ held' = [held EXCEPT ![u] = NoResult]
    /\ UNCHANGED policy

(* AcceptSigned: VerifySigned and Accept against the same state. *)
AcceptSigned(d, k) ==
    LET res == Result("accept", "snapshot", d, k, CallerRoots) IN
    /\ <<d, k>> \in Signed
    /\ AdvanceIf(Decide(d, k, CallerRoots, policy, accepted) /\ Accepts(accepted, d, res), d, res)
    /\ UNCHANGED <<policy, held>>

(* The environment: time passes and the deployer edits the policy. *)
PassTime ==
    /\ policy.observedAt < MaxTime
    /\ policy' = [policy EXCEPT !.observedAt = @ + 1]
    /\ UNCHANGED <<accepted, held, admitted>>

Configure ==
    /\ \E p \in Policies : policy' = [p EXCEPT !.observedAt = policy.observedAt]
    /\ UNCHANGED <<accepted, held, admitted>>

RegistryNext ==
    \/ \E u \in Callers, d \in Digest, k \in CertName : VerifySigned(u, d, k)
    \/ \E u \in Callers, d \in Digest, k \in CertName : RotationVerifySigned(u, d, k)
    \/ \E u \in Callers, x \in DeltaName, b \in Digest, k \in CertName, w \in BOOLEAN :
          VerifySignedDelta(u, x, b, k, w)
    \/ \E u \in Callers, d \in Digest : Accept(u, d)
    \/ \E u \in Callers, b, d \in Digest : AcceptDelta(u, b, d)
    \/ \E d \in Digest, k \in CertName : AcceptSigned(d, k)
    \/ PassTime
    \/ Configure

RegistrySpec == RegistryInit /\ [][RegistryNext]_registryVars

--------------------------------------------------------------------------------
(* The state, the results in flight and the results it was advanced from   *)
(* have the types of their Go counterparts.                                *)
RegistryTypeOK ==
    /\ StateType(accepted)
    /\ policy.observedAt \in 0 .. MaxTime
    /\ \A u \in Callers : held[u] # NoResult => held[u].catalogDigest \in Digest
    /\ \A res \in admitted : res.catalogDigest \in Digest

(* "History keeps every accepted generation exactly once" (Accept): the    *)
(* history holds one record for each generation from 1 to the head, every  *)
(* record names the digest of the one before it, the last one is the head, *)
(* and all of them carry the identity of the state, however stale the      *)
(* results are that callers hand to Accept and AcceptDelta.                *)
HistoryIsChain == IsChain(accepted)

(* "there is no rollback path and no recovery flag" (Accept): a step never *)
(* lowers the accepted generation, and never changes what is recorded for  *)
(* a generation.                                                           *)
NoRollback == [][Continues(accepted', accepted)]_registryVars

(* "A delta is not a trust shortcut for the catalogue it produces"         *)
(* (VerifySignedDelta), and a result of one catalog never admits another   *)
(* (advance): every accepted generation was decided by a result whose      *)
(* signer, roots and policy satisfy every check that a signed snapshot of  *)
(* that generation would have had to pass.                                 *)
EveryGenerationVerified ==
    \A r \in accepted.history : \E res \in admitted :
        /\ res.catalogDigest = r.digest /\ res.verdict = "accept"
        /\ AcceptableSource(r.digest, res.signer, res.roots, res.policy)
        /\ AcceptableContent(r.digest, res.signer, res.policy)

(* Verification and acceptance agree (checkGeneration and advance are two  *)
(* implementations of the same rules): an accepting VerifySigned result    *)
(* whose state is still the current one is never refused by Accept, so an  *)
(* announced accept can always be persisted.                               *)
VerifiedMeansAcceptable ==
    \A u \in Callers :
        /\ held[u] # NoResult
        /\ held[u].signatureVerified /\ held[u].verdict = "accept"
        /\ held[u].state = accepted
        => Accepts(accepted, held[u].catalogDigest, held[u])

(* A delta accepted on the head could have been shipped as a snapshot: the *)
(* catalog that VerifySignedDeltaWithState accepts passes VerifySigned's   *)
(* decision under the same signer, roots, policy and state.                *)
DeltaIsNoShortcut ==
    \A x \in DeltaName, b \in Digest, k \in CertName :
        DecideDeltaWithState(x, b, k, CallerRoots, policy, accepted)
            => Decide(DeltaOf[x].targetDigest, k, CallerRoots, policy, accepted)

(* "after it only the next set is accepted, so an old anchor cannot        *)
(* silently remain trusted after the transition" (TrustRotation): a result *)
(* of the rotation entry point decided at or after overlap_until never     *)
(* rests on a root that only the current set holds, and no state advances  *)
(* from a revoked key through that entry point.                            *)
RetiredAnchorsRefused ==
    \A res \in admitted \cup {held[u] : u \in {v \in Callers : held[v] # NoResult}} :
        res.via = "rotation" =>
            /\ Rotation.next # {} /\ res.policy.observedAt >= Rotation.overlapUntil
                  => CertOf[res.signer].root \in Rotation.next
            /\ res \in admitted => CertOf[res.signer].key \notin Rotation.revokedKeys

--------------------------------------------------------------------------------
(* The accepted state implements an append-only chain. *)
ChainSpec ==
    INSTANCE AcceptedChain WITH
        Previous <- [d \in Digest |-> CatalogOf[d].previousDigest],
        chain    <- [g \in 1 .. accepted.generation |-> DigestAt(accepted, g)]

(* Accept, AcceptDelta and AcceptSigned implement the append-only chain of *)
(* generations; every other step leaves the chain as it is.                *)
ImplementsChain == ChainSpec!Spec
================================================================================
