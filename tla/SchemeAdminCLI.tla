----------------------------- MODULE SchemeAdminCLI ----------------------------
(***************************************************************************)
(* The registry state of one scheme, kept in a file and advanced by        *)
(* processes: the commands scheme-admin check and scheme-admin root-rotate *)
(* with --state and --state-out naming that file, and programs that call   *)
(* AcceptSigned and save the result.  A process reads the state and its    *)
(* other inputs once, confirms, prints the verdict, and then replaces the  *)
(* file.  There is no lock, and a process may be killed in between.        *)
(* Before the file exists --state is left out, which gives EmptyState.     *)
(*                                                                         *)
(* Confirming touches nothing but what the process has read, so reading    *)
(* and confirming are one step, and a process that rejects, or has no      *)
(* --state-out, takes none.  Nothing in the repository records approvals:  *)
(* they are put into the state file from outside.  observed_at is the      *)
(* clock: -allow-stale-clock, meant for offline replay, is not used.       *)
(***************************************************************************)
EXTENDS SchemeAdmin

CONSTANTS
    Processes,      \* processes
    NoJob,          \* a process that runs nothing
    Submissions,    \* packages with their transitions and signatures
    Policies,       \* deployer policies, without the time
    Approvals,      \* the sequences of approval records that may be handed in
    MaxTime,        \* bound on the clock
    MaxApprovals    \* bound on the approval records in the file

ASSUME PoliciesAssumption ==
    \A policy \in Policies :
        "approvalThreshold" \in DOMAIN policy /\ policy.approvalThreshold \in Int

ASSUME ApprovalsAssumption == \A records \in Approvals : records \in Seq(RangeOf(records))

VARIABLES
    stateFile,      \* the registry state on disk
    clock,          \* the wall clock
    job             \* what each process has confirmed and not yet written, or NoJob

adminVars == <<stateFile, clock, job>>

Exit(p) == job' = [job EXCEPT ![p] = NoJob]

AdminInit ==
    /\ stateFile = EmptyState
    /\ clock = 1
    /\ job = [p \in Processes |-> NoJob]

(* Who made the transition signature that Accept keeps with a tombstone:   *)
(* the commands pass the first one, AcceptSigned the publisher's.          *)
TombstoneSigner(caller, sub, s, policy) ==
    LET publisher == FirstSigner(sub.signatures, Publishers(sub, s, policy)) IN
    IF caller = "AcceptSigned"
    THEN FirstSigner(sub.transitionSignatures, {k \in DOMAIN CertOf : KeyOf(k) = KeyOf(publisher)})
    ELSE sub.transitionSignatures[1].by

(* runConfirm up to the verdict, or AcceptSigned up to Accept.  root-rotate *)
(* is check for a transition with that action.                             *)
Confirm(p, sub, policy) ==
    LET q == [policy EXCEPT !.observedAt = clock] IN
    /\ job[p] = NoJob
    /\ ConfirmSigned(sub, stateFile, q) = "accept"
    /\ \E caller \in {"scheme-admin", "AcceptSigned"} :
          job' = [job EXCEPT ![p] = [sub |-> sub, policy |-> q, state |-> stateFile,
                                     signer |-> TombstoneSigner(caller, sub, stateFile, q)]]
    /\ UNCHANGED <<stateFile, clock>>

CanWrite(j) == CanAccept(j.state, j.sub.package, j.sub.transition, j.signer, j.policy)

(* Accept and WriteStateFile, which replaces the file atomically. *)
Write(p) ==
    LET j == job[p] IN
    /\ j # NoJob
    /\ stateFile' = IF CanWrite(j)
                    THEN Accept(j.state, j.sub.package, j.sub.transition, j.signer)
                    ELSE stateFile
    /\ Exit(p)
    /\ UNCHANGED clock

(* The process is killed. *)
Crash(p) ==
    /\ job[p] # NoJob
    /\ Exit(p)
    /\ UNCHANGED <<stateFile, clock>>

(* Environment: approval records reach the state file. *)
Approve(records) ==
    /\ Len(stateFile.approvals) + Len(records) <= MaxApprovals
    /\ stateFile' = [stateFile EXCEPT !.approvals = @ \o records]
    /\ UNCHANGED <<clock, job>>

(* Environment: time passes. *)
Tick ==
    /\ clock < MaxTime
    /\ clock' = clock + 1
    /\ UNCHANGED <<stateFile, job>>

AdminStep(p) ==
    \/ \E sub \in Submissions, policy \in Policies : Confirm(p, sub, policy)
    \/ Write(p)
    \/ Crash(p)

AdminNext ==
    \/ \E p \in Processes : AdminStep(p)
    \/ \E records \in Approvals : Approve(records)
    \/ Tick

AdminSpec == AdminInit /\ [][AdminNext]_adminVars

--------------------------------------------------------------------------------
(* Whatever writes the file in whatever order, it holds one line of        *)
(* generations from 1 to its head, each package naming the one before it,  *)
(* and every revoked package is an older generation of that line: Accept   *)
(* compares generation, digest and link again on the state it advances.    *)
StateIsChain ==
    LET h == stateFile.history IN
    /\ Len(h) = stateFile.generation
    /\ \A i \in DOMAIN h :
          /\ h[i].generation = i
          /\ PackageOf[h[i].digest].generation = i
          /\ PackageOf[h[i].digest].previous = IF i = 1 THEN NoDigest ELSE h[i - 1].digest
    /\ stateFile.digest = IF h = <<>> THEN NoDigest ELSE h[Len(h)].digest
    /\ \A r \in stateFile.revoked : \E i \in 1 .. Len(h) - 1 : h[i].digest = r.digest

(* checkState and Accept implement the generation rules twice.  They       *)
(* agree: what ConfirmSigned accepted for a state, Accept does not refuse  *)
(* on that state, save a revocation that names the revoked package as its  *)
(* replacement, and one whose kept transition signature, for the commands  *)
(* the first one, is by a co-signer that verifyCertificate refuses.        *)
ConfirmedIsAcceptable ==
    \A p \in Processes :
        LET j  == job[p]
            tr == TransitionOf[j.sub.transition]
        IN  job[p] # NoJob =>
                \/ CanWrite(j)
                \/ /\ tr.action = "revoke"
                   /\ \/ tr.replacement = tr.from
                      \/ ~VerifyCertificate(j.signer, j.policy.roots, j.policy.observedAt)

(* One principal, one key: the publisher the package names signed both the *)
(* package and the transition with one key, and it is a certificate of     *)
(* that key that holds the authority.  A co-signer of the same principal   *)
(* with the authority, or with the transition signature only, does not     *)
(* complete another one's.                                                 *)
OneKeySignedAndHeldAuthority ==
    \A p \in Processes :
        LET j   == job[p]
            pkg == PackageOf[j.sub.package]
            op  == ManagementOperation(pkg, TransitionOf[j.sub.transition])
        IN  job[p] # NoJob =>
                \E a \in Signers(j.sub.signatures), b \in Signers(j.sub.transitionSignatures) :
                    /\ KeyOf(a) = KeyOf(b)
                    /\ CertOf[a].principal = pkg.publisher /\ CertOf[b].principal = pkg.publisher
                    /\ \E g \in CertOf[a].grants, r \in j.policy.rootGrants : op \in g /\ g \subseteq r

(* A policy that asks for n approvals gets n people with n keys: neither   *)
(* two certificates of one approver nor two approvers that share a key     *)
(* make a quorum (verifyApprovals).                                        *)
QuorumOfDistinctApprovers ==
    \A p \in Processes :
        LET j     == job[p]
            names == {i \in ApprovalsFor(j.state, j.sub.package, j.sub.transition) :
                         j.state.approvals[i].over = <<j.sub.package, j.sub.transition>>}
            certs == {CertOf[j.state.approvals[i].by] : i \in names}
        IN  job[p] # NoJob =>
                /\ Cardinality({c.principal : c \in certs}) >= j.policy.approvalThreshold
                /\ Cardinality({c.key : c \in certs}) >= j.policy.approvalThreshold

(* A root rotation takes a threshold of distinct current root keys, also   *)
(* when one of them signs with several certificates (checkRootRotation).   *)
RotationByCurrentRoots ==
    \A p \in Processes :
        LET j == job[p] IN
        job[p] # NoJob /\ TransitionOf[j.sub.transition].action = "root-rotate" =>
            /\ Cardinality({KeyOf(k) : k \in Signers(j.sub.signatures)} \cap j.policy.rootKeys)
                  >= j.policy.rootThreshold
            /\ TransitionOf[j.sub.transition].to # j.policy.rootPackage

IsPrefixOf(s, t) == Len(s) <= Len(t) /\ \A i \in DOMAIN s : s[i] = t[i]

(* "nothing is deleted": a step removes a generation, a tombstone or an    *)
(* approval from the file only when it is the write of a process that read *)
(* the file before its latest change.                                      *)
OnlyStaleWritesDelete ==
    [][ \/ /\ IsPrefixOf(stateFile.history, stateFile'.history)
           /\ stateFile.revoked \subseteq stateFile'.revoked
           /\ IsPrefixOf(stateFile.approvals, stateFile'.approvals)
        \/ \E p \in Processes :
              job[p] # NoJob /\ job'[p] = NoJob /\ job[p].state # stateFile ]_adminVars

================================================================================
