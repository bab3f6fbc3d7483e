------------------------------ MODULE CatalogCLI -------------------------------
(***************************************************************************)
(* The commands verify-catalog and apply-catalog-delta, run by processes   *)
(* that share one state file (-state and -state-out name the same path)    *)
(* and one output catalog (-out).  A command reads the state once, decides *)
(* against what it read, announces its verdict, and only then writes.      *)
(* There is no lock between the read and the write, and a process may be   *)
(* killed between any two of its steps.                                    *)
(*                                                                         *)
(* A missing state file is EmptyState: a command started before the file   *)
(* exists has no -state argument.  The policy and its clock are fixed;     *)
(* CatalogRegistry varies them.  Temporary files that a killed write       *)
(* leaves behind are not modelled: nothing reads them.                     *)
(***************************************************************************)
EXTENDS CatalogTrust

CONSTANTS
    Procs,          \* processes that run the commands
    NoJob,          \* a process that runs nothing
    Roots,          \* -trust
    Policy          \* -policy, already within five minutes of the clock

VARIABLES
    stateFile,      \* the accepted-generation state on disk
    outFile,        \* the catalog last written to -out, or NoDigest
    pc,             \* the step each process is at
    job,            \* its arguments and the state it read, or NoJob
    announced,      \* digests some verify-catalog printed an accept verdict for
    completed       \* digests whose command exited 0 having written the state

vars == <<stateFile, outFile, pc, job, announced, completed>>

Begin(p, step, args) == pc' = [pc EXCEPT ![p] = step] /\ job' = [job EXCEPT ![p] = args]

Goto(p, step) == pc' = [pc EXCEPT ![p] = step] /\ UNCHANGED job

Exit(p) == Begin(p, "idle", NoJob)

\* The accept result each command hands to Accept or AcceptDelta.
ResultFor(d, via) ==
    [verdict |-> "accept", catalogDigest |-> d, generation |-> CatalogOf[d].generation,
     producer |-> CatalogOf[d].producer,
     signatureVerified |-> via = "snapshot", deltaVerified |-> via = "delta"]

(* WriteFile without replace refuses an existing path. *)
MayWrite(exists, replace) == replace \/ ~exists

Init ==
    /\ stateFile = EmptyState
    /\ outFile = NoDigest
    /\ pc = [p \in Procs |-> "idle"]
    /\ job = [p \in Procs |-> NoJob]
    /\ announced = {}
    /\ completed = {}

--------------------------------------------------------------------------------
\* Variant: -state is not read.
StartVerifyWithoutState(p, d, k, stateOut) ==
    /\ pc[p] = "idle"
    /\ <<d, k>> \in Signed
    /\ Begin(p, "verify", [target |-> d, signer |-> k, stateOut |-> stateOut,
                           state |-> EmptyState])
    /\ UNCHANGED <<stateFile, outFile, announced, completed>>

(* verify-catalog up to LoadState *)
StartVerify(p, d, k, stateOut) ==
    /\ pc[p] = "idle"
    /\ <<d, k>> \in Signed
    /\ Begin(p, "verify", [target |-> d, signer |-> k, stateOut |-> stateOut,
                           state |-> stateFile])
    /\ UNCHANGED <<stateFile, outFile, announced, completed>>

(* VerifySigned and emit: the verdict is printed before the state is written. *)
VerifyDecide(p) ==
    LET j  == job[p]
        ok == Decide(j.target, j.signer, Roots, Policy, j.state)
    IN  /\ pc[p] = "verify"
        /\ announced' = IF ok THEN announced \cup {j.target} ELSE announced
        /\ IF ok /\ j.stateOut THEN Goto(p, "accept") ELSE Exit(p)
        /\ UNCHANGED <<stateFile, outFile, completed>>

(* Accept and WriteStateFile, which replaces the file atomically. *)
VerifyWrite(p) ==
    LET j  == job[p]
        ok == Accepts(j.state, j.target, ResultFor(j.target, "snapshot"))
    IN  /\ pc[p] = "accept"
        /\ stateFile' = IF ok THEN Advance(j.target, j.state) ELSE stateFile
        /\ completed' = IF ok THEN completed \cup {j.target} ELSE completed
        /\ Exit(p)
        /\ UNCHANGED <<outFile, announced>>

--------------------------------------------------------------------------------
(* apply-catalog-delta up to LoadState; b is the base catalog it was given. *)
StartDelta(p, x, b, k, out, stateOut, force) ==
    /\ pc[p] = "idle"
    /\ <<x, k>> \in SignedDelta
    /\ Begin(p, "delta", [delta |-> x, base |-> b, signer |-> k,
                          target |-> DeltaOf[x].targetDigest,
                          out |-> out, stateOut |-> stateOut, force |-> force,
                          state |-> stateFile])
    /\ UNCHANGED <<stateFile, outFile, announced, completed>>

DeltaDecide(p) ==
    LET j == job[p] IN
    /\ pc[p] = "delta"
    /\ IF DecideDeltaWithState(j.delta, j.base, j.signer, Roots, Policy, j.state)
       THEN Goto(p, "out") ELSE Exit(p)
    /\ UNCHANGED <<stateFile, outFile, announced, completed>>

(* WriteFile(out): a refused write ends the command before the state. *)
DeltaWriteOut(p) ==
    LET j  == job[p]
        ok == MayWrite(outFile # NoDigest, j.force)
    IN  /\ pc[p] = "out"
        /\ outFile' = IF j.out /\ ok THEN j.target ELSE outFile
        /\ IF ~j.out \/ ok THEN Goto(p, "state") ELSE Exit(p)
        /\ UNCHANGED <<stateFile, announced, completed>>

(* AcceptDelta and WriteFile(state-out) *)
DeltaWriteState(p) ==
    LET j  == job[p]
        ok == /\ j.stateOut
              /\ AcceptsDelta(j.state, j.base, j.target, ResultFor(j.target, "delta"))
              /\ MayWrite(stateFile # EmptyState, j.force)
    IN  /\ pc[p] = "state"
        /\ stateFile' = IF ok THEN Advance(j.target, j.state) ELSE stateFile
        /\ completed' = IF ok THEN completed \cup {j.target} ELSE completed
        /\ Exit(p)
        /\ UNCHANGED <<outFile, announced>>

(* The process is killed. *)
Crash(p) ==
    /\ pc[p] # "idle"
    /\ Exit(p)
    /\ UNCHANGED <<stateFile, outFile, announced, completed>>

Step(p) ==
    \/ \E d \in Digest, k \in CertName, stateOut \in BOOLEAN : StartVerify(p, d, k, stateOut)
    \/ VerifyDecide(p)
    \/ VerifyWrite(p)
    \/ \E x \in DeltaName, b \in Digest, k \in CertName, out, stateOut, force \in BOOLEAN :
          StartDelta(p, x, b, k, out, stateOut, force)
    \/ DeltaDecide(p)
    \/ DeltaWriteOut(p)
    \/ DeltaWriteState(p)
    \/ Crash(p)

Next == \E p \in Procs : Step(p)

Spec == Init /\ [][Next]_vars

--------------------------------------------------------------------------------
(* The files hold what their Go types allow. *)
TypeOK ==
    /\ StateType(stateFile)
    /\ outFile \in Digest \cup {NoDigest}
    /\ announced \subseteq Digest /\ completed \subseteq Digest
    /\ pc \in [Procs -> {"idle", "verify", "accept", "delta", "out", "state"}]
    /\ \A p \in Procs : /\ pc[p] # "idle" => StateType(job[p].state)
                        /\ pc[p] \notin {"idle", "delta"} => job[p].target \in Digest

(* Whatever is killed when, and however many commands run at once, the     *)
(* state file holds one linked chain from generation 1 to its head: a      *)
(* command writes only what Accept or AcceptDelta made of a state it read. *)
StateFileIsChain == IsChain(stateFile)

(* "there is no rollback path" (Accept) and "the state is the local        *)
(* rollback anchor" (WriteStateFile), across commands: the file on disk    *)
(* never goes back to an older generation or drops a record.               *)
FileNeverRollsBack == [][Continues(stateFile', stateFile)]_vars

(* A command that exited 0 having written the state made a durable         *)
(* decision: its catalog stays recorded in the file from then on.          *)
CompletedStaysRecorded ==
    \A d \in completed : \E r \in stateFile.history : r.digest = d

(* The catalog left in -out by apply-catalog-delta follows a recorded      *)
(* generation, also when the command was killed or refused before it wrote *)
(* the state: -out is never a catalog whose base was not accepted.         *)
OutFollowsRecorded ==
    outFile # NoDigest =>
        \E r \in stateFile.history : CatalogOf[outFile].previousDigest = r.digest
================================================================================
