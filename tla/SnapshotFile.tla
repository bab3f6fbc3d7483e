------------------------------ MODULE SnapshotFile ------------------------------
(***************************************************************************)
(* What the accepted-state file of verify-report promises, whatever the    *)
(* reports contain: cmd/internal/verify-report/main.go reads the state     *)
(* named by -state, verifies one report against it, and replaces the file  *)
(* named by -state-out (the same file here, as a deployer keeps it) with   *)
(* the state the verification returned.  Nothing locks the file between    *)
(* the read and the write, so several processes may overlap.               *)
(***************************************************************************)
EXTENDS SnapshotState

CONSTANTS
    Processes,      \* invocations of verify-report
    Offers,         \* the sequences of check results a report may carry
    MaxAccepted     \* bound on the reports accepted

ASSUME OffersAssumption ==
    /\ MaxAccepted \in Nat
    /\ \A rs \in Offers : Len(rs) \in Nat /\ DOMAIN rs = 1..Len(rs)
    /\ \A rs \in Offers : \A i \in DOMAIN rs : rs[i].generation \in Int

VARIABLES
    file,       \* the state file
    run,        \* per process: [pc, seen, results]
    log,        \* the results of the accepted reports, in the order of the writes
    serial      \* no write so far replaced a state its process had not read

fileVars == <<file, run, log, serial>>

Idle == [pc |-> "idle", seen |-> <<>>, results |-> <<>>]

FileInit ==
    /\ file = <<>>
    /\ run = [p \in Processes |-> Idle]
    /\ log = <<>>
    /\ serial = TRUE

(* loadState. *)
Read(p) ==
    /\ run[p].pc = "idle"
    /\ run' = [run EXCEPT ![p] = [pc |-> "read", seen |-> file, results |-> <<>>]]
    /\ UNCHANGED <<file, log, serial>>

(* VerifySignedReport accepts a report whose results pass the check. *)
Approve(p) ==
    /\ run[p].pc = "read"
    /\ \E rs \in Offers :
        /\ Accepts(run[p].seen, rs)
        /\ run' = [run EXCEPT ![p] = [pc |-> "approved", seen |-> run[p].seen, results |-> rs]]
    /\ UNCHANGED <<file, log, serial>>

(* WriteStateFile replaces the file in one step. *)
Write(p) ==
    /\ run[p].pc = "approved"
    /\ Len(log) < MaxAccepted
    /\ file' = NextState(run[p].seen, run[p].results)
    /\ log' = Append(log, run[p].results)
    /\ serial' = (serial /\ file = run[p].seen)
    /\ run' = [run EXCEPT ![p] = Idle]

(* The report is refused, or the process ends before it writes. *)
Abandon(p) ==
    /\ run[p].pc # "idle"
    /\ run' = [run EXCEPT ![p] = Idle]
    /\ UNCHANGED <<file, log, serial>>

FileNext == \E p \in Processes : Read(p) \/ Approve(p) \/ Write(p) \/ Abandon(p)

FileSpec == FileInit /\ [][FileNext]_fileVars

--------------------------------------------------------------------------------

(* Whatever any accepted report declared, the state file still holds it or *)
(* something that may follow it, as long as no two runs overlapped: a      *)
(* later report is compared with all of the history, not with part of it.  *)
FileCoversLog ==
    serial =>
        \A n \in DOMAIN log : \A i \in DOMAIN log[n] :
            Declares(log[n][i]) =>
                /\ snapshotKey(log[n][i]) \in DOMAIN file
                /\ Follows(Binding(log[n][i]), file[snapshotKey(log[n][i])])

(* Under the same condition no accepted report rolls back or forks the     *)
(* snapshot of a report accepted before it ("A report may only advance it, *)
(* never roll it back or fork it").                                        *)
AcceptedInOrder ==
    serial =>
        \A m, n \in DOMAIN log : m < n =>
            \A i \in DOMAIN log[m], j \in DOMAIN log[n] :
                Declares(log[m][i]) /\ Declares(log[n][j])
                /\ snapshotKey(log[m][i]) = snapshotKey(log[n][j])
                => Follows(Binding(log[m][i]), Binding(log[n][j]))

(* A write that takes the file back, or drops a coordinate of it, replaces *)
(* a state its process has not read: overlap is the only cause.            *)
OnlyOverlapTakesBack ==
    [][~Forward(file, file') =>
         \E p \in Processes : run[p].pc = "approved" /\ run'[p].pc = "idle"
                              /\ run[p].seen # file]_fileVars
================================================================================
