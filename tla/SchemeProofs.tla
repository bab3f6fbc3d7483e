----------------------------- MODULE SchemeProofs ------------------------------
(***************************************************************************)
(* The registry state file of a scheme, for any packages, transitions,     *)
(* certificates and policies, any number of processes, and any             *)
(* interleaving of their reads, writes and crashes.  A process carries     *)
(* what it has read over to its write, so the chain invariant speaks of    *)
(* every state a process holds, and each job still passes the confirmation *)
(* that started it (JInv).                                                 *)
(*                                                                         *)
(* The scheme registry under any number of goroutines: its mutex keeps map *)
(* writes exclusive, Register has one winner per id, and Summary prints    *)
(* one state of the registry.                                              *)
(***************************************************************************)
EXTENDS SchemeRegistry, SchemeAdminCLI, FiniteSetTheorems, TLAPS

(* The time limits of the provers, in seconds: Zenon is tried, then SMT. *)
USE ZenonT(10), SMTT(30)

--------------------------------------------------------------------------------
(* The registry state file. *)

Fields == {"scheme", "major", "minor", "generation", "digest", "history", "revoked", "approvals"}

ApprovalRecords == UNION {RangeOf(records) : records \in Approvals}

\* A registry state whose history is one line of generations.
Chained(s) ==
    /\ DOMAIN s = Fields
    /\ s.approvals \in Seq(ApprovalRecords)
    /\ s.history \in Seq(RangeOf(s.history))
    /\ Len(s.history) = s.generation
    /\ \A i \in DOMAIN s.history :
          /\ s.history[i].generation = i
          /\ PackageOf[s.history[i].digest].generation = i
          /\ PackageOf[s.history[i].digest].previous =
                IF i = 1 THEN NoDigest ELSE s.history[i - 1].digest
    /\ s.digest = IF s.history = <<>> THEN NoDigest ELSE s.history[Len(s.history)].digest
    /\ \A r \in s.revoked : \E i \in 1 .. Len(s.history) - 1 : s.history[i].digest = r.digest

\* What a process holds between its verdict and its write.
JobInv(j) ==
    /\ Chained(j.state)
    /\ ConfirmSigned(j.sub, j.state, j.policy) = "accept"
    /\ j.policy.approvalThreshold \in Int

JInv ==
    /\ Chained(stateFile)
    /\ DOMAIN job = Processes
    /\ \A p \in Processes : job[p] # NoJob => JobInv(job[p])

--------------------------------------------------------------------------------
(* An accepting verdict has a publisher that passed decide, with a         *)
(* transition signature by its key and in its name.                        *)
LEMMA AcceptHasPublisher ==
    ASSUME NEW sub, NEW s, NEW p, ConfirmSigned(sub, s, p) = "accept"
    PROVE  \E k \in Signers(sub.signatures), b \in Signers(sub.transitionSignatures) :
              /\ Decide(sub, k, s, p)
              /\ KeyOf(k) = KeyOf(b)
              /\ CertOf[k].principal = PackageOf[sub.package].publisher
              /\ CertOf[b].principal = PackageOf[sub.package].publisher
  <1>1. /\ \A k \in TransitionSigners(sub, p) :
              VerifyPublisher(PackageOf[sub.package], k, p.roots, p.observedAt)
        /\ Publishers(sub, s, p) # {}
    BY DEF ConfirmSigned
  <1>2. PICK k \in Candidates(sub, p) :
           /\ \E b \in TransitionSigners(sub, p) : KeyOf(b) = KeyOf(k)
           /\ Decide(sub, k, s, p)
    BY <1>1 DEF Publishers
  <1>3. PICK b \in TransitionSigners(sub, p) : KeyOf(b) = KeyOf(k)
    BY <1>2
  <1>4. k \in Signers(sub.signatures) /\ b \in Signers(sub.transitionSignatures)
    BY <1>2, <1>3 DEF Candidates, TransitionSigners
  <1>5. /\ CertOf[k].principal = PackageOf[sub.package].publisher
        /\ CertOf[b].principal = PackageOf[sub.package].publisher
    BY <1>1, <1>2, <1>3 DEF Candidates, VerifyPublisher
  <1> QED
    BY <1>2, <1>3, <1>4, <1>5

(* What decide establishes of the package and the transition. *)
LEMMA Decided ==
    ASSUME NEW sub, NEW s, NEW p, ConfirmSigned(sub, s, p) = "accept"
    PROVE  LET pkg == PackageOf[sub.package]
               tr  == TransitionOf[sub.transition]
           IN  /\ ValidatePackage(pkg)
               /\ ValidateTransition(tr)
               /\ SamePackage(sub.package, tr)
               /\ CheckState(pkg, tr, s)
  BY AcceptHasPublisher DEF Decide

(* On a chain DigestAt finds nothing beyond the head. *)
LEMMA NothingBeyond ==
    ASSUME NEW s, Chained(s), NEW g \in Int, g > s.generation
    PROVE  DigestAt(s, g) = NoDigest
  BY DEF Chained, DigestAt, RangeOf

(* Accept, on a chain and after an accepting verdict, appends the package  *)
(* to the history and keeps everything else, whether or not the process    *)
(* that has the verdict is the last one to write.                          *)
LEMMA AcceptAppends ==
    ASSUME NEW j, JobInv(j), CanWrite(j)
    PROVE  LET d == j.sub.package
               g == j.state.generation + 1
               t == Accept(j.state, d, j.sub.transition, j.signer)
           IN  /\ t.generation = g /\ t.digest = d
               /\ t.history = Append(j.state.history, [generation |-> g, digest |-> d])
               /\ PackageOf[d].generation = g
               /\ PackageOf[d].previous = j.state.digest
               /\ t.approvals = j.state.approvals
               /\ j.state.revoked \subseteq t.revoked
               /\ \A r \in t.revoked \ j.state.revoked :
                     r.digest = j.state.digest /\ j.state.generation >= 1
  <1> DEFINE s == j.state
             d == j.sub.package
             pkg == PackageOf[d]
             tr == TransitionOf[j.sub.transition]
             g == s.generation + 1
             t == Accept(s, d, j.sub.transition, j.signer)
  <1>1. /\ ValidatePackage(pkg) /\ ValidateTransition(tr) /\ SamePackage(d, tr)
    BY Decided DEF JobInv
  <1>2. s.generation \in Nat /\ s.generation = Len(s.history)
    BY DEF JobInv, Chained
  <1>3. /\ tr.toGeneration = g
        /\ pkg.generation = g
        /\ pkg.previous = s.digest
        /\ tr.action = "revoke" => tr.from = s.digest /\ s.generation >= 1
    <2>1. CASE tr.action = "create"
      BY <1>1, <2>1 DEF CanWrite, CanAccept, Unused, ValidatePackage
    <2>2. CASE tr.action # "create"
      <3>1. tr.from # NoDigest /\ tr.fromGeneration >= 1
        BY <1>1, <2>2 DEF ValidateTransition, RequireFrom
      <3>2. s.generation = tr.fromGeneration /\ s.digest = tr.from
            /\ tr.toGeneration = s.generation + 1 /\ tr.toGeneration = pkg.generation
        BY <2>2 DEF CanWrite, CanAccept
      <3> QED
        BY <1>1, <3>1, <3>2, ZenonT(30) DEF SamePackage
    <2> QED
      BY <2>1, <2>2
  <1>4. RecordEntry(s, g, d) = Append(s.history, [generation |-> g, digest |-> d])
    <2>1. s.history # <<>> => s.history[Len(s.history)].generation # g
      <3>1. s.history \in Seq(RangeOf(s.history))
        BY DEF JobInv, Chained
      <3>2. s.history # <<>> => Len(s.history) \in DOMAIN s.history
        BY <3>1
      <3>3. s.history # <<>> => s.history[Len(s.history)].generation = Len(s.history)
        BY <3>2 DEF JobInv, Chained
      <3> QED
        BY <1>2, <3>3
    <2> QED
      BY <2>1 DEF RecordEntry
  <1>5. t = [scheme |-> pkg.scheme, major |-> pkg.major, minor |-> pkg.minor,
             generation |-> g, digest |-> d, history |-> RecordEntry(s, g, d),
             revoked |-> RevokedAfter(s, tr, j.sub.transition, j.signer),
             approvals |-> s.approvals]
    BY <1>3 DEF Accept
  <1>6. \A r \in RevokedAfter(s, tr, j.sub.transition, j.signer) \ s.revoked :
           r.digest = s.digest /\ s.generation >= 1
    BY <1>3 DEF RevokedAfter, RevocationOf
  <1> QED
    <2> HIDE DEF t, g
    <2>1. /\ t.generation = g /\ t.digest = d /\ t.approvals = s.approvals
          /\ t.history = RecordEntry(s, g, d)
          /\ t.revoked = RevokedAfter(s, tr, j.sub.transition, j.signer)
      BY <1>5
    <2>2. s.revoked \subseteq t.revoked
      BY <2>1 DEF RevokedAfter
    <2>3. /\ t.history = Append(s.history, [generation |-> g, digest |-> d])
          /\ \A r \in t.revoked \ s.revoked : r.digest = s.digest /\ s.generation >= 1
      BY <1>4, <1>6, <2>1
    <2>4. pkg.generation = g /\ pkg.previous = s.digest
      BY <1>3
    <2> QED
      BY <2>1, <2>2, <2>3, <2>4, ZenonT(30) DEF t, g

(* Accept turns one line of generations into one line. *)
LEMMA AcceptKeepsChain ==
    ASSUME NEW j, JobInv(j), CanWrite(j)
    PROVE  Chained(Accept(j.state, j.sub.package, j.sub.transition, j.signer))
  <1> DEFINE s == j.state
             d == j.sub.package
             h == s.history
             n == Len(h)
             t == Accept(s, d, j.sub.transition, j.signer)
             e == [generation |-> n + 1, digest |-> d]
  <1>1. /\ DOMAIN s = Fields /\ s.approvals \in Seq(ApprovalRecords)
        /\ h \in Seq(RangeOf(h)) /\ s.generation = n
        /\ s.digest = IF h = <<>> THEN NoDigest ELSE h[n].digest
    BY DEF JobInv, Chained
  <1>2. /\ t.generation = n + 1 /\ t.digest = d /\ t.approvals = s.approvals
        /\ t.history = Append(h, e)
        /\ PackageOf[d].generation = n + 1 /\ PackageOf[d].previous = s.digest
        /\ \A r \in t.revoked \ s.revoked : r.digest = s.digest /\ n >= 1
    BY <1>1, AcceptAppends
  <1>3. DOMAIN t = Fields
    BY DEF Accept, Fields
  <1> HIDE DEF t
  <1>4. /\ n \in Nat /\ DOMAIN h = 1 .. n
        /\ DOMAIN Append(h, e) = 1 .. n + 1 /\ Len(Append(h, e)) = n + 1
        /\ \A i \in 1 .. n : Append(h, e)[i] = h[i]
        /\ Append(h, e)[n + 1] = e
    BY <1>1
  <1>5. Append(h, e) \in Seq(RangeOf(Append(h, e)))
    <2>1. RangeOf(h) \subseteq RangeOf(Append(h, e)) /\ e \in RangeOf(Append(h, e))
      BY <1>4 DEF RangeOf
    <2> QED
      BY <1>1, <2>1
  <1>6. \A i \in 1 .. n + 1 :
          /\ Append(h, e)[i].generation = i
          /\ PackageOf[Append(h, e)[i].digest].generation = i
          /\ PackageOf[Append(h, e)[i].digest].previous =
                IF i = 1 THEN NoDigest ELSE Append(h, e)[i - 1].digest
    <2> SUFFICES ASSUME NEW i \in 1 .. n + 1
                 PROVE  /\ Append(h, e)[i].generation = i
                        /\ PackageOf[Append(h, e)[i].digest].generation = i
                        /\ PackageOf[Append(h, e)[i].digest].previous =
                              IF i = 1 THEN NoDigest ELSE Append(h, e)[i - 1].digest
      BY ZenonT(30)
    <2>1. CASE i \in 1 .. n
      <3>1. /\ h[i].generation = i /\ PackageOf[h[i].digest].generation = i
            /\ PackageOf[h[i].digest].previous = IF i = 1 THEN NoDigest ELSE h[i - 1].digest
        BY <1>4, <2>1, ZenonT(30) DEF JobInv, Chained
      <3>2. Append(h, e)[i] = h[i] /\ (i # 1 => Append(h, e)[i - 1] = h[i - 1])
        <4> DEFINE m == n
        <4>1. m \in Nat /\ \A k \in 1 .. m : Append(h, e)[k] = h[k]
          BY <1>4
        <4>2. i \in 1 .. m
          BY <2>1
        <4> HIDE DEF m
        <4>3. i # 1 => i - 1 \in 1 .. m
          BY <4>1, <4>2
        <4> QED
          BY <4>1, <4>2, <4>3, ZenonT(30)
      <3> HIDE DEF e, h
      <3> QED
        BY <3>1, <3>2
    <2>2. CASE i = n + 1
      <3>1. h = <<>> <=> n = 0
        BY <1>1, <1>4
      <3>2. i # 1 => Append(h, e)[i - 1] = h[n]
        BY <1>4, <2>2
      <3>3. Append(h, e)[i].generation = i /\ Append(h, e)[i].digest = d
        BY <1>4, <2>2
      <3>4. s.digest = IF i = 1 THEN NoDigest ELSE Append(h, e)[i - 1].digest
        BY <1>1, <1>4, <2>2, <3>1, <3>2
      <3> QED
        BY <1>2, <2>2, <3>3, <3>4
    <2>3. i \in 1 .. n \/ i = n + 1
      <3> DEFINE m == n
      <3>1. m \in Nat /\ i \in 1 .. m + 1
        BY <1>4
      <3> HIDE DEF m
      <3>2. i \in 1 .. m \/ i = m + 1
        BY <3>1
      <3> QED
        BY <3>2 DEF m
    <2> QED
      BY <2>1, <2>2, <2>3, ZenonT(30)
  <1>7. \A r \in t.revoked : \E i \in 1 .. n : Append(h, e)[i].digest = r.digest
    <2> TAKE r \in t.revoked
    <2>1. CASE r \in s.revoked
      <3>1. PICK i \in 1 .. n - 1 : h[i].digest = r.digest
        BY <2>1 DEF JobInv, Chained
      <3>2. i \in 1 .. n
        BY <1>4
      <3> QED
        BY <1>4, <3>1, <3>2
    <2>2. CASE r \notin s.revoked
      <3>1. r.digest = s.digest /\ n >= 1
        BY <1>2, <2>2
      <3>2. n \in 1 .. n /\ r.digest = h[n].digest
        BY <1>1, <1>4, <3>1
      <3> QED
        BY <1>4, <3>2
    <2> QED
      BY <2>1, <2>2
  <1>8. Append(h, e) # <<>> /\ t.digest = Append(h, e)[n + 1].digest
    BY <1>2, <1>4
  <1> HIDE DEF e
  <1> QED
    <2> DEFINE a == Append(h, e)
    <2> HIDE DEF a
    <2>1. /\ t.history = a /\ Len(a) = n + 1 /\ DOMAIN a = 1 .. n + 1 /\ a # <<>>
          /\ t.digest = a[n + 1].digest /\ a \in Seq(RangeOf(a))
      BY <1>2, <1>4, <1>5, <1>8 DEF a
    <2>2. \A i \in 1 .. n + 1 :
            /\ a[i].generation = i
            /\ PackageOf[a[i].digest].generation = i
            /\ PackageOf[a[i].digest].previous = IF i = 1 THEN NoDigest ELSE a[i - 1].digest
      BY <1>6 DEF a
    <2>3. \A r \in t.revoked : \E i \in 1 .. Len(a) - 1 : a[i].digest = r.digest
      BY <1>4, <1>7, <2>1 DEF a
    <2> HIDE DEF n, s, d
    <2>4. /\ DOMAIN t = Fields /\ t.approvals \in Seq(ApprovalRecords)
          /\ t.history \in Seq(RangeOf(t.history)) /\ Len(t.history) = t.generation
      BY <1>1, <1>2, <1>3, <2>1
    <2>5. \A i \in DOMAIN t.history :
            /\ t.history[i].generation = i
            /\ PackageOf[t.history[i].digest].generation = i
            /\ PackageOf[t.history[i].digest].previous =
                  IF i = 1 THEN NoDigest ELSE t.history[i - 1].digest
      BY <2>1, <2>2
    <2>6. t.digest = IF t.history = <<>> THEN NoDigest ELSE t.history[Len(t.history)].digest
      BY <2>1
    <2>7. \A r \in t.revoked :
            \E i \in 1 .. Len(t.history) - 1 : t.history[i].digest = r.digest
      BY <2>1, <2>3
    <2>8. Chained(t)
      BY <2>4, <2>5, <2>6, <2>7 DEF Chained
    <2> QED
      BY <2>8 DEF t, s, d

(* JInv holds at the start, and is kept ... *)
LEMMA InitJInv == AdminInit => JInv
  <1> SUFFICES ASSUME AdminInit PROVE JInv
    OBVIOUS
  <1>1. DOMAIN EmptyState = Fields
    BY DEF EmptyState, Fields
  <1>2. Chained(EmptyState)
    BY <1>1 DEF Chained, EmptyState, RangeOf
  <1> QED
    BY <1>2 DEF AdminInit, JInv

(* Approval records are appended to the state, and nothing else changes. *)
LEMMA ApproveKeepsChain ==
    ASSUME Chained(stateFile), NEW records \in Approvals, Approve(records)
    PROVE  /\ Chained(stateFile')
           /\ stateFile'.approvals = stateFile.approvals \o records
           /\ stateFile'.history = stateFile.history
           /\ stateFile'.revoked = stateFile.revoked
           /\ records \in Seq(ApprovalRecords)
  <1> DEFINE s == stateFile
             t == stateFile'
  <1>1. t = [s EXCEPT !.approvals = s.approvals \o records]
    BY DEF Approve
  <1>2. DOMAIN s = Fields /\ s.approvals \in Seq(ApprovalRecords)
    BY DEF Chained
  <1>3. /\ DOMAIN t = Fields
        /\ t.approvals = s.approvals \o records
        /\ \A f \in Fields \ {"approvals"} : t[f] = s[f]
    BY <1>1, <1>2 DEF Fields
  <1>4. /\ t.generation = s.generation /\ t.digest = s.digest
        /\ t.history = s.history /\ t.revoked = s.revoked
    BY <1>3 DEF Fields
  <1>5. records \in Seq(ApprovalRecords)
    <2>1. records \in Seq(RangeOf(records)) /\ RangeOf(records) \subseteq ApprovalRecords
      BY ApprovalsAssumption DEF ApprovalRecords
    <2> QED
      BY <2>1
  <1>6. t.approvals \in Seq(ApprovalRecords)
    BY <1>2, <1>3, <1>5
  <1> HIDE DEF s, t
  <1>7. Chained(s) => Chained(t)
    <2>1. DOMAIN t = Fields
      BY <1>3
    <2> QED
      BY <1>4, <1>6, <2>1 DEF Chained
  <1> QED
    BY <1>3, <1>4, <1>5, <1>7 DEF s, t

(* ... by a confirmation, ... *)
LEMMA ConfirmStep ==
    ASSUME JInv, NEW p \in Processes, NEW sub \in Submissions, NEW policy \in Policies,
           Confirm(p, sub, policy)
    PROVE  JInv'
  <1> DEFINE q == [policy EXCEPT !.observedAt = clock]
  <1>1. PICK caller \in {"scheme-admin", "AcceptSigned"} :
          job' = [job EXCEPT ![p] = [sub |-> sub, policy |-> q, state |-> stateFile,
                                     signer |-> TombstoneSigner(caller, sub, stateFile, q)]]
    BY ZenonT(30) DEF Confirm
  <1>2. ConfirmSigned(sub, stateFile, q) = "accept" /\ stateFile' = stateFile
    BY DEF Confirm
  <1>3. q.approvalThreshold \in Int
    BY PoliciesAssumption
  <1>4. /\ DOMAIN job' = Processes
        /\ \A o \in Processes \ {p} : job'[o] = job[o]
        /\ job'[p].sub = sub /\ job'[p].policy = q /\ job'[p].state = stateFile
    BY <1>1 DEF JInv
  <1> HIDE DEF q
  <1>5. JobInv(job'[p])
    BY <1>2, <1>3, <1>4 DEF JInv, JobInv
  <1>6. \A o \in Processes \ {p} : job'[o] # NoJob => JobInv(job'[o])
    BY <1>4 DEF JInv
  <1>7. Chained(stateFile')
    BY <1>2 DEF JInv
  <1> QED
    BY <1>4, <1>5, <1>6, <1>7 DEF JInv

(* ... by the end of a process, ... *)
LEMMA ExitKeepsJobs ==
    ASSUME JInv, NEW p \in Processes, Exit(p)
    PROVE  /\ DOMAIN job' = Processes
           /\ job'[p] = NoJob
           /\ \A o \in Processes : job'[o] # NoJob => JobInv(job'[o])
  <1>1. DOMAIN job' = Processes /\ job'[p] = NoJob /\ \A o \in Processes \ {p} : job'[o] = job[o]
    BY DEF JInv, Exit
  <1> QED
    BY <1>1 DEF JInv

(* ... and so by every step. *)
LEMMA NextJInv == JInv /\ [AdminNext]_adminVars => JInv'
  <1> SUFFICES ASSUME JInv, [AdminNext]_adminVars PROVE JInv'
    OBVIOUS
  <1>1. CASE \E p \in Processes, sub \in Submissions, policy \in Policies : Confirm(p, sub, policy)
    BY <1>1, ConfirmStep
  <1>2. ASSUME NEW p \in Processes, Write(p) PROVE JInv'
    <2>1. Exit(p) /\ job[p] # NoJob
      BY <1>2 DEF Write
    <2>2. Chained(stateFile')
      <3>1. CASE CanWrite(job[p])
        <4>1. stateFile' = Accept(job[p].state, job[p].sub.package, job[p].sub.transition,
                                  job[p].signer)
          BY <1>2, <3>1 DEF Write
        <4>2. JobInv(job[p])
          BY <2>1 DEF JInv
        <4> QED
          BY <3>1, <4>1, <4>2, AcceptKeepsChain
      <3>2. CASE ~CanWrite(job[p])
        BY <1>2, <3>2 DEF Write, JInv
      <3> QED
        BY <3>1, <3>2
    <2> QED
      BY <2>1, <2>2, ExitKeepsJobs DEF JInv
  <1>3. ASSUME NEW p \in Processes, Crash(p) PROVE JInv'
    <2>1. Exit(p) /\ stateFile' = stateFile
      BY <1>3 DEF Crash
    <2>2. Chained(stateFile')
      BY <2>1 DEF JInv
    <2> QED
      BY <2>1, <2>2, ExitKeepsJobs DEF JInv
  <1>4. ASSUME NEW records \in Approvals, Approve(records) PROVE JInv'
    <2>1. job' = job /\ Chained(stateFile')
      BY <1>4, ApproveKeepsChain, ZenonT(30) DEF Approve, JInv
    <2> QED
      BY <2>1 DEF JInv
  <1>5. CASE Tick \/ UNCHANGED adminVars
    <2>1. job' = job /\ stateFile' = stateFile
      BY <1>5 DEF Tick, adminVars
    <2> QED
      BY <2>1 DEF JInv
  <1> QED
    BY <1>1, <1>2, <1>3, <1>4, <1>5 DEF AdminNext, AdminStep

(* Any processes, interleavings and crashes leave one line of generations  *)
(* in the state file, each package naming the one before it, and every     *)
(* tombstone is of an older generation of that line (Accept).              *)
THEOREM StateStaysChain == AdminSpec => []StateIsChain
  <1>1. JInv => StateIsChain
    BY DEF JInv, Chained, StateIsChain
  <1> QED
    BY <1>1, InitJInv, NextJInv, PTL DEF AdminSpec

--------------------------------------------------------------------------------
(* The head of a chain is not among its revoked packages: those belong to  *)
(* older generations.                                                      *)
LEMMA HeadIsNotRevoked ==
    ASSUME NEW s, Chained(s), s.generation >= 1
    PROVE  \A r \in s.revoked : r.digest # s.digest
  <1> TAKE r \in s.revoked
  <1> DEFINE h == s.history
             n == Len(h)
  <1>1. /\ n = s.generation /\ h \in Seq(RangeOf(h))
        /\ \A i \in DOMAIN h : PackageOf[h[i].digest].generation = i
    BY DEF Chained
  <1>2. n \in Nat /\ DOMAIN h = 1 .. n /\ h # <<>>
    BY <1>1
  <1>3. PICK i \in 1 .. n - 1 : h[i].digest = r.digest
    BY DEF Chained
  <1>4. s.digest = h[n].digest
    BY <1>2 DEF Chained
  <1>5. PackageOf[r.digest].generation = i /\ PackageOf[s.digest].generation = n
    BY <1>1, <1>2, <1>3, <1>4
  <1> QED
    BY <1>2, <1>5

(* What was confirmed can be recorded, but for the two revocations. *)
LEMMA JobAcceptable ==
    ASSUME NEW j, JobInv(j)
    PROVE  LET tr == TransitionOf[j.sub.transition] IN
           \/ CanWrite(j)
           \/ /\ tr.action = "revoke"
              /\ \/ tr.replacement = tr.from
                 \/ ~VerifyCertificate(j.signer, j.policy.roots, j.policy.observedAt)
  <1> DEFINE s == j.state
             d == j.sub.package
             pkg == PackageOf[d]
             tr == TransitionOf[j.sub.transition]
  <1>1. ValidateTransition(tr) /\ SamePackage(d, tr) /\ CheckState(pkg, tr, s)
    BY Decided DEF JobInv
  <1>2. pkg.scheme = tr.scheme /\ tr.toGeneration = pkg.generation /\ tr.to = d
    BY <1>1, ZenonT(30) DEF SamePackage
  <1>3. s.generation \in Nat /\ Chained(s)
    <2>1. Chained(s)
      BY DEF JobInv
    <2> HIDE DEF s
    <2>2. s.history \in Seq(RangeOf(s.history)) /\ Len(s.history) = s.generation
      BY <2>1 DEF Chained
    <2> QED
      BY <2>1, <2>2
  <1>4. /\ \/ tr.action = "create" /\ Unused(s) /\ tr.toGeneration = 1
           \/ /\ tr.action # "create"
              /\ s.generation = tr.fromGeneration
              /\ s.digest = tr.from
              /\ tr.toGeneration = s.generation + 1
        /\ tr.toGeneration = s.generation + 1
    <2> HIDE DEF s, pkg, tr
    <2>1. CASE tr.action = "create" /\ Unused(s)
      <3>1. tr.toGeneration = 1
        BY <1>1, <2>1 DEF ValidateTransition
      <3>2. s.generation = 0
        BY <2>1 DEF Unused
      <3> QED
        BY <2>1, <3>1, <3>2
    <2>2. CASE /\ tr.action # "create"
               /\ s.generation = tr.fromGeneration
               /\ s.digest = tr.from
               /\ tr.toGeneration = tr.fromGeneration + 1
      BY <2>2
    <2> QED
      BY <1>1, <2>1, <2>2, ZenonT(30) DEF CheckState
  <1>5. DigestAt(s, tr.toGeneration) \in {NoDigest, d}
    BY <1>3, <1>4, NothingBeyond
  <1>6. ASSUME tr.action = "revoke", tr.replacement # tr.from,
               VerifyCertificate(j.signer, j.policy.roots, j.policy.observedAt)
        PROVE  /\ \A r \in s.revoked : r.digest # tr.from
               /\ VerifyTombstone(RevocationOf(tr, j.sub.transition, j.signer), pkg.scheme,
                                  j.policy.roots, j.policy.observedAt)
    <2>1. s.digest = tr.from /\ s.generation >= 1
      BY <1>1, <1>4, <1>6, ZenonT(30) DEF ValidateTransition, RequireFrom
    <2>2. \A r \in s.revoked : r.digest # tr.from
      BY <1>3, <2>1, HeadIsNotRevoked
    <2> QED
      BY <1>1, <1>2, <1>6, <2>2, ZenonT(30) DEF VerifyTombstone, RevocationOf
  <1> QED
    BY <1>2, <1>4, <1>5, <1>6, ZenonT(30) DEF CanWrite, CanAccept

(* What ConfirmSigned accepted for a state Accept never refuses on that    *)
(* state, but for the two kinds of revocation the property names: the      *)
(* generation rules of checkState and of Accept agree on every chain.      *)
THEOREM ConfirmedStaysAcceptable == AdminSpec => []ConfirmedIsAcceptable
  <1>1. JInv => ConfirmedIsAcceptable
    BY JobAcceptable DEF JInv, ConfirmedIsAcceptable
  <1> QED
    BY <1>1, InitJInv, NextJInv, PTL DEF AdminSpec

(* Every confirmed job has one key that signed both the package and the    *)
(* transition in the publisher's name, and a certificate of that key holds *)
(* the authority, for any co-signers (ConfirmSigned).                      *)
THEOREM OneKeyHoldsAuthority == AdminSpec => []OneKeySignedAndHeldAuthority
  <1>1. ASSUME NEW j, JobInv(j)
        PROVE  \E a \in Signers(j.sub.signatures), b \in Signers(j.sub.transitionSignatures) :
                 /\ KeyOf(a) = KeyOf(b)
                 /\ CertOf[a].principal = PackageOf[j.sub.package].publisher
                 /\ CertOf[b].principal = PackageOf[j.sub.package].publisher
                 /\ \E g \in CertOf[a].grants, r \in j.policy.rootGrants :
                      /\ ManagementOperation(PackageOf[j.sub.package],
                                             TransitionOf[j.sub.transition]) \in g
                      /\ g \subseteq r
    <2> DEFINE op == ManagementOperation(PackageOf[j.sub.package], TransitionOf[j.sub.transition])
    <2>1. PICK a \in Signers(j.sub.signatures), b \in Signers(j.sub.transitionSignatures) :
            /\ Decide(j.sub, a, j.state, j.policy)
            /\ KeyOf(a) = KeyOf(b)
            /\ CertOf[a].principal = PackageOf[j.sub.package].publisher
            /\ CertOf[b].principal = PackageOf[j.sub.package].publisher
      BY <1>1, AcceptHasPublisher DEF JobInv
    <2>2. Authorized(a, op, j.policy)
      BY <2>1, ZenonT(30) DEF Decide
    <2> HIDE DEF op
    <2>3. \E g \in CertOf[a].grants, r \in j.policy.rootGrants : op \in g /\ g \subseteq r
      BY <2>2 DEF Authorized, ContainGrants, GrantsFor
    <2> QED
      BY <2>1, <2>3 DEF op
  <1>2. JInv => OneKeySignedAndHeldAuthority
    BY <1>1 DEF JInv, OneKeySignedAndHeldAuthority
  <1> QED
    BY <1>2, InitJInv, NextJInv, PTL DEF AdminSpec

(* The image of a finite set under a function that is injective on it has  *)
(* as many elements.                                                       *)
LEMMA InjectiveImage ==
    ASSUME NEW S, IsFiniteSet(S), NEW f, DOMAIN f = S, f = [x \in S |-> f[x]],
           \A x, y \in S : x # y => f[x] # f[y]
    PROVE  Cardinality({f[x] : x \in S}) = Cardinality(S)
  <1> DEFINE T == {f[x] : x \in S}
  <1>1. f \in Surjection(S, T) /\ f \in Injection(S, T)
    BY ZenonT(30) DEF Surjection, Injection, IsInjective
  <1> QED
    BY <1>1, FS_Surjection

(* The records verifyApprovals counted have as many principals, and as     *)
(* many keys, as there are records.                                        *)
LEMMA JobQuorum ==
    ASSUME NEW j, JobInv(j)
    PROVE  LET names == {i \in ApprovalsFor(j.state, j.sub.package, j.sub.transition) :
                            j.state.approvals[i].over = <<j.sub.package, j.sub.transition>>}
               certs == {CertOf[j.state.approvals[i].by] : i \in names}
           IN  /\ Cardinality({c.principal : c \in certs}) >= j.policy.approvalThreshold
               /\ Cardinality({c.key : c \in certs}) >= j.policy.approvalThreshold
  <1> DEFINE d == j.sub.package
             t == j.sub.transition
             thr == j.policy.approvalThreshold
             records == ApprovalsFor(j.state, d, t)
             cert(i) == CertOf[j.state.approvals[i].by]
             names == {i \in records : j.state.approvals[i].over = <<d, t>>}
             certs == {cert(i) : i \in names}
             principal == [i \in names |-> cert(i).principal]
             key == [i \in names |-> cert(i).key]
             Principals == {c.principal : c \in certs}
             Keys == {c.key : c \in certs}
  <1> SUFFICES Cardinality(Principals) >= thr /\ Cardinality(Keys) >= thr
    BY ZenonT(30)
  <1>1. thr \in Int
    BY DEF JobInv
  <1>2. PICK k : Decide(j.sub, k, j.state, j.policy)
    BY AcceptHasPublisher DEF JobInv
  <1>3. thr >= 0 /\ (thr > 0 => VerifyApprovals(j.state, d, t, j.policy))
    BY <1>2, ZenonT(30) DEF Decide, ValidatePolicy
  <1>4. IsFiniteSet(names)
    <2>1. j.state.approvals \in Seq(ApprovalRecords)
      BY DEF JobInv, Chained
    <2>2. names \in SUBSET (1 .. Len(j.state.approvals)) /\ Len(j.state.approvals) \in Int
      BY <2>1 DEF ApprovalsFor
    <2> HIDE DEF names
    <2>3. IsFiniteSet(1 .. Len(j.state.approvals))
      <3>1. 1 \in Int
        OBVIOUS
      <3> QED
        BY <2>2, <3>1, FS_Interval, ZenonT(30)
    <2> QED
      BY <2>2, <2>3, FS_Subset, ZenonT(30)
  <1>5. /\ Principals = {principal[i] : i \in names}
        /\ Keys = {key[i] : i \in names}
    BY ZenonT(30)
  <1>6. CASE thr > 0
    <2>1. /\ \A i \in records : ValidApproval(j.state.approvals[i], d, t, j.policy)
          /\ \A x, y \in records :
                x # y => cert(x).principal # cert(y).principal /\ cert(x).key # cert(y).key
          /\ Cardinality(records) >= thr
      BY <1>3, <1>6, ZenonT(30) DEF VerifyApprovals
    <2>2. names = records
      BY <2>1, ZenonT(30) DEF ValidApproval
    <2>3. /\ \A x, y \in names : x # y => principal[x] # principal[y]
          /\ \A x, y \in names : x # y => key[x] # key[y]
      BY <2>1, <2>2, ZenonT(30)
    <2>4. /\ DOMAIN principal = names /\ principal = [x \in names |-> principal[x]]
          /\ DOMAIN key = names /\ key = [x \in names |-> key[x]]
      BY ZenonT(30)
    <2> HIDE DEF principal, key, names, records, Principals, Keys
    <2>5. Cardinality({principal[i] : i \in names}) = Cardinality(names)
      BY <1>4, <2>3, <2>4, InjectiveImage
    <2>6. Cardinality({key[i] : i \in names}) = Cardinality(names)
      BY <1>4, <2>3, <2>4, InjectiveImage
    <2> QED
      BY <1>5, <2>1, <2>2, <2>5, <2>6, ZenonT(30)
  <1>7. CASE thr = 0
    <2>1. /\ principal \in Surjection(names, {principal[i] : i \in names})
          /\ key \in Surjection(names, {key[i] : i \in names})
      BY ZenonT(30) DEF Surjection
    <2> HIDE DEF principal, key, names, Principals, Keys
    <2>2. /\ IsFiniteSet({principal[i] : i \in names})
          /\ IsFiniteSet({key[i] : i \in names})
      BY <1>4, <2>1, FS_Surjection
    <2>3. /\ Cardinality({principal[i] : i \in names}) \in Nat
          /\ Cardinality({key[i] : i \in names}) \in Nat
      BY <2>2, FS_CardinalityType
    <2> QED
      BY <1>5, <1>7, <2>3
  <1> HIDE DEF Principals, Keys
  <1> QED
    BY <1>1, <1>3, <1>6, <1>7

(* A policy that asks for n approvals gets n principals with n keys, for   *)
(* any approval records in any state file (verifyApprovals).               *)
THEOREM QuorumIsDistinct == AdminSpec => []QuorumOfDistinctApprovers
  <1>1. JInv => QuorumOfDistinctApprovers
    BY JobQuorum, ZenonT(30) DEF JInv, QuorumOfDistinctApprovers
  <1> QED
    BY <1>1, InitJInv, NextJInv, PTL DEF AdminSpec

(* A confirmed root rotation has a threshold of distinct current root keys *)
(* behind it and leads away from the current root (checkRootRotation).     *)
THEOREM RotationNeedsCurrentRoots == AdminSpec => []RotationByCurrentRoots
  <1>1. ASSUME NEW j, JobInv(j), TransitionOf[j.sub.transition].action = "root-rotate"
        PROVE  /\ Cardinality({KeyOf(k) : k \in Signers(j.sub.signatures)} \cap j.policy.rootKeys)
                     >= j.policy.rootThreshold
               /\ TransitionOf[j.sub.transition].to # j.policy.rootPackage
    <2>1. PICK k : Decide(j.sub, k, j.state, j.policy)
      BY <1>1, AcceptHasPublisher DEF JobInv
    <2>2. CheckRootRotation(TransitionOf[j.sub.transition], k, Signers(j.sub.signatures), j.policy)
      BY <1>1, <2>1, ZenonT(30) DEF Decide
    <2> QED
      BY <2>2 DEF CheckRootRotation
  <1>2. JInv => RotationByCurrentRoots
    BY <1>1 DEF JInv, RotationByCurrentRoots
  <1> QED
    BY <1>2, InitJInv, NextJInv, PTL DEF AdminSpec

--------------------------------------------------------------------------------
(* A history is a prefix of itself. *)
LEMMA PrefixOfItself == \A s : s \in Seq(RangeOf(s)) \/ s \in Seq(ApprovalRecords) => IsPrefixOf(s, s)
  BY DEF IsPrefixOf

(* The file loses a generation, a tombstone or an approval only by the     *)
(* write of a process that read it before its latest change, whatever else *)
(* the processes do (Accept copies what it does not append to).            *)
THEOREM DeletesOnlyStale == AdminSpec => OnlyStaleWritesDelete
  <1> DEFINE Kept == /\ IsPrefixOf(stateFile.history, stateFile'.history)
                     /\ stateFile.revoked \subseteq stateFile'.revoked
                     /\ IsPrefixOf(stateFile.approvals, stateFile'.approvals)
             Stale == \E p \in Processes :
                        job[p] # NoJob /\ job'[p] = NoJob /\ job[p].state # stateFile
  <1>1. JInv /\ [AdminNext]_adminVars => [Kept \/ Stale]_adminVars
    <2> SUFFICES ASSUME JInv, AdminNext PROVE Kept \/ Stale
      OBVIOUS
    <2>1. /\ stateFile.history \in Seq(RangeOf(stateFile.history))
          /\ stateFile.approvals \in Seq(ApprovalRecords)
      BY DEF JInv, Chained
    <2>2. CASE stateFile' = stateFile
      <3>1. IsPrefixOf(stateFile.history, stateFile.history)
            /\ IsPrefixOf(stateFile.approvals, stateFile.approvals)
        BY <2>1, PrefixOfItself
      <3> QED
        BY <2>2, <3>1
    <2>3. ASSUME NEW p \in Processes, Write(p), stateFile' # stateFile PROVE Kept \/ Stale
      <3> DEFINE j == job[p]
      <3>1. /\ j # NoJob /\ JobInv(j) /\ CanWrite(j) /\ job'[p] = NoJob
            /\ stateFile' = Accept(j.state, j.sub.package, j.sub.transition, j.signer)
        BY <2>3, ExitKeepsJobs DEF Write, JInv
      <3>2. CASE j.state # stateFile
        BY <3>1, <3>2
      <3>3. CASE j.state = stateFile
        <4> DEFINE e == [generation |-> stateFile.generation + 1, digest |-> j.sub.package]
        <4>1. /\ stateFile'.history = Append(stateFile.history, e)
              /\ stateFile'.approvals = stateFile.approvals
              /\ stateFile.revoked \subseteq stateFile'.revoked
          BY <3>1, <3>3, AcceptAppends, ZenonT(30)
        <4> HIDE DEF e
        <4>2. IsPrefixOf(stateFile.history, Append(stateFile.history, e))
          BY <2>1 DEF IsPrefixOf
        <4> QED
          BY <2>1, <4>1, <4>2, PrefixOfItself
      <3> QED
        BY <3>2, <3>3
    <2>4. ASSUME NEW records \in Approvals, Approve(records) PROVE Kept
      <3>1. /\ stateFile'.approvals = stateFile.approvals \o records
            /\ stateFile'.history = stateFile.history
            /\ stateFile'.revoked = stateFile.revoked
            /\ records \in Seq(ApprovalRecords)
        BY <2>4, ApproveKeepsChain DEF JInv
      <3>2. IsPrefixOf(stateFile.approvals, stateFile.approvals \o records)
        BY <2>1, <3>1 DEF IsPrefixOf
      <3> QED
        BY <2>1, <3>1, <3>2, PrefixOfItself
    <2>5. \/ stateFile' = stateFile
          \/ \E p \in Processes : Write(p)
          \/ \E records \in Approvals : Approve(records)
      BY ZenonT(30) DEF AdminNext, AdminStep, Confirm, Crash, Tick
    <2> HIDE DEF Kept, Stale
    <2> QED
      BY <2>2, <2>3, <2>4, <2>5
  <1> QED
    BY <1>1, InitJInv, NextJInv, PTL DEF AdminSpec, OnlyStaleWritesDelete

--------------------------------------------------------------------------------
(* The registry in memory. *)

(* What a goroutine may have left to execute, by the read locks it holds   *)
(* then; Writing is the rest of Register once the write lock is its own.   *)

Writing == {<<"check", "insert", "Unlock">>, <<"insert", "Unlock">>, <<"Unlock">>}
Draining == {<<"Drain", "check", "insert", "Unlock">>}
Starting == {<<>>, <<"Lock", "Drain", "check", "insert", "Unlock">>,
             <<"RLock", "get", "RUnlock">>, <<"RLock", "has", "RUnlock">>,
             <<"RLock", "hasCapability", "RUnlock">>, <<"RLock", "ids", "RUnlock">>,
             <<"RLock", "get", "RUnlock", "scan">>, <<"scan">>,
             <<"RLock", "RLock", "ids", "RUnlock", "render", "RUnlock">>}
Printing == {<<"render", "RUnlock">>}
Locked == {<<"get", "RUnlock">>, <<"has", "RUnlock">>, <<"hasCapability", "RUnlock">>,
           <<"ids", "RUnlock">>, <<"RUnlock">>, <<"get", "RUnlock", "scan">>,
           <<"RUnlock", "scan">>, <<"RLock", "ids", "RUnlock", "render", "RUnlock">>}
Collected == {<<"RUnlock", "render", "RUnlock">>}
Collecting == {<<"ids", "RUnlock", "render", "RUnlock">>}

Codes == Writing \cup Draining \cup Starting \cup Printing \cup Locked \cup Collected \cup Collecting

ReadLocks(c) ==
    IF c \in Locked \cup Printing THEN 1 ELSE IF c \in Collected \cup Collecting THEN 2 ELSE 0

MapReads == {"get", "has", "hasCapability", "ids", "render"}

(* The code of every method is one a call can start with. *)
LEMMA Programs == \A op \in Methods : Program(op) \in Starting
  <1> SUFFICES ASSUME NEW op \in Methods PROVE Program(op) \in Starting
    OBVIOUS
  <1>1. CASE op = "Register"
    BY <1>1 DEF Program, Starting
  <1>2. CASE op = "ValidateCapability"
    BY <1>2 DEF Program, Starting
  <1>3. CASE op = "Summary"
    BY <1>3 DEF Program, Starting
  <1>4. CASE op \in {"Get", "Has", "HasCapability", "SchemeIDs"}
    <2>1. Program(op) = <<"RLock", ReadOf[op], "RUnlock">>
      BY <1>4 DEF Program
    <2>2. ReadOf[op] \in {"get", "has", "hasCapability", "ids"}
      BY <1>4 DEF ReadOf
    <2> QED
      BY <2>1, <2>2 DEF Starting
  <1> QED
    BY <1>1, <1>2, <1>3, <1>4 DEF Methods

(* What is left of a call tells how far it has come. *)
LEMMA Disjoint ==
    /\ Writing \cap (Draining \cup Starting \cup Printing \cup Locked \cup Collected \cup Collecting) = {}
    /\ Draining \cap (Starting \cup Printing \cup Locked \cup Collected \cup Collecting) = {}
    /\ Starting \cap (Printing \cup Locked \cup Collected \cup Collecting) = {}
    /\ (Printing \cup Locked) \cap (Collected \cup Collecting) = {}
    /\ Printing \cap Locked = {} /\ Collected \cap Collecting = {}
  BY SMTT(60) DEF Writing, Draining, Starting, Printing, Locked, Collected, Collecting

(* One instruction further, group by group. *)
LEMMA WritingCode ==
    ASSUME NEW c \in Writing
    PROVE  /\ c # <<>> /\ Head(c) \in {"check", "insert", "Unlock"}
           /\ Head(c) = "check" => Tail(c) = <<"insert", "Unlock">> /\ Len(c) = 3
           /\ Tail(c) = <<"insert", "Unlock">> => Head(c) = "check"
           /\ Head(c) = "insert" => Tail(c) = <<"Unlock">>
           /\ Head(c) = "Unlock" => Tail(c) = <<>>
  <1>1. CASE c = <<"check", "insert", "Unlock">>
    BY <1>1
  <1>2. CASE c = <<"insert", "Unlock">>
    BY <1>2
  <1>3. CASE c = <<"Unlock">>
    BY <1>3
  <1> QED
    BY <1>1, <1>2, <1>3 DEF Writing

(* What comes next: for a writer that waits for the readers, ... *)
LEMMA DrainingCode ==
    ASSUME NEW c \in Draining
    PROVE  /\ c # <<>> /\ Head(c) = "Drain" /\ Tail(c) = <<"check", "insert", "Unlock">>
           /\ Tail(c) # <<"insert", "Unlock">>
  <1>1. c = <<"Drain", "check", "insert", "Unlock">>
    BY DEF Draining
  <1> QED
    BY <1>1

(* ... for a call that starts, ... *)
LEMMA StartingCode ==
    ASSUME NEW c \in Starting, c # <<>>
    PROVE  /\ Head(c) \in {"Lock", "RLock", "scan"}
           /\ Head(c) = "Lock" => Tail(c) \in Draining
           /\ Head(c) = "RLock" => Tail(c) \in Locked
           /\ Head(c) = "scan" => Tail(c) = <<>>
  <1>1. CASE c = <<"Lock", "Drain", "check", "insert", "Unlock">>
    BY <1>1 DEF Draining, Locked
  <1>2. CASE c = <<"RLock", "get", "RUnlock">>
    BY <1>2 DEF Draining, Locked
  <1>3. CASE c = <<"RLock", "has", "RUnlock">>
    BY <1>3 DEF Draining, Locked
  <1>4. CASE c = <<"RLock", "hasCapability", "RUnlock">>
    BY <1>4 DEF Draining, Locked
  <1>5. CASE c = <<"RLock", "ids", "RUnlock">>
    BY <1>5 DEF Draining, Locked
  <1>6. CASE c = <<"RLock", "get", "RUnlock", "scan">>
    BY <1>6 DEF Draining, Locked
  <1>7. CASE c = <<"scan">>
    BY <1>7 DEF Draining, Locked
  <1>8. CASE c = <<"RLock", "RLock", "ids", "RUnlock", "render", "RUnlock">>
    BY <1>8 DEF Draining, Locked
  <1> QED
    BY <1>1, <1>2, <1>3, <1>4, <1>5, <1>6, <1>7, <1>8 DEF Starting

(* ... for a call that has a lock, ... *)
LEMMA LockedCode ==
    ASSUME NEW c \in Locked
    PROVE  /\ c # <<>> /\ Head(c) \in {"get", "has", "hasCapability", "ids", "RLock", "RUnlock"}
           /\ Head(c) \in MapReads => Tail(c) \in Locked
           /\ Head(c) = "RLock" => Tail(c) \in Collecting
           /\ Head(c) = "RUnlock" => Tail(c) \in Starting
  <1>1. CASE c = <<"get", "RUnlock">>
    BY <1>1 DEF Starting, Locked, Collecting, MapReads
  <1>2. CASE c = <<"has", "RUnlock">>
    BY <1>2 DEF Starting, Locked, Collecting, MapReads
  <1>3. CASE c = <<"hasCapability", "RUnlock">>
    BY <1>3 DEF Starting, Locked, Collecting, MapReads
  <1>4. CASE c = <<"ids", "RUnlock">>
    BY <1>4 DEF Starting, Locked, Collecting, MapReads
  <1>5. CASE c = <<"RUnlock">>
    BY <1>5 DEF Starting, Locked, Collecting, MapReads
  <1>6. CASE c = <<"get", "RUnlock", "scan">>
    BY <1>6 DEF Starting, Locked, Collecting, MapReads
  <1>7. CASE c = <<"RUnlock", "scan">>
    BY <1>7 DEF Starting, Locked, Collecting, MapReads
  <1>8. CASE c = <<"RLock", "ids", "RUnlock", "render", "RUnlock">>
    BY <1>8 DEF Starting, Locked, Collecting, MapReads
  <1> QED
    BY <1>1, <1>2, <1>3, <1>4, <1>5, <1>6, <1>7, <1>8 DEF Locked

(* ... and for Summary. *)
LEMMA SummaryCode ==
    /\ \A c \in Collecting : c # <<>> /\ Head(c) = "ids" /\ Tail(c) \in Collected
    /\ \A c \in Collected : c # <<>> /\ Head(c) = "RUnlock" /\ Tail(c) \in Printing
    /\ \A c \in Printing : c # <<>> /\ Head(c) = "render" /\ Tail(c) \in Locked
  BY DEF Collecting, Collected, Printing, Locked

(* All of it as the steps use it. *)
LEMMA CodeStep ==
    ASSUME NEW c \in Codes, c # <<>>
    PROVE  /\ Tail(c) \in Codes
           /\ Head(c) = "Lock" => c \in Starting /\ Tail(c) \in Draining
           /\ Head(c) = "Drain" => c \in Draining /\ Tail(c) \in Writing
           /\ Head(c) \in {"check", "insert"} => c \in Writing /\ Tail(c) \in Writing
           /\ Head(c) = "Unlock" => c \in Writing /\ Tail(c) \in Starting
           /\ Head(c) = "RLock" => ReadLocks(Tail(c)) = ReadLocks(c) + 1
           /\ Head(c) = "RUnlock" => ReadLocks(Tail(c)) = ReadLocks(c) - 1
           /\ Head(c) \in MapReads \cup {"scan"} => ReadLocks(Tail(c)) = ReadLocks(c)
           /\ Head(c) \in MapReads => ReadLocks(c) \in {1, 2}
           /\ Head(c) = "check" => Tail(c) = <<"insert", "Unlock">> /\ Len(c) = 3
           /\ Head(c) \notin {"Lock", "Drain", "check", "insert"} =>
                 Tail(c) \notin Draining \cup Writing
           /\ Tail(c) \in Collected => Head(c) = "ids"
           /\ Tail(c) \in Printing => c \in Collected
  <1>1. <<>> \in Starting /\ <<"Unlock">> \in Writing /\ <<"insert", "Unlock">> \in Writing
        /\ <<"check", "insert", "Unlock">> \in Writing
    BY DEF Starting, Writing
  <1>2. CASE c \in Writing
    <2>1. /\ Head(c) \in {"check", "insert", "Unlock"}
          /\ Head(c) = "check" => Tail(c) = <<"insert", "Unlock">> /\ Len(c) = 3
          /\ Head(c) = "insert" => Tail(c) = <<"Unlock">>
          /\ Head(c) = "Unlock" => Tail(c) = <<>>
      BY <1>2, WritingCode
    <2>2. /\ Head(c) \in {"check", "insert"} => Tail(c) \in Writing
          /\ Head(c) = "Unlock" => Tail(c) \in Starting
      BY <1>1, <2>1, ZenonT(30)
    <2>3. Head(c) = "Unlock" => Tail(c) \notin Draining \cup Writing
      BY <2>2, Disjoint
    <2>4. Tail(c) \notin Collected \cup Printing
      BY <2>1, <2>2, Disjoint
    <2> QED
      BY <1>2, <2>1, <2>2, <2>3, <2>4 DEF MapReads, Codes
  <1>3. CASE c \in Draining
    BY <1>1, <1>3, DrainingCode, Disjoint, ZenonT(30) DEF ReadLocks, MapReads, Codes
  <1>4. CASE c \in Starting
    <2>1. /\ Head(c) \in {"Lock", "RLock", "scan"}
          /\ Head(c) = "Lock" => Tail(c) \in Draining
          /\ Head(c) = "RLock" => Tail(c) \in Locked
          /\ Head(c) = "scan" => Tail(c) \in Starting
      BY <1>1, <1>4, StartingCode, ZenonT(30)
    <2> QED
      BY <1>4, <2>1, Disjoint DEF ReadLocks, MapReads, Codes
  <1>5. CASE c \in Locked
    BY <1>1, <1>5, LockedCode, Disjoint DEF ReadLocks, MapReads, Codes
  <1>6. CASE c \in Collecting \cup Collected \cup Printing
    BY <1>1, <1>6, SummaryCode, Disjoint DEF ReadLocks, MapReads, Codes
  <1> QED
    BY <1>2, <1>3, <1>4, <1>5, <1>6 DEF Codes

(* An insertion comes right after its check. *)
LEMMA InsertNext ==
    ASSUME NEW c \in Codes, c # <<>>, Tail(c) = <<"insert", "Unlock">>
    PROVE  Head(c) = "check"
  <1>1. Tail(c) \in Writing
    BY DEF Writing
  <1>2. Tail(c) \notin Draining
    BY <1>1, Disjoint
  <1>3. c \in Draining \cup Writing
    BY <1>1, <1>2, CodeStep
  <1> QED
    BY <1>3, DrainingCode, WritingCode

--------------------------------------------------------------------------------
(* The inductive invariant.  The locks: what a goroutine has left tells    *)
(* the read locks it holds; who drains or writes owns the writers' mutex,  *)
(* and nobody reads while somebody writes.                                 *)
LInv ==
    /\ code \in [Procs -> Codes]
    /\ readers \in [Procs -> Int]
    /\ \A p \in Procs : readers[p] = ReadLocks(code[p])
    /\ \A p \in Procs : code[p] \in Draining \cup Writing => pending = p
    /\ \A p \in Procs : code[p] \in Writing => \A q \in Procs : readers[q] = 0
    /\ held \subseteq Procs
    /\ \A p \in held : At(p, "RLock")
    /\ phase # "serve" => \A p \in Procs : code[p] = <<>>

(* The map: a Register about to insert still knows what is registered      *)
(* under its id, and a Summary past SchemeIDs what is registered at all.   *)
MInv ==
    /\ DOMAIN arg = Procs /\ DOMAIN ret = Procs
    /\ \A i \in DOMAIN schemes : schemes[i].id = i
    /\ phase = "serve" => won = Registered
    /\ \A p \in Procs : code[p] = <<"insert", "Unlock">> => ret[p] = Found(p)
    /\ \A p \in Procs : code[p] \in Collected \cup Printing => ret[p] = Registered

(* A call that returned holds no lock. *)
LEMMA EmptyCode == <<>> \in Codes /\ ReadLocks(<<>>) = 0 /\ <<>> \notin Draining \cup Writing
  <1>1. <<>> \in Starting
    BY DEF Starting
  <1> QED
    BY <1>1, Disjoint DEF Codes, ReadLocks

(* Both invariants hold at the start. *)
LEMMA InitInv == Init => LInv /\ MInv
  <1> SUFFICES ASSUME Init PROVE LInv /\ MInv
    OBVIOUS
  <1>1. LInv
    BY EmptyCode DEF Init, LInv, At
  <1>2. <<>> \notin Collected \cup Printing /\ <<>> # <<"insert", "Unlock">>
    BY DEF Collected, Printing
  <1>3. MInv
    BY <1>2 DEF Init, MInv
  <1> QED
    BY <1>1, <1>3

(* The locks, step by step. *)
LEMMA PlainLocks ==
    ASSUME LInv, NEW p \in Procs, code[p] # <<>>,
           Head(code[p]) \in MapReads \cup {"check", "insert", "scan"},
           code' = [code EXCEPT ![p] = Tail(@)], UNCHANGED <<lock, phase>>
    PROVE  LInv'
  <1>1. code[p] \in Codes /\ code'[p] = Tail(code[p]) /\ \A q \in Procs \ {p} : code'[q] = code[q]
    BY DEF LInv
  <1>2. /\ code' \in [Procs -> Codes]
        /\ code'[p] \in Draining \cup Writing => code[p] \in Writing
    BY <1>1, CodeStep DEF LInv, MapReads
  <1>3. ReadLocks(code'[p]) = ReadLocks(code[p])
    <2>1. CASE Head(code[p]) \in {"check", "insert"}
      BY <1>1, <2>1, CodeStep, Disjoint DEF ReadLocks
    <2>2. CASE Head(code[p]) \in MapReads \cup {"scan"}
      BY <1>1, <2>2, CodeStep
    <2> QED
      BY <2>1, <2>2
  <1>4. p \notin held
    BY DEF LInv, At, MapReads
  <1> QED
    BY <1>1, <1>2, <1>3, <1>4 DEF LInv, lock, At

(* LInv is kept by Lock, ... *)
LEMMA LockLocks == ASSUME LInv, NEW p \in Procs, Lock(p) PROVE LInv'
  <1>1. /\ code[p] \in Codes /\ code[p] # <<>> /\ Head(code[p]) = "Lock"
        /\ code'[p] = Tail(code[p]) /\ \A q \in Procs \ {p} : code'[q] = code[q]
        /\ pending = NoProc /\ pending' = p
        /\ readers' = readers /\ held' = held /\ phase' = phase
    BY DEF LInv, Lock, At, Proceed, load
  <1>2. code[p] \in Starting /\ code'[p] \in Draining /\ code' \in [Procs -> Codes]
    BY <1>1, CodeStep DEF LInv, Lock, Proceed
  <1>3. \A q \in Procs : code[q] \notin Draining \cup Writing
    BY <1>1, DefsAssumption DEF LInv
  <1>4. ReadLocks(code'[p]) = ReadLocks(code[p]) /\ code'[p] \notin Writing
    BY <1>2, Disjoint DEF ReadLocks
  <1>5. p \notin held
    BY <1>1 DEF LInv, At
  <1>6. phase = "serve"
    BY <1>1 DEF LInv
  <1> QED
    BY <1>1, <1>2, <1>3, <1>4, <1>5, <1>6, ZenonT(30) DEF LInv, At

(* ... by the wait for readers, ... *)
LEMMA DrainLocks == ASSUME LInv, NEW p \in Procs, Drain(p) PROVE LInv'
  <1>1. /\ code[p] \in Codes /\ code[p] # <<>> /\ Head(code[p]) = "Drain"
        /\ code'[p] = Tail(code[p]) /\ \A q \in Procs \ {p} : code'[q] = code[q]
        /\ \A q \in Procs : readers[q] = 0
        /\ pending' = pending /\ readers' = readers /\ held' = held /\ phase' = phase
    BY DEF LInv, Drain, At, Proceed, load
  <1>2. code[p] \in Draining /\ code'[p] \in Writing /\ code' \in [Procs -> Codes]
    BY <1>1, CodeStep DEF LInv, Drain, Proceed
  <1>3. ReadLocks(code'[p]) = ReadLocks(code[p])
    BY <1>2, Disjoint DEF ReadLocks
  <1>4. p \notin held /\ phase = "serve"
    BY <1>1 DEF LInv, At
  <1> QED
    BY <1>1, <1>2, <1>3, <1>4, ZenonT(30) DEF LInv, At

(* ... by Unlock, ... *)
LEMMA UnlockLocks == ASSUME LInv, NEW p \in Procs, Unlock(p) PROVE LInv'
  <1>1. /\ code[p] \in Codes /\ code[p] # <<>> /\ Head(code[p]) = "Unlock"
        /\ held' = {} /\ phase' = phase /\ phase = "serve"
    BY DEF LInv, Unlock, At, load
  <1>2. p \notin held /\ code[p] \in Writing /\ pending = p
    BY <1>1, CodeStep DEF LInv, At
  <1>3. \A q \in Procs \ {p} : code[q] \notin Draining \cup Writing
    BY <1>2 DEF LInv
  <1>4. ASSUME NEW q \in Procs
        PROVE  /\ code'[q] \in Codes /\ code'[q] \notin Draining \cup Writing
               /\ readers'[q] \in Int /\ readers'[q] = ReadLocks(code'[q])
    <2>1. CASE q = p
      <3>1. code'[q] = Tail(code[q]) /\ readers'[q] = readers[q]
        BY <1>2, <2>1 DEF Unlock
      <3>2. code'[q] \in Starting /\ code'[q] \in Codes
        BY <1>1, <2>1, <3>1, CodeStep
      <3>3. ReadLocks(code'[q]) = 0 /\ ReadLocks(code[q]) = 0
        BY <1>2, <2>1, <3>2, Disjoint DEF ReadLocks
      <3> QED
        BY <3>1, <3>2, <3>3, Disjoint DEF LInv
    <2>2. CASE q # p /\ q \in held
      <3>1. code'[q] = Tail(code[q]) /\ readers'[q] = readers[q] + 1
        BY <2>2 DEF Unlock
      <3>2. code[q] \in Codes /\ code[q] # <<>> /\ Head(code[q]) = "RLock"
        BY <2>2 DEF LInv, At
      <3>3. /\ Tail(code[q]) \in Codes /\ Tail(code[q]) \notin Draining \cup Writing
            /\ ReadLocks(Tail(code[q])) = ReadLocks(code[q]) + 1
        BY <3>2, CodeStep
      <3> QED
        BY <3>1, <3>3 DEF LInv
    <2>3. CASE q # p /\ q \notin held
      <3>1. code'[q] = code[q] /\ readers'[q] = readers[q]
        BY <2>3 DEF Unlock
      <3> QED
        BY <1>3, <2>3, <3>1 DEF LInv
    <2> QED
      BY <2>1, <2>2, <2>3
  <1>5. code' \in [Procs -> Codes] /\ readers' \in [Procs -> Int]
    BY <1>4 DEF Unlock
  <1> QED
    BY <1>1, <1>4, <1>5 DEF LInv

(* ... by RLock, ... *)
LEMMA RLockLocks == ASSUME LInv, NEW p \in Procs, RLock(p) PROVE LInv'
  <1>1. /\ code[p] \in Codes /\ code[p] # <<>> /\ Head(code[p]) = "RLock"
        /\ pending' = pending /\ phase' = phase /\ phase = "serve" /\ p \notin held
    BY DEF LInv, RLock, At, Proceed, load
  <1>2. CASE pending = NoProc
    <2>1. /\ code' = [code EXCEPT ![p] = Tail(@)] /\ readers' = [readers EXCEPT ![p] = @ + 1]
          /\ held' = held
      BY <1>2 DEF RLock, Proceed
    <2>2. \A q \in Procs : code[q] \notin Draining \cup Writing
      BY <1>2, DefsAssumption DEF LInv
    <2>3. /\ Tail(code[p]) \in Codes /\ Tail(code[p]) \notin Draining \cup Writing
          /\ ReadLocks(Tail(code[p])) = ReadLocks(code[p]) + 1
      BY <1>1, CodeStep
    <2>4. /\ code' \in [Procs -> Codes] /\ code'[p] = Tail(code[p]) /\ readers'[p] = readers[p] + 1
          /\ readers' \in [Procs -> Int]
          /\ \A q \in Procs \ {p} : code'[q] = code[q] /\ readers'[q] = readers[q]
      BY <2>1, <2>3 DEF LInv
    <2> QED
      BY <1>1, <2>1, <2>2, <2>3, <2>4 DEF LInv, At
  <1>3. CASE pending # NoProc
    BY <1>1, <1>3 DEF LInv, RLock, At
  <1> QED
    BY <1>2, <1>3

(* ... by RUnlock, ... *)
LEMMA RUnlockLocks == ASSUME LInv, NEW p \in Procs, RUnlock(p) PROVE LInv'
  <1>1. /\ code[p] \in Codes /\ code[p] # <<>> /\ Head(code[p]) = "RUnlock"
        /\ code' = [code EXCEPT ![p] = Tail(@)] /\ readers' = [readers EXCEPT ![p] = @ - 1]
        /\ held' = held /\ pending' = pending /\ phase' = phase /\ phase = "serve"
    BY DEF LInv, RUnlock, At, Proceed, load
  <1>2. /\ Tail(code[p]) \in Codes /\ Tail(code[p]) \notin Draining \cup Writing
        /\ ReadLocks(Tail(code[p])) = ReadLocks(code[p]) - 1
    BY <1>1, CodeStep
  <1>3. /\ code' \in [Procs -> Codes] /\ code'[p] = Tail(code[p]) /\ readers'[p] = readers[p] - 1
        /\ readers' \in [Procs -> Int]
        /\ \A q \in Procs \ {p} : code'[q] = code[q] /\ readers'[q] = readers[q]
    BY <1>1, <1>2 DEF LInv
  <1>4. p \notin held
    BY <1>1 DEF LInv, At
  <1>5. \A q \in Procs : code[q] \notin Writing
    <2>1. readers[p] # 0
      BY <1>2 DEF LInv, ReadLocks
    <2> QED
      BY <2>1 DEF LInv
  <1> QED
    BY <1>1, <1>2, <1>3, <1>4, <1>5 DEF LInv, At

(* ... by a call, ... *)
LEMMA CallLocks ==
    ASSUME LInv, NEW p \in Procs, NEW op \in Ops, NEW d \in Defs, Call(p, op, d)
    PROVE  LInv' /\ code'[p] \in Starting
  <1>1. /\ phase = "serve" /\ phase' = phase /\ code[p] = <<>>
        /\ code' = [code EXCEPT ![p] = Program(op)]
        /\ pending' = pending /\ readers' = readers /\ held' = held
    BY DEF Call, load, lock
  <1>2. Program(op) \in Starting
    BY Programs, OpsAssumption
  <1>3. /\ Program(op) \in Codes /\ Program(op) \notin Draining \cup Writing
        /\ ReadLocks(Program(op)) = 0 /\ ReadLocks(<<>>) = 0
    BY <1>2, Disjoint, EmptyCode DEF Codes, ReadLocks
  <1>4. /\ code' \in [Procs -> Codes] /\ code'[p] = Program(op)
        /\ \A q \in Procs \ {p} : code'[q] = code[q]
    BY <1>1, <1>3 DEF LInv
  <1>5. p \notin held
    BY <1>1 DEF LInv, At
  <1> QED
    BY <1>1, <1>2, <1>3, <1>4, <1>5 DEF LInv, At

(* ... and by the loader. *)
LEMMA LoadLocks == ASSUME LInv, LoadFile \/ NewRegistryFromDisk PROVE LInv'
  <1>1. /\ UNCHANGED <<lock, code>> /\ phase = "load"
    BY DEF LoadFile, NewRegistryFromDisk
  <1> QED
    BY <1>1 DEF LInv, lock, At

--------------------------------------------------------------------------------
(* The map, step by step. *)

(* A step that leaves the map alone and tells no goroutine anything false. *)
LEMMA MapKept ==
    ASSUME MInv, UNCHANGED <<schemes, won, phase>>, DOMAIN arg' = Procs, DOMAIN ret' = Procs,
           \A q \in Procs : code'[q] = <<"insert", "Unlock">> =>
              \/ code[q] = <<"insert", "Unlock">> /\ ret'[q] = ret[q] /\ arg'[q] = arg[q]
              \/ ret'[q] = Found(q) /\ arg'[q] = arg[q],
           \A q \in Procs : code'[q] \in Collected \cup Printing =>
              \/ code[q] \in Collected \cup Printing /\ ret'[q] = ret[q]
              \/ ret'[q] = Registered
    PROVE  MInv'
  BY DEF MInv, Found, Registered

(* MInv is kept by steps that leave the map alone, ... *)
LEMMA SkipMap ==
    ASSUME LInv, MInv, NEW p \in Procs, UNCHANGED <<schemes, won, phase, ret>>,
           code[p] # <<>>, Head(code[p]) \in {"Lock", "Drain", "RLock", "RUnlock"}, Proceed(p)
    PROVE  MInv'
  <1>1. /\ code[p] \in Codes /\ code'[p] = Tail(code[p]) /\ DOMAIN arg' = Procs
        /\ \A q \in Procs \ {p} : code'[q] = code[q] /\ arg'[q] = arg[q]
    BY DEF LInv, MInv, Proceed
  <1>2. code'[p] # <<"insert", "Unlock">> /\ code'[p] \notin Collected
    BY <1>1, InsertNext, CodeStep
  <1>3. code'[p] \in Printing => code[p] \in Collected
    BY <1>1, CodeStep
  <1> QED
    BY <1>1, <1>2, <1>3, MapKept, ZenonT(30) DEF MInv

(* ... by Unlock, ... *)
LEMMA UnlockMap == ASSUME LInv, MInv, NEW p \in Procs, Unlock(p) PROVE MInv'
  <1>1. /\ UNCHANGED <<schemes, won, phase, ret>> /\ DOMAIN arg' = Procs
        /\ \A q \in Procs \ {p} : arg'[q] = arg[q]
    BY DEF Unlock, MInv, load
  <1>2. ASSUME NEW q \in Procs, q = p \/ q \in held
        PROVE  code'[q] # <<"insert", "Unlock">> /\ code'[q] \notin Collected \cup Printing
    <2>1. /\ code[q] \in Codes /\ code[q] # <<>> /\ Head(code[q]) \in {"RLock", "Unlock"}
          /\ code'[q] = Tail(code[q])
      BY <1>2 DEF LInv, Unlock, At
    <2>2. code[q] \notin Collected
      BY <2>1, SummaryCode
    <2> QED
      BY <2>1, <2>2, InsertNext, CodeStep
  <1>3. \A q \in Procs : ~(q = p \/ q \in held) => code'[q] = code[q] /\ q # p
    BY DEF Unlock
  <1> QED
    BY <1>1, <1>2, <1>3, MapKept DEF MInv

(* ... by a call, ... *)
LEMMA CallMap ==
    ASSUME LInv, MInv, NEW p \in Procs, NEW op \in Ops, NEW d \in Defs, Call(p, op, d)
    PROVE  MInv'
  <1>1. /\ UNCHANGED <<schemes, won, phase>> /\ DOMAIN arg' = Procs /\ DOMAIN ret' = Procs
        /\ \A q \in Procs \ {p} : code'[q] = code[q] /\ arg'[q] = arg[q] /\ ret'[q] = ret[q]
    BY DEF Call, LInv, MInv, load
  <1>2. code'[p] \in Starting
    BY CallLocks
  <1>3. code'[p] # <<"insert", "Unlock">> /\ code'[p] \notin Collected \cup Printing
    <2>1. <<"insert", "Unlock">> \in Writing
      BY DEF Writing
    <2> QED
      BY <1>2, <2>1, Disjoint
  <1> QED
    BY <1>1, <1>3, MapKept

(* ... by reads of the map, ... *)
LEMMA ReadMap ==
    ASSUME LInv, MInv, NEW p \in Procs, NEW i \in MapReads \cup {"check", "scan"}, NEW value,
           Read(p, i, value), i = "check" => value = Found(p), i = "ids" => value = Registered
    PROVE  LInv' /\ MInv'
  <1>1. /\ code[p] \in Codes /\ code[p] # <<>> /\ Head(code[p]) = i
        /\ code' = [code EXCEPT ![p] = Tail(@)] /\ code'[p] = Tail(code[p])
        /\ UNCHANGED <<lock, phase, schemes, won>>
        /\ DOMAIN arg' = Procs /\ DOMAIN ret' = Procs /\ ret'[p] = value
        /\ \A q \in Procs \ {p} : code'[q] = code[q] /\ arg'[q] = arg[q] /\ ret'[q] = ret[q]
    BY DEF LInv, MInv, Read, At, Proceed, load
  <1>2. LInv'
    BY <1>1, PlainLocks, ZenonT(30)
  <1>3. ASSUME code'[p] = <<"insert", "Unlock">> PROVE ret'[p] = Found(p) /\ arg'[p] = arg[p]
    <2>1. i = "check"
      BY <1>1, <1>3, InsertNext, ZenonT(30)
    <2>2. Len(code[p]) = 3
      BY <1>1, <2>1, CodeStep
    <2>3. arg'[p] = arg[p]
      BY <2>2 DEF Read, Proceed, MInv
    <2> QED
      BY <1>1, <2>1, <2>3
  <1>4. ASSUME code'[p] \in Collected \cup Printing PROVE ret'[p] = Registered
    <2>1. code[p] \notin Collected
      BY <1>1, SummaryCode DEF MapReads
    <2>2. i = "ids"
      BY <1>1, <1>4, <2>1, CodeStep
    <2> QED
      BY <1>1, <2>2
  <1> QED
    BY <1>1, <1>2, <1>3, <1>4, MapKept

(* Storing a definition under a free id adds it to what is registered. *)
LEMMA Stored ==
    ASSUME NEW d, \A i \in DOMAIN schemes : schemes[i].id = i, schemes' = Store(d)
    PROVE  /\ \A i \in DOMAIN schemes' : schemes'[i].id = i
           /\ d.id \notin DOMAIN schemes => Registered' = Registered \cup {d}
  <1>1. /\ DOMAIN schemes' = {d.id} \cup DOMAIN schemes
        /\ schemes'[d.id] = d
        /\ \A i \in DOMAIN schemes \ {d.id} : schemes'[i] = schemes[i]
    BY DEF Store
  <1> QED
    BY <1>1 DEF Registered

(* ... by an insertion, ... *)
LEMMA InsertMap == ASSUME LInv, MInv, NEW p \in Procs, Insert(p) PROVE LInv' /\ MInv'
  <1>1. /\ code[p] \in Codes /\ code[p] # <<>> /\ Head(code[p]) = "insert"
        /\ code' = [code EXCEPT ![p] = Tail(@)] /\ code'[p] = Tail(code[p])
        /\ UNCHANGED <<lock, phase, ret>> /\ DOMAIN arg' = Procs
        /\ \A q \in Procs \ {p} : code'[q] = code[q] /\ arg'[q] = arg[q]
    BY DEF LInv, MInv, Insert, At, Proceed, load
  <1>2. LInv'
    BY <1>1, PlainLocks, ZenonT(30)
  <1>3. code[p] \in Writing /\ code'[p] \in Writing /\ code[p] = <<"insert", "Unlock">>
    <2>1. code[p] \in Writing /\ code'[p] \in Writing
      BY <1>1, CodeStep
    <2>2. <<"check", "insert", "Unlock">> # code[p] /\ <<"Unlock">> # code[p]
      BY <1>1
    <2> QED
      BY <2>1, <2>2 DEF Writing
  <1>4. ASSUME NEW q \in Procs
        PROVE  code'[q] \notin Collected \cup Printing /\ code'[q] # <<"insert", "Unlock">>
    <2>1. CASE q = p
      <3>1. Head(code'[p]) # "insert"
        BY <1>1, <1>3
      <3> QED
        BY <1>3, <2>1, <3>1, Disjoint
    <2>2. CASE q # p
      <3>1. ReadLocks(code[q]) = 0
        BY <1>3 DEF LInv
      <3>2. code[q] \notin Writing
        BY <1>3, <2>2 DEF LInv
      <3> QED
        BY <1>1, <1>3, <2>2, <3>1, <3>2 DEF ReadLocks
    <2> QED
      BY <2>1, <2>2
  <1>5. phase = "serve"
    BY <1>1 DEF LInv
  <1>6. CASE ret[p] # {}
    <2>1. UNCHANGED <<schemes, won>>
      BY <1>6 DEF Insert
    <2>2. DOMAIN ret' = Procs
      BY <1>1 DEF MInv
    <2> QED
      BY <1>1, <1>2, <1>4, <2>1, <2>2, MapKept
  <1>7. CASE ret[p] = {}
    <2>1. schemes' = Store(arg[p]) /\ won' = won \cup {arg[p]}
      BY <1>7 DEF Insert
    <2>2. arg[p].id \notin DOMAIN schemes
      BY <1>3, <1>7 DEF MInv, Found
    <2>3. (\A i \in DOMAIN schemes' : schemes'[i].id = i) /\ Registered' = Registered \cup {arg[p]}
      BY <2>1, <2>2, Stored DEF MInv
    <2> QED
      BY <1>1, <1>2, <1>4, <1>5, <2>1, <2>3 DEF MInv
  <1> QED
    BY <1>2, <1>6, <1>7

(* ... and by the loader. *)
LEMMA LoadMap == ASSUME LInv, MInv, LoadFile \/ NewRegistryFromDisk PROVE MInv'
  <1>1. /\ UNCHANGED <<code, arg, ret>> /\ phase = "load"
        /\ \A p \in Procs : code[p] = <<>>
    BY DEF LoadFile, NewRegistryFromDisk, LInv
  <1>2. <<>> \notin Collected \cup Printing /\ <<>> # <<"insert", "Unlock">>
    BY DEF Collected, Printing
  <1>3. CASE LoadFile
    <2>1. \A i \in DOMAIN schemes' : schemes'[i].id = i
      BY <1>3, Stored DEF LoadFile, MInv
    <2>2. phase' # "serve"
      BY <1>1, <1>3 DEF LoadFile
    <2> QED
      BY <1>1, <1>2, <2>1, <2>2 DEF MInv
  <1>4. CASE NewRegistryFromDisk
    <2>1. schemes' = schemes /\ won' = Registered
      BY <1>4 DEF NewRegistryFromDisk
    <2> QED
      BY <1>1, <1>2, <2>1 DEF MInv, Registered
  <1> QED
    BY <1>3, <1>4

(* A step of a goroutine keeps both invariants, ... *)
LEMMA StepInv == ASSUME LInv, MInv, NEW p \in Procs, Step(p) PROVE LInv' /\ MInv'
  <1>1. CASE Lock(p)
    BY <1>1, LockLocks, SkipMap, ZenonT(30) DEF Lock, At, Proceed, load
  <1>2. CASE Drain(p)
    BY <1>2, DrainLocks, SkipMap, ZenonT(30) DEF Drain, At, Proceed, load
  <1>3. CASE Unlock(p)
    BY <1>3, UnlockLocks, UnlockMap
  <1>4. CASE RLock(p)
    <2>1. LInv'
      BY <1>4, RLockLocks
    <2>2. CASE pending = NoProc
      BY <1>4, <2>1, <2>2, SkipMap DEF RLock, At, Proceed, load
    <2>3. CASE pending # NoProc
      BY <1>4, <2>1, <2>3 DEF RLock, load, MInv, Found, Registered
    <2> QED
      BY <2>2, <2>3
  <1>5. CASE RUnlock(p)
    BY <1>5, RUnlockLocks, SkipMap, ZenonT(30) DEF RUnlock, At, Proceed, load
  <1>6. CASE Insert(p)
    BY <1>6, InsertMap
  <1>7. CASE Check(p) \/ SchemeIDs(p)
    BY <1>7, ReadMap DEF Check, SchemeIDs, MapReads
  <1>8. CASE Get(p) \/ Has(p) \/ HasCapability(p) \/ Scan(p) \/ Render(p)
    BY <1>8, ReadMap DEF Get, Has, HasCapability, Scan, Render, MapReads
  <1> QED
    BY <1>1, <1>2, <1>3, <1>4, <1>5, <1>6, <1>7, <1>8 DEF Step

(* ... and so does every step. *)
LEMMA NextInv == LInv /\ MInv /\ [Next]_vars => (LInv /\ MInv)'
  <1> SUFFICES ASSUME LInv, MInv, [Next]_vars PROVE LInv' /\ MInv'
    OBVIOUS
  <1>1. CASE UNCHANGED vars
    BY <1>1 DEF vars, load, lock, LInv, MInv, At, Found, Registered
  <1>2. CASE LoadFile \/ NewRegistryFromDisk
    BY <1>2, LoadLocks, LoadMap
  <1>3. ASSUME NEW p \in Procs, NEW op \in Ops, NEW d \in Defs, Call(p, op, d) PROVE LInv' /\ MInv'
    BY <1>3, CallLocks, CallMap
  <1>4. ASSUME NEW p \in Procs, Step(p) PROVE LInv' /\ MInv'
    BY <1>4, StepInv
  <1> QED
    BY <1>1, <1>2, <1>3, <1>4 DEF Next

--------------------------------------------------------------------------------
(* The invariant holds whatever goroutines call the registry's methods.    *)
THEOREM RegistryInvariant == SafetySpec => [](LInv /\ MInv)
  BY InitInv, NextInv, PTL DEF SafetySpec

(* Register returns nil for exactly one definition of an id, and that one  *)
(* is in the map, for any number of goroutines and any directory.          *)
THEOREM OneWinner == SafetySpec => []OneWinnerPerScheme
  <1>1. LInv /\ MInv => OneWinnerPerScheme
    BY DEF MInv, OneWinnerPerScheme
  <1> QED
    BY <1>1, RegistryInvariant, PTL

(* No goroutine touches Registry.schemes while another one writes it.      *)
THEOREM ExclusiveWrites == SafetySpec => []MapWritesAreExclusive
  <1>1. LInv /\ MInv => MapWritesAreExclusive
    <2> SUFFICES ASSUME LInv, NEW p \in Procs, NEW q \in Procs, p # q, At(p, "insert"),
                        NEW i \in MapReads \cup {"check", "insert"}, At(q, i)
                 PROVE  FALSE
      BY DEF MapWritesAreExclusive, MapReads
    <2>1. /\ code[p] \in Codes /\ code[p] # <<>> /\ Head(code[p]) = "insert"
          /\ code[q] \in Codes /\ code[q] # <<>> /\ Head(code[q]) = i
      BY DEF LInv, At
    <2>2. code[p] \in Writing
      BY <2>1, CodeStep
    <2>3. CASE i \in {"check", "insert"}
      <3>1. code[q] \in Writing
        BY <2>1, <2>3, CodeStep
      <3> QED
        BY <2>2, <3>1 DEF LInv
    <2>4. CASE i \in MapReads
      <3>1. ReadLocks(code[q]) # 0
        BY <2>1, <2>4, CodeStep
      <3> QED
        BY <2>2, <3>1 DEF LInv
    <2> QED
      BY <2>3, <2>4
  <1> QED
    BY <1>1, RegistryInvariant, PTL

(* What Summary renders is one state of the registry: the ids it collected *)
(* are the registered ones, however many Registers wait meanwhile.         *)
THEOREM SummarySnapshot == SafetySpec => []SummaryIsSnapshot
  <1>1. LInv /\ MInv => SummaryIsSnapshot
    <2> SUFFICES ASSUME LInv, MInv, NEW p \in Procs, At(p, "render") PROVE ret[p] = Registered
      BY DEF SummaryIsSnapshot
    <2>1. code[p] \in Codes /\ code[p] # <<>> /\ Head(code[p]) = "render"
      BY DEF LInv, At
    <2>2. code[p] \in Printing
      BY <2>1, WritingCode, DrainingCode, StartingCode, LockedCode, SummaryCode DEF Codes
    <2> QED
      BY <2>2 DEF MInv
  <1> QED
    BY <1>1, RegistryInvariant, PTL
================================================================================
