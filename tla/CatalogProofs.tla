----------------------------- MODULE CatalogProofs -----------------------------
(***************************************************************************)
(* The accepted state of a catalog, for every pool of artifacts.           *)
(*                                                                         *)
(* First what advance does to it.  Then its three users: the state file of *)
(* verify-catalog and apply-catalog-delta, for any number of processes,    *)
(* and for one process at a time that the file never rolls back; the       *)
(* consumer of a directory exchange; and a registry that any number of     *)
(* callers verify and accept for, with any rotation profile.               *)
(*                                                                         *)
(* The directory exchange is that of any publisher that serves one bundle  *)
(* per generation, any policy and roots, and any interleaving of its       *)
(* releases with the four GETs, the cache and the time: a torn, stale or   *)
(* replayed bundle never leads the consumer off the published line.  The   *)
(* parts of a bundle are tracked one by one: each is of some generation    *)
(* released so far, and that is all that is known of them.                 *)
(***************************************************************************)
EXTENDS CatalogRegistry, CatalogCLI, DirectoryExchange, TLAPS

(* The time limits of the provers, in seconds: Zenon is tried, then SMT. *)
USE ZenonT(10), SMTT(30)

--------------------------------------------------------------------------------
(* The accepted state. *)

(* digestAt reads a chain: nothing is recorded beyond the head. *)
LEMMA NothingBeyondHead ==
    ASSUME NEW s, StateType(s), IsChain(s), NEW g \in Int, g > s.generation
    PROVE  DigestAt(s, g) = NoDigest
  <1>1. \A r \in s.history : r.generation # g
    BY DEF StateType, IsChain, EachGenerationOnce
  <1> QED
    BY <1>1 DEF DigestAt, StateType

(* advance appends one record, of the next generation, whose catalog names *)
(* the old head as its predecessor, or leaves the state alone.             *)
LEMMA AdvanceAppends ==
    ASSUME NEW s, StateType(s), IsChain(s), NEW d \in Digest, CanAdvance(d, s),
           CatalogOf[d].generation # s.generation
    PROVE  LET t == Advance(d, s) IN
           /\ t.generation = s.generation + 1
           /\ t.generation = CatalogOf[d].generation
           /\ t.digest = d
           /\ CatalogOf[d].previousDigest = s.digest
           /\ t.history = s.history \cup {[generation |-> t.generation, digest |-> d]}
           /\ t.domain = CatalogOf[d].domain
           /\ t.catalogID = CatalogOf[d].catalogID
           /\ t.producer = CatalogOf[d].producer
           /\ SameIdentity(s, CatalogOf[d])
  <1> DEFINE c == CatalogOf[d]
             t == Advance(d, s)
             new == {[generation |-> c.generation, digest |-> d]}
             head == {r \in {[generation |-> s.generation, digest |-> s.digest]} : r.generation # 0}
  <1>1. /\ t = [domain |-> c.domain, catalogID |-> c.catalogID, producer |-> c.producer,
                generation |-> c.generation, digest |-> d,
                history |-> Merge(Merge(new, s.history), head)]
    BY DEF Advance
  <1>2. c.generation \in Int
    BY CatalogAssumption
  <1>fields. /\ t.generation = c.generation /\ t.digest = d
             /\ t.domain = c.domain /\ t.catalogID = c.catalogID /\ t.producer = c.producer
             /\ t.history = Merge(Merge(new, s.history), head)
    BY <1>1
  <1>same. SameIdentity(s, c)
    BY DEF CanAdvance
  <1>3. CASE s.generation = 0
    <2>1. c.generation = 1
      BY <1>3, <1>2 DEF CanAdvance, StateType
    <2>2. s.history = {} /\ s.digest = NoDigest
      BY <1>3 DEF IsChain, HeadRecorded, EmptyState
    <2>3. head = {}
      BY <1>3
    <2>4. Merge(Merge(new, s.history), head) = new
      BY <2>2, <2>3 DEF Merge
    <2>5. c.previousDigest = NoDigest
      BY <2>1, <1>2 DEF CanAdvance, Validate
    <2>6. s.history \cup new = new
      BY <2>2
    <2>7. t.history = s.history \cup new
      BY <1>fields, <2>4, <2>6
    <2>8. c.generation = s.generation + 1 /\ c.previousDigest = s.digest
      BY <1>3, <2>1, <2>2, <2>5
    <2> QED
      BY <1>fields, <1>same, <2>7, <2>8
  <1>4. CASE s.generation # 0
    <2>1. c.generation = s.generation + 1 /\ c.previousDigest = s.digest
      BY <1>4 DEF CanAdvance
    <2>2. \A r \in s.history : r.generation # c.generation
      BY <2>1 DEF IsChain, EachGenerationOnce, StateType
    <2>3. Merge(new, s.history) = new \cup s.history
      BY <2>2 DEF Merge
    <2>4. head \subseteq s.history
      BY <1>4 DEF IsChain, HeadRecorded
    <2>5. Merge(new \cup s.history, head) = new \cup s.history
      BY <2>4 DEF Merge
    <2>6. t.history = s.history \cup new
      BY <1>fields, <2>3, <2>5, ZenonT(30)
    <2> QED
      BY <1>fields, <1>same, <2>1, <2>6
  <1> QED
    BY <1>3, <1>4

(* The state advance returns is again a chain, and continues the old one:  *)
(* whatever catalog advance is given, nothing recorded is lost or changed. *)
THEOREM AdvancePreservesChain ==
    ASSUME NEW s, StateType(s), IsChain(s), NEW d \in Digest, CanAdvance(d, s)
    PROVE  LET t == Advance(d, s) IN StateType(t) /\ IsChain(t) /\ Continues(t, s)
  <1> DEFINE c == CatalogOf[d]
             t == Advance(d, s)
             new == [generation |-> t.generation, digest |-> d]
  <1>1. CASE c.generation = s.generation
    <2>1. t = s
      BY <1>1 DEF Advance
    <2>2. Continues(s, s)
      BY DEF Continues, StateType
    <2> QED
      BY <2>1, <2>2
  <1>2. CASE c.generation # s.generation
    <2>1. /\ t.generation = s.generation + 1
          /\ t.generation = c.generation
          /\ t.digest = d
          /\ c.previousDigest = s.digest
          /\ t.history = s.history \cup {new}
          /\ t.domain = c.domain /\ t.catalogID = c.catalogID /\ t.producer = c.producer
          /\ SameIdentity(s, c)
      BY <1>2, AdvanceAppends
    <2> HIDE DEF t
    <2>2. t.generation \in Nat /\ s.generation \in Nat
      BY <2>1 DEF StateType
    <2>3. new \in Records /\ new.generation = t.generation /\ new.digest = d
      BY <2>2 DEF Records
    <2> HIDE DEF new
    <2>4. StateType(t)
      BY <2>1, <2>2, <2>3 DEF StateType
    <2>5. \A r \in s.history : r.generation \in 1 .. s.generation
      BY DEF IsChain, EachGenerationOnce
    <2>6. EachGenerationOnce(t)
      <3>1. \A r \in t.history : r.generation \in 1 .. t.generation
        BY <2>1, <2>2, <2>3, <2>5
      <3>2. ASSUME NEW g \in 1 .. t.generation
            PROVE  \E r \in t.history : r.generation = g
        <4>1. CASE g = t.generation
          BY <4>1, <2>1, <2>3
        <4>2. CASE g # t.generation
          <5>1. g \in 1 .. s.generation
            BY <4>2, <2>1, <2>2
          <5> QED
            BY <5>1, <2>1 DEF IsChain, EachGenerationOnce
        <4> QED
          BY <4>1, <4>2
      <3>3. ASSUME NEW r \in t.history, NEW q \in t.history, r.generation = q.generation
            PROVE  r = q
        <4>1. CASE r = new /\ q = new
          BY <4>1
        <4>2. CASE r \in s.history /\ q \in s.history
          BY <4>2, <3>3 DEF IsChain, EachGenerationOnce
        <4>3. CASE (r = new /\ q \in s.history) \/ (q = new /\ r \in s.history)
          BY <4>3, <3>3, <2>1, <2>2, <2>3, <2>5
        <4> QED
          BY <4>1, <4>2, <4>3, <2>1
      <3> QED
        BY <3>1, <3>2, <3>3 DEF EachGenerationOnce
    <2>7. Linked(t)
      <3> SUFFICES ASSUME NEW r \in t.history, NEW q \in t.history,
                          q.generation = r.generation + 1
                   PROVE  CatalogOf[q.digest].previousDigest = r.digest
        BY DEF Linked
      <3>1. CASE q \in s.history /\ r \in s.history
        BY <3>1 DEF IsChain, Linked
      <3>2. CASE q \in s.history /\ r = new
        BY <3>2, <2>1, <2>2, <2>3, <2>5
      <3>3. CASE q = new /\ r = new
        BY <3>3, <2>2, <2>3
      <3>4. CASE q = new /\ r \in s.history
        <4>1. r.generation = s.generation /\ s.generation # 0
          BY <3>4, <2>1, <2>2, <2>3, <2>5
        <4>2. r.digest = s.digest
          <5> DEFINE head == [generation |-> s.generation, digest |-> s.digest]
          <5>1. head \in s.history
            BY <4>1 DEF IsChain, HeadRecorded
          <5>2. r = head
            BY <5>1, <4>1, <3>4 DEF IsChain, EachGenerationOnce
          <5> QED
            BY <5>2
        <4> QED
          BY <3>4, <4>2, <2>1, <2>3
      <3> QED
        BY <3>1, <3>2, <3>3, <3>4, <2>1
    <2>8. OfOneIdentity(t)
      <3> SUFFICES ASSUME NEW r \in t.history
                   PROVE  /\ CatalogOf[r.digest].generation = r.generation
                          /\ CatalogOf[r.digest].domain = t.domain
                          /\ CatalogOf[r.digest].catalogID = t.catalogID
                          /\ CatalogOf[r.digest].producer = t.producer
        BY DEF OfOneIdentity
      <3>1. CASE r = new
        BY <3>1, <2>1, <2>3
      <3>2. CASE r \in s.history
        <4>1. /\ CatalogOf[r.digest].generation = r.generation
              /\ CatalogOf[r.digest].domain = s.domain
              /\ CatalogOf[r.digest].catalogID = s.catalogID
              /\ CatalogOf[r.digest].producer = s.producer
          BY <3>2 DEF IsChain, OfOneIdentity
        <4>2. r.digest \in Digest
          BY <3>2 DEF StateType, Records
        <4> QED
          BY <4>1, <4>2, <2>1, NamedAssumption DEF SameIdentity
      <3> QED
        BY <3>1, <3>2, <2>1
    <2>9. HeadRecorded(t)
      BY <2>1, <2>2, <2>3 DEF HeadRecorded, new
    <2>10. Continues(t, s)
      BY <2>1, <2>2 DEF Continues
    <2> QED
      BY <2>4, <2>6, <2>7, <2>8, <2>9, <2>10 DEF IsChain, t
  <1> QED
    BY <1>1, <1>2
(* checkGeneration and advance are two implementations of the same rules:  *)
(* a catalog that decide accepts against a chain can always be advanced to.*)
THEOREM DecideImpliesCanAdvance ==
    ASSUME NEW s, StateType(s), IsChain(s), NEW d \in Digest, NEW k, NEW roots, NEW p,
           Decide(d, k, roots, p, s)
    PROVE  CanAdvance(d, s)
  <1>1. Validate(CatalogOf[d]) /\ CheckGeneration(d, s)
    BY DEF Decide, AcceptableSource
  <1>2. s.generation = 0 => s.history = {} /\ s.digest = NoDigest
    BY DEF IsChain, HeadRecorded, EmptyState
  <1> QED
    BY <1>1, <1>2 DEF CheckGeneration, CanAdvance

(* Whatever the state, the catalog of a delta that VerifySignedDelta       *)
(* accepts passes all checks of the snapshot path but the generation's.    *)
LEMMA DeltaTargetAcceptable ==
    ASSUME NEW x \in DeltaName, NEW b \in Digest, NEW k, NEW roots, NEW p,
           DecideDelta(x, b, k, roots, p)
    PROVE  LET n == DeltaOf[x].targetDigest IN
           /\ n \in Digest
           /\ AcceptableSource(n, k, roots, p)
           /\ AcceptableContent(n, k, p)
           /\ CatalogOf[n].domain = CatalogOf[b].domain
           /\ CatalogOf[n].catalogID = CatalogOf[b].catalogID
           /\ CatalogOf[n].producer = CatalogOf[b].producer
           /\ CatalogOf[n].generation = CatalogOf[b].generation + 1
           /\ CatalogOf[n].previousDigest = b
  <1> DEFINE delta == DeltaOf[x]
             old == CatalogOf[b]
             n == delta.targetDigest
             next == CatalogOf[n]
  <1>1. /\ ValidatePolicy(p)
        /\ delta.domain = old.domain /\ delta.catalogID = old.catalogID
        /\ delta.domain = p.domain /\ delta.catalogID = p.catalogID
        /\ delta.producer = old.producer
        /\ p.producer \in {NoName, delta.producer}
        /\ VerifySigner(delta.producer, k, roots, p.observedAt)
        /\ Applies(b, delta)
        /\ CheckDeclarationPins(EntriesOf(next), p)
        /\ CheckProviderBindings(next, p)
        /\ CheckFreshness(next, p) /\ CheckStatus(next, p)
        /\ CheckAuthority(EntriesOf(next), k)
    BY DEF DecideDelta
  <1>2. /\ n \in Digest
        /\ Validate(next)
        /\ next.domain = old.domain /\ next.catalogID = old.catalogID
        /\ next.producer = old.producer
        /\ next.generation = delta.targetGeneration /\ next.previousDigest = b
        /\ delta.targetGeneration = delta.baseGeneration + 1
        /\ delta.baseGeneration = old.generation
    BY <1>1, ZenonT(30) DEF Applies, IsAppliedTo, ValidateDelta
  <1> HIDE DEF next, old, delta, n
  <1>3. AcceptableSource(n, k, roots, p)
    BY <1>1, <1>2, ZenonT(30) DEF AcceptableSource, next
  <1>4. AcceptableContent(n, k, p)
    BY <1>1 DEF AcceptableContent, next
  <1> QED
    BY <1>2, <1>3, <1>4 DEF next, old, delta, n

(* A delta that VerifySignedDeltaWithState accepts produces a catalog that *)
(* VerifySigned would accept from the same signer: the delta path skips no *)
(* check of the snapshot path, entries it does not touch included.         *)
THEOREM DeltaImpliesSnapshot ==
    ASSUME NEW s, StateType(s), IsChain(s),
           NEW x \in DeltaName, NEW b \in Digest, NEW k, NEW roots, NEW p,
           DecideDeltaWithState(x, b, k, roots, p, s)
    PROVE  Decide(DeltaOf[x].targetDigest, k, roots, p, s)
  <1> DEFINE n == DeltaOf[x].targetDigest
             old == CatalogOf[b]
             next == CatalogOf[n]
  <1>1. /\ s.generation # 0 /\ s.generation = old.generation /\ s.digest = b
        /\ DecideDelta(x, b, k, roots, p)
    BY DEF DecideDeltaWithState
  <1>2. /\ n \in Digest
        /\ AcceptableSource(n, k, roots, p) /\ AcceptableContent(n, k, p)
        /\ next.domain = old.domain /\ next.catalogID = old.catalogID
        /\ next.producer = old.producer
        /\ next.generation = s.generation + 1 /\ next.previousDigest = s.digest
    BY <1>1, DeltaTargetAcceptable
  <1> HIDE DEF n, old, next
  <1>3. DigestAt(s, next.generation) = NoDigest
    BY <1>2, NothingBeyondHead DEF StateType
  <1>4. SameIdentity(s, next)
    <2> DEFINE head == [generation |-> s.generation, digest |-> s.digest]
    <2>1. head \in s.history
      BY <1>1 DEF IsChain, HeadRecorded
    <2>2. old.domain = s.domain /\ old.catalogID = s.catalogID /\ old.producer = s.producer
      BY <2>1, <1>1 DEF IsChain, OfOneIdentity, old
    <2> QED
      BY <2>2, <1>2 DEF SameIdentity
  <1>5. CheckGeneration(n, s)
    BY <1>1, <1>2, <1>3, <1>4 DEF CheckGeneration, next
  <1> QED
    BY <1>2, <1>5 DEF Decide, n

--------------------------------------------------------------------------------
(* The command line and the directory exchange. *)

JobsAreChains == \A p \in Procs : pc[p] # "idle" => IsChain(job[p].state)

(* The inductive invariant for any number of processes. *)
CInv ==
    /\ TypeOK
    /\ job = [p \in Procs |-> job[p]]
    /\ StateFileIsChain
    /\ JobsAreChains
    /\ \A p \in Procs : pc[p] = "delta" =>
          job[p].delta \in DeltaName /\ job[p].base \in Digest
                                     /\ job[p].target = DeltaOf[job[p].delta].targetDigest

(* A state that has recorded nothing is a chain. *)
LEMMA EmptyIsChain == StateType(EmptyState) /\ IsChain(EmptyState)
  <1> DEFINE s == EmptyState
  <1>1. s.generation = 0 /\ s.digest = NoDigest /\ s.history = {}
    BY DEF EmptyState
  <1>2. HeadRecorded(s)
    BY <1>1 DEF HeadRecorded
  <1> HIDE DEF s
  <1>3. StateType(s)
    BY <1>1 DEF StateType
  <1>4. EachGenerationOnce(s)
    BY <1>1 DEF EachGenerationOnce
  <1>5. Linked(s) /\ OfOneIdentity(s)
    BY <1>1 DEF Linked, OfOneIdentity
  <1> QED
    BY <1>2, <1>3, <1>4, <1>5 DEF IsChain, s

(* The invariant of the commands holds at the start, ... *)
LEMMA InitCInv == Init => CInv
  <1> SUFFICES ASSUME Init PROVE CInv
    OBVIOUS
  <1>1. StateType(stateFile) /\ IsChain(stateFile)
    BY EmptyIsChain DEF Init
  <1> QED
    BY <1>1 DEF Init, CInv, TypeOK, StateFileIsChain, JobsAreChains

(* A process moves to another step and leaves the files alone. *)
LEMMA MoveStep ==
    ASSUME CInv, NEW p \in Procs, NEW step, UNCHANGED <<stateFile, completed>>,
           pc' = [pc EXCEPT ![p] = step], UNCHANGED job,
           step \in {"accept", "out", "state"}, pc[p] # "idle", job[p].target \in Digest,
           outFile' \in Digest \cup {NoDigest}, announced' \subseteq Digest
    PROVE  CInv'
  <1>1. /\ pc' \in [Procs -> {"idle", "verify", "accept", "delta", "out", "state"}]
        /\ \A q \in Procs : pc'[q] = IF q = p THEN step ELSE pc[q]
    BY DEF CInv, TypeOK
  <1>2. TypeOK'
    BY <1>1 DEF CInv, TypeOK, StateType
  <1>3. StateFileIsChain' /\ JobsAreChains'
    BY <1>1 DEF CInv, StateFileIsChain, JobsAreChains
  <1> QED
    BY <1>1, <1>2, <1>3 DEF CInv

(* A process starts or ends: its state, if any, is a chain. *)
LEMMA BeginStep ==
    ASSUME CInv, NEW p \in Procs, NEW step, NEW args, Begin(p, step, args),
           step \in {"idle", "verify", "delta"},
           step # "idle" => StateType(args.state) /\ IsChain(args.state),
           step = "verify" => args.target \in Digest,
           step = "delta" => args.delta \in DeltaName /\ args.base \in Digest
                             /\ args.target = DeltaOf[args.delta].targetDigest,
           StateType(stateFile'), IsChain(stateFile'), completed' \subseteq Digest,
           outFile' \in Digest \cup {NoDigest}, announced' \subseteq Digest
    PROVE  CInv'
  <1>1. /\ pc' \in [Procs -> {"idle", "verify", "accept", "delta", "out", "state"}]
        /\ \A q \in Procs : pc'[q] = IF q = p THEN step ELSE pc[q]
    BY DEF CInv, TypeOK, Begin
  <1>2. /\ job' = [q \in Procs |-> job'[q]]
        /\ \A q \in Procs : job'[q] = IF q = p THEN args ELSE job[q]
    BY DEF CInv, Begin
  <1>3. \A q \in Procs : /\ pc'[q] # "idle" => StateType(job'[q].state)
                         /\ pc'[q] \notin {"idle", "delta"} => job'[q].target \in Digest
    BY <1>1, <1>2 DEF CInv, TypeOK
  <1>4. TypeOK'
    BY <1>1, <1>3 DEF TypeOK, StateType
  <1>5. StateFileIsChain' /\ JobsAreChains'
    BY <1>1, <1>2 DEF CInv, StateFileIsChain, JobsAreChains
  <1> QED
    BY <1>1, <1>2, <1>4, <1>5 DEF CInv

(* ... every step of a process keeps it, ... *)
LEMMA StepCInv ==
    ASSUME CInv, NEW p \in Procs, Step(p)
    PROVE  CInv'
  <1>file. /\ StateType(stateFile) /\ IsChain(stateFile) /\ completed \subseteq Digest
           /\ outFile \in Digest \cup {NoDigest} /\ announced \subseteq Digest
    BY DEF CInv, TypeOK, StateFileIsChain
  <1>job. pc[p] # "idle" => StateType(job[p].state) /\ IsChain(job[p].state)
    BY DEF CInv, TypeOK, JobsAreChains
  <1>1. ASSUME NEW d \in Digest, NEW k \in CertName, NEW w \in BOOLEAN, StartVerify(p, d, k, w)
        PROVE  CInv'
    <2> DEFINE args == [target |-> d, signer |-> k, stateOut |-> w, state |-> stateFile]
    <2>1. Begin(p, "verify", args) /\ UNCHANGED <<stateFile, outFile, announced, completed>>
      BY <1>1 DEF StartVerify
    <2>2. args.state = stateFile /\ args.target = d
      OBVIOUS
    <2> HIDE DEF args
    <2> QED
      BY <2>1, <2>2, <1>file, BeginStep
  <1>2. CASE VerifyDecide(p)
    <2>1. pc[p] = "verify" /\ job[p].target \in Digest
      BY <1>2 DEF VerifyDecide, CInv, TypeOK
    <2>2. announced' \subseteq Digest /\ UNCHANGED <<stateFile, outFile, completed>>
      BY <1>2, <2>1, <1>file DEF VerifyDecide
    <2>3. CASE Goto(p, "accept")
      BY <2>1, <2>2, <2>3, <1>file, MoveStep, ZenonT(30) DEF Goto
    <2>4. CASE Exit(p)
      BY <2>2, <2>4, <1>file, BeginStep DEF Exit
    <2> QED
      BY <1>2, <2>3, <2>4 DEF VerifyDecide
  <1>3. CASE VerifyWrite(p)
    <2>1. job[p].target \in Digest /\ StateType(job[p].state) /\ IsChain(job[p].state)
      BY <1>3, <1>job DEF VerifyWrite, CInv, TypeOK
    <2>2. \/ UNCHANGED <<stateFile, completed>>
          \/ /\ stateFile' = Advance(job[p].target, job[p].state)
             /\ CanAdvance(job[p].target, job[p].state)
             /\ completed' = completed \cup {job[p].target}
      BY <1>3 DEF VerifyWrite, Accepts
    <2>3. StateType(stateFile') /\ IsChain(stateFile') /\ completed' \subseteq Digest
      BY <2>1, <2>2, <1>file, AdvancePreservesChain
    <2> QED
      BY <1>3, <2>3, <1>file, BeginStep DEF VerifyWrite, Exit
  <1>4. ASSUME NEW x \in DeltaName, NEW b \in Digest, NEW k \in CertName, NEW o \in BOOLEAN,
               NEW w \in BOOLEAN, NEW f \in BOOLEAN, StartDelta(p, x, b, k, o, w, f)
        PROVE  CInv'
    <2> DEFINE args == [delta |-> x, base |-> b, signer |-> k,
                        target |-> DeltaOf[x].targetDigest, out |-> o, stateOut |-> w,
                        force |-> f, state |-> stateFile]
    <2>1. Begin(p, "delta", args) /\ UNCHANGED <<stateFile, outFile, announced, completed>>
      BY <1>4 DEF StartDelta
    <2>2. /\ args.state = stateFile /\ args.delta = x /\ args.base = b
          /\ args.target = DeltaOf[x].targetDigest
      OBVIOUS
    <2> HIDE DEF args
    <2> QED
      BY <2>1, <2>2, <1>file, BeginStep
  <1>5. CASE DeltaDecide(p)
    <2>1. pc[p] = "delta" /\ UNCHANGED <<stateFile, outFile, announced, completed>>
      BY <1>5 DEF DeltaDecide
    <2>2. ASSUME DecideDeltaWithState(job[p].delta, job[p].base, job[p].signer, Roots, Policy,
                                      job[p].state)
          PROVE  job[p].target \in Digest
      BY <2>1, <2>2, DeltaTargetAcceptable DEF CInv, DecideDeltaWithState
    <2>3. CASE Goto(p, "out") /\ job[p].target \in Digest
      BY <2>1, <2>3, <1>file, MoveStep, ZenonT(30) DEF Goto
    <2>4. CASE Exit(p)
      BY <2>1, <2>4, <1>file, BeginStep DEF Exit
    <2> QED
      BY <1>5, <2>2, <2>3, <2>4 DEF DeltaDecide
  <1>6. CASE DeltaWriteOut(p)
    <2>1. /\ pc[p] = "out" /\ job[p].target \in Digest
          /\ UNCHANGED <<stateFile, announced, completed>>
          /\ outFile' \in Digest \cup {NoDigest}
      BY <1>6, <1>file DEF DeltaWriteOut, CInv, TypeOK
    <2>2. CASE Goto(p, "state")
      BY <2>1, <2>2, <1>file, MoveStep, ZenonT(30) DEF Goto
    <2>3. CASE Exit(p)
      BY <2>1, <2>3, <1>file, BeginStep DEF Exit
    <2> QED
      BY <1>6, <2>2, <2>3 DEF DeltaWriteOut
  <1>7. CASE DeltaWriteState(p)
    <2>1. job[p].target \in Digest /\ StateType(job[p].state) /\ IsChain(job[p].state)
      BY <1>7, <1>job DEF DeltaWriteState, CInv, TypeOK
    <2>2. \/ UNCHANGED <<stateFile, completed>>
          \/ /\ stateFile' = Advance(job[p].target, job[p].state)
             /\ CanAdvance(job[p].target, job[p].state)
             /\ completed' = completed \cup {job[p].target}
      BY <1>7 DEF DeltaWriteState, AcceptsDelta
    <2>3. StateType(stateFile') /\ IsChain(stateFile') /\ completed' \subseteq Digest
      BY <2>1, <2>2, <1>file, AdvancePreservesChain
    <2> QED
      BY <1>7, <2>3, <1>file, BeginStep DEF DeltaWriteState, Exit
  <1>8. CASE Crash(p)
    BY <1>8, <1>file, BeginStep DEF Crash, Exit
  <1> QED
    BY <1>1, <1>2, <1>3, <1>4, <1>5, <1>6, <1>7, <1>8 DEF Step

(* ... and so does every step of the system. *)
LEMMA NextCInv == CInv /\ [Next]_vars => CInv'
  <1>1. CInv /\ UNCHANGED vars => CInv'
    BY DEF vars, CInv, TypeOK, StateType, StateFileIsChain, JobsAreChains
  <1> QED
    BY <1>1, StepCInv DEF Next

(* The state file, and every state a process has read, is a chain throughout. *)
THEOREM CLIInvariance == Spec => []CInv
  BY InitCInv, NextCInv, PTL DEF Spec

(* However many commands run at once and wherever they are killed, the     *)
(* state file holds one linked chain.                                      *)
THEOREM StateFileStaysChain == Spec => []StateFileIsChain
  <1>1. CInv => StateFileIsChain
    BY DEF CInv
  <1> QED
    BY <1>1, CLIInvariance, PTL
--------------------------------------------------------------------------------
(* One command at a time: what it read is still what the file holds. *)
ReadIsCurrent ==
    /\ \A p \in Procs : pc[p] # "idle" => job[p].state = stateFile
    /\ CompletedStaysRecorded

(* A step of the only process keeps its reading current, and continues the *)
(* file it read.                                                           *)
LEMMA SingleStep ==
    ASSUME \A p, q \in Procs : p = q, CInv, ReadIsCurrent, [Next]_vars
    PROVE  ReadIsCurrent' /\ Continues(stateFile', stateFile)
  <1>refl. Continues(stateFile, stateFile)
    BY DEF CInv, TypeOK, StateType, Continues
  <1>fun. /\ pc \in [Procs -> {"idle", "verify", "accept", "delta", "out", "state"}]
          /\ job = [p \in Procs |-> job[p]]
    BY DEF CInv, TypeOK
  <1>1. CASE UNCHANGED vars
    BY <1>1, <1>refl DEF vars, ReadIsCurrent, CompletedStaysRecorded
  <1>2. ASSUME NEW p \in Procs, Step(p)
        PROVE  ReadIsCurrent' /\ Continues(stateFile', stateFile)
    <2>1. ASSUME UNCHANGED <<stateFile, completed>>,
                 pc'[p] # "idle" => job'[p].state = stateFile
          PROVE  ReadIsCurrent' /\ Continues(stateFile', stateFile)
      BY <2>1, <1>2, <1>refl DEF ReadIsCurrent, CompletedStaysRecorded
    <2>2. ASSUME Exit(p) PROVE pc'[p] = "idle"
      BY <2>2, <1>fun DEF Exit, Begin
    <2>3. ASSUME NEW step, Goto(p, step), pc[p] # "idle" PROVE job'[p].state = stateFile
      BY <2>3 DEF Goto, ReadIsCurrent
    <2>4. ASSUME pc[p] # "idle", job[p].target \in Digest, Exit(p),
                 stateFile' = Advance(job[p].target, job[p].state),
                 CanAdvance(job[p].target, job[p].state),
                 completed' = completed \cup {job[p].target}
          PROVE  ReadIsCurrent' /\ Continues(stateFile', stateFile)
      <3> DEFINE d == job[p].target
      <3>1. /\ stateFile' = Advance(d, stateFile) /\ CanAdvance(d, stateFile)
            /\ StateType(stateFile) /\ IsChain(stateFile) /\ d \in Digest
        BY <2>4 DEF ReadIsCurrent, CInv, TypeOK, StateFileIsChain
      <3> HIDE DEF d
      <3>2. StateType(stateFile') /\ IsChain(stateFile') /\ Continues(stateFile', stateFile)
        BY <3>1, AdvancePreservesChain
      <3>3. \E r \in stateFile'.history : r.digest = d
        <4>1. CASE CatalogOf[d].generation = stateFile.generation
          <5>1. stateFile' = stateFile
            BY <4>1, <3>1 DEF Advance
          <5>2. stateFile.generation # 0 /\ stateFile.digest = d
            BY <4>1, <3>1 DEF CanAdvance, Validate, StateType
          <5>3. [generation |-> stateFile.generation, digest |-> d] \in stateFile.history
            BY <5>2, <3>1 DEF IsChain, HeadRecorded
          <5> QED
            BY <5>1, <5>3
        <4>2. CASE CatalogOf[d].generation # stateFile.generation
          <5> DEFINE new == [generation |-> stateFile'.generation, digest |-> d]
          <5>1. new \in stateFile'.history
            BY <4>2, <3>1, AdvanceAppends
          <5> QED
            BY <5>1
        <4> QED
          BY <4>1, <4>2
      <3>4. CompletedStaysRecorded'
        BY <3>2, <3>3, <2>4 DEF ReadIsCurrent, CompletedStaysRecorded, Continues, d
      <3>5. \A q \in Procs : pc'[q] = "idle"
        BY <2>2, <2>4, <1>2
      <3> QED
        BY <3>2, <3>4, <3>5 DEF ReadIsCurrent
    <2>5. ASSUME NEW d \in Digest, NEW k \in CertName, NEW w \in BOOLEAN, StartVerify(p, d, k, w)
          PROVE  ReadIsCurrent' /\ Continues(stateFile', stateFile)
      BY <2>5, <2>1, <1>fun DEF StartVerify, Begin
    <2>6. ASSUME NEW x \in DeltaName, NEW b \in Digest, NEW k \in CertName, NEW o \in BOOLEAN,
                 NEW w \in BOOLEAN, NEW f \in BOOLEAN, StartDelta(p, x, b, k, o, w, f)
          PROVE  ReadIsCurrent' /\ Continues(stateFile', stateFile)
      BY <2>6, <2>1, <1>fun DEF StartDelta, Begin
    <2>7. CASE VerifyDecide(p) \/ DeltaDecide(p) \/ DeltaWriteOut(p) \/ Crash(p)
      <3>1. UNCHANGED <<stateFile, completed>> /\ pc[p] # "idle"
        BY <2>7 DEF VerifyDecide, DeltaDecide, DeltaWriteOut, Crash
      <3>2. Exit(p) \/ \E step \in {"accept", "out", "state"} : Goto(p, step)
        BY <2>7 DEF VerifyDecide, DeltaDecide, DeltaWriteOut, Crash
      <3> QED
        BY <3>1, <3>2, <2>1, <2>2, <2>3
    <2>8. CASE VerifyWrite(p) \/ DeltaWriteState(p)
      <3>1. Exit(p) /\ pc[p] # "idle" /\ job[p].target \in Digest
        BY <2>8 DEF VerifyWrite, DeltaWriteState, CInv, TypeOK
      <3>2. \/ UNCHANGED <<stateFile, completed>>
            \/ /\ stateFile' = Advance(job[p].target, job[p].state)
               /\ CanAdvance(job[p].target, job[p].state)
               /\ completed' = completed \cup {job[p].target}
        BY <2>8 DEF VerifyWrite, DeltaWriteState, Accepts, AcceptsDelta
      <3> QED
        BY <3>1, <3>2, <2>1, <2>2, <2>4
    <2> QED
      BY <1>2, <2>5, <2>6, <2>7, <2>8 DEF Step
  <1> QED
    BY <1>1, <1>2 DEF Next

(* With one process at a time, crashes included, the state file never      *)
(* rolls back.                                                             *)
THEOREM SingleProcessNeverRollsBack ==
    ASSUME \A p, q \in Procs : p = q
    PROVE  Spec => FileNeverRollsBack
  <1>1. Init => ReadIsCurrent
    BY DEF Init, ReadIsCurrent, CompletedStaysRecorded
  <1>2. CInv /\ ReadIsCurrent /\ [Next]_vars => ReadIsCurrent' /\ Continues(stateFile', stateFile)
    BY SingleStep
  <1> QED
    BY <1>1, <1>2, CLIInvariance, PTL DEF Spec, FileNeverRollsBack

(* With one process at a time, what a completed command recorded stays.    *)
THEOREM SingleProcessIsDurable ==
    ASSUME \A p, q \in Procs : p = q
    PROVE  Spec => []CompletedStaysRecorded
  <1>1. Init => ReadIsCurrent
    BY DEF Init, ReadIsCurrent, CompletedStaysRecorded
  <1>2. CInv /\ ReadIsCurrent /\ [Next]_vars => ReadIsCurrent'
    BY SingleStep
  <1>3. ReadIsCurrent => CompletedStaysRecorded
    BY DEF ReadIsCurrent
  <1> QED
    BY <1>1, <1>2, <1>3, CLIInvariance, PTL DEF Spec

--------------------------------------------------------------------------------
(* Catalog d names a recorded generation as its predecessor: what a delta  *)
(* that passed its decision has of its target.                             *)
Follows(d, s) == \E r \in s.history : CatalogOf[d].previousDigest = r.digest

OutInv ==
    /\ OutFollowsRecorded
    /\ \A p \in Procs : pc[p] \in {"out", "state"} => Follows(job[p].target, stateFile)

(* A delta decided on the head follows the head's record. *)
LEMMA DecidedFollowsHead ==
    ASSUME NEW x \in DeltaName, NEW b \in Digest, NEW k, NEW s, StateType(s), IsChain(s),
           DecideDeltaWithState(x, b, k, Roots, Policy, s)
    PROVE  Follows(DeltaOf[x].targetDigest, s)
  <1>1. CatalogOf[DeltaOf[x].targetDigest].previousDigest = b
    BY DeltaTargetAcceptable DEF DecideDeltaWithState
  <1>2. s.generation # 0 /\ s.digest = b
    BY DEF DecideDeltaWithState
  <1> DEFINE head == [generation |-> s.generation, digest |-> b]
  <1>3. head \in s.history /\ head.digest = b
    BY <1>2 DEF IsChain, HeadRecorded
  <1> QED
    BY <1>1, <1>3 DEF Follows

(* A record once followed is still there after a step. *)
LEMMA SingleOutStep ==
    ASSUME \A p, q \in Procs : p = q, CInv, ReadIsCurrent, OutInv, [Next]_vars
    PROVE  OutInv'
  <1>1. Continues(stateFile', stateFile)
    BY SingleStep
  <1>2. ASSUME NEW d, Follows(d, stateFile) PROVE Follows(d, stateFile')
    BY <1>1, <1>2 DEF Follows, Continues
  <1>3. ASSUME outFile' = outFile PROVE OutFollowsRecorded'
    BY <1>2, <1>3 DEF OutInv, OutFollowsRecorded, Follows
  <1>4. CASE UNCHANGED vars
    BY <1>4 DEF vars, OutInv, OutFollowsRecorded, Follows
  <1>5. ASSUME NEW p \in Procs, Step(p) PROVE OutInv'
    <2>fun. /\ pc \in [Procs -> {"idle", "verify", "accept", "delta", "out", "state"}]
            /\ job = [q \in Procs |-> job[q]]
      BY DEF CInv, TypeOK
    <2>0. ASSUME outFile' = outFile, pc'[p] \notin {"out", "state"} PROVE OutInv'
      BY <2>0, <1>3, <1>5 DEF OutInv
    <2>exit. ASSUME Exit(p) PROVE pc'[p] = "idle"
      BY <2>exit, <2>fun DEF Exit, Begin
    <2>goto. ASSUME NEW step, Goto(p, step) PROVE pc'[p] = step /\ job' = job
      BY <2>goto, <2>fun DEF Goto
    <2>1. CASE \/ \E d \in Digest, k \in CertName, w \in BOOLEAN : StartVerify(p, d, k, w)
               \/ \E x \in DeltaName, b \in Digest, k \in CertName, o, w, f \in BOOLEAN :
                     StartDelta(p, x, b, k, o, w, f)
      <3>1. outFile' = outFile /\ pc'[p] \in {"verify", "delta"}
        BY <2>1, <2>fun, ZenonT(30) DEF StartVerify, StartDelta, Begin
      <3> QED
        BY <3>1, <2>0
    <2>2. CASE VerifyDecide(p)
      <3>1. outFile' = outFile /\ (Exit(p) \/ Goto(p, "accept"))
        BY <2>2 DEF VerifyDecide
      <3> QED
        BY <3>1, <2>0, <2>exit, <2>goto
    <2>3. CASE VerifyWrite(p) \/ DeltaWriteState(p) \/ Crash(p)
      <3>1. outFile' = outFile /\ Exit(p)
        BY <2>3 DEF VerifyWrite, DeltaWriteState, Crash
      <3> QED
        BY <3>1, <2>0, <2>exit
    <2>4. CASE DeltaDecide(p)
      <3> DEFINE j == job[p]
      <3>1. pc[p] = "delta" /\ UNCHANGED <<stateFile, outFile>>
        BY <2>4 DEF DeltaDecide
      <3>2. /\ j.delta \in DeltaName /\ j.base \in Digest
            /\ j.target = DeltaOf[j.delta].targetDigest
            /\ StateType(stateFile) /\ IsChain(stateFile) /\ j.state = stateFile
        BY <3>1 DEF CInv, TypeOK, StateFileIsChain, ReadIsCurrent
      <3>3. CASE Exit(p)
        BY <3>1, <3>3, <2>0, <2>exit
      <3>4. CASE /\ DecideDeltaWithState(j.delta, j.base, j.signer, Roots, Policy, j.state)
                 /\ Goto(p, "out")
        <4>1. Follows(j.target, stateFile)
          BY <3>2, <3>4, DecidedFollowsHead
        <4>2. job' = job
          BY <3>4, <2>goto
        <4> QED
          BY <4>1, <4>2, <3>1, <1>3, <1>5 DEF OutInv
      <3> QED
        BY <2>4, <3>3, <3>4 DEF DeltaDecide
    <2>5. CASE DeltaWriteOut(p)
      <3> DEFINE j == job[p]
      <3>1. pc[p] = "out" /\ stateFile' = stateFile /\ outFile' \in {j.target, outFile}
        BY <2>5 DEF DeltaWriteOut
      <3>2. Follows(j.target, stateFile)
        BY <3>1 DEF OutInv
      <3>3. OutFollowsRecorded'
        BY <3>1, <3>2, <1>3 DEF OutFollowsRecorded, Follows
      <3>4. Exit(p) \/ Goto(p, "state")
        BY <2>5 DEF DeltaWriteOut
      <3>5. pc'[p] = "idle" \/ job' = job
        BY <3>4, <2>exit, <2>goto
      <3> QED
        BY <3>1, <3>2, <3>3, <3>5, <1>5 DEF OutInv
    <2> QED
      BY <1>5, <2>1, <2>2, <2>3, <2>4, <2>5 DEF Step
  <1> QED
    BY <1>4, <1>5 DEF Next

(* With one process at a time, wherever it is killed, the catalog left in  *)
(* -out follows a recorded generation.                                     *)
THEOREM SingleProcessOutFollows ==
    ASSUME \A p, q \in Procs : p = q
    PROVE  Spec => []OutFollowsRecorded
  <1>1. Init => ReadIsCurrent /\ OutInv
    BY DEF Init, ReadIsCurrent, CompletedStaysRecorded, OutInv, OutFollowsRecorded
  <1>2. CInv /\ ReadIsCurrent /\ OutInv /\ [Next]_vars => ReadIsCurrent' /\ OutInv'
    BY SingleStep, SingleOutStep
  <1>3. OutInv => OutFollowsRecorded
    BY DEF OutInv
  <1> QED
    BY <1>1, <1>2, <1>3, CLIInvariance, PTL DEF Spec

--------------------------------------------------------------------------------
\* b's snapshot and delta were served, each by some generation up to n.
Served(b, n) ==
    /\ b.snapshot # Nothing
    /\ \E g \in 1 .. n : b.snapshot = Published[g].snapshot
    /\ \E g \in 1 .. n : b.delta = Published[g].delta

Bodies == {Published[g][Paths[i]] : g \in 1 .. Len(Published), i \in 1 .. 4}

DInv ==
    /\ pub \in 1 .. Len(Published)
    /\ parts \in Seq(Bodies)
    /\ \A i \in DOMAIN parts : \E g \in 1 .. pub : parts[i] = Published[g][Paths[i]]
    /\ cache # Nothing => Served(cache, pub)
    /\ usable => cache # Nothing
    /\ phase = "apply" => Served(bundle, pub)
    /\ StateType(registry) /\ IsChain(registry)
    /\ BaseIsHead
    /\ HeadWasPublished

(* The invariant of the exchange holds at the start, ... *)
LEMMA InitDInv == ExchangeInit => DInv
  <1> SUFFICES ASSUME ExchangeInit PROVE DInv
    OBVIOUS
  <1>1. BaseIsHead /\ HeadWasPublished
    BY DEF ExchangeInit, BaseIsHead, HeadWasPublished, EmptyState
  <1> QED
    BY <1>1, EmptyIsChain, PublishedAssumption DEF ExchangeInit, DInv

(* What was served stays served when the publisher moves on. *)
LEMMA ServedStays ==
    ASSUME NEW m \in Int, NEW n \in Int, m <= n, NEW b, Served(b, m)
    PROVE  Served(b, n)
  BY DEF Served

(* A step that leaves the consumer's state alone only has to account for   *)
(* the bundles.                                                            *)
LEMMA QuietStep ==
    ASSUME DInv, pub' \in 1 .. Len(Published), pub <= pub',
           registry' = registry, base' = base,
           parts' \in Seq(Bodies),
           \A i \in DOMAIN parts' : \E g \in 1 .. pub' : parts'[i] = Published[g][Paths[i]],
           cache' # Nothing => Served(cache', pub'),
           usable' => cache' # Nothing,
           phase' = "apply" => Served(bundle', pub')
    PROVE  DInv'
  <1>1. StateType(registry) /\ IsChain(registry) /\ BaseIsHead /\ HeadWasPublished
    BY DEF DInv
  <1>2. StateType(registry') /\ IsChain(registry')
    BY <1>1
  <1>3. BaseIsHead'
    BY <1>1 DEF BaseIsHead
  <1>4. HeadWasPublished'
    <2>1. registry.generation \in Nat
      BY <1>1 DEF StateType
    <2>2. pub \in Int /\ pub' \in Int
      BY DEF DInv
    <2> QED
      BY <1>1, <2>1, <2>2 DEF HeadWasPublished
  <1> QED
    BY <1>2, <1>3, <1>4 DEF DInv

(* ... a release adds a generation and takes none away, ... *)
LEMMA PublishStep == ASSUME DInv, Publish PROVE DInv'
  <1>1. /\ pub' = pub + 1 /\ pub < Len(Published) /\ pub \in 1 .. Len(Published)
        /\ registry' = registry /\ base' = base /\ parts' = parts /\ cache' = cache
        /\ usable' = usable /\ phase' = phase /\ bundle' = bundle
    BY DEF Publish, DInv, clock
  <1>2. pub' \in 1 .. Len(Published) /\ pub <= pub' /\ pub \in Int /\ pub' \in Int
        /\ 1 .. pub \subseteq 1 .. pub'
    BY <1>1, PublishedAssumption
  <1>3. \A i \in DOMAIN parts : \E g \in 1 .. pub' : parts[i] = Published[g][Paths[i]]
    BY <1>2 DEF DInv
  <1>4. /\ cache # Nothing => Served(cache, pub')
        /\ phase = "apply" => Served(bundle, pub')
    BY <1>2, ServedStays DEF DInv
  <1>5. parts \in Seq(Bodies) /\ (usable => cache # Nothing)
    BY DEF DInv
  <1> QED
    BY <1>1, <1>2, <1>3, <1>4, <1>5, QuietStep

(* Every step of the consumer but Apply. *)
LEMMA FailStep == ASSUME DInv, Fail PROVE DInv'
  <1>1. /\ pub' = pub /\ registry' = registry /\ base' = base
        /\ parts' = <<>> /\ cache' = cache /\ usable' = FALSE
        /\ phase' = "apply" => usable /\ bundle' = cache
    BY DEF Fail, Deliver
  <1>2. pub \in 1 .. Len(Published) /\ pub <= pub
    BY PublishedAssumption DEF DInv
  <1>3. /\ cache # Nothing => Served(cache, pub)
        /\ usable => cache # Nothing
    BY DEF DInv
  <1> QED
    BY <1>1, <1>2, <1>3, QuietStep

(* ... a GET brings a part of some generation released so far, ... *)
LEMMA GetStep ==
    ASSUME DInv, NEW i \in 1 .. Len(Paths), Get(i)
    PROVE  DInv'
  <1> DEFINE body == Published[pub][Paths[i]]
             read == Append(parts, body)
  <1>0. Len(Paths) = 4
    BY DEF Paths
  <1>1. /\ pub \in 1 .. Len(Published) /\ pub \in 1 .. pub /\ pub <= pub
        /\ parts \in Seq(Bodies) /\ phase = "get" /\ i = Len(parts) + 1 /\ i \in 1 .. 4
        /\ cache # Nothing => Served(cache, pub)
    BY <1>0, PublishedAssumption DEF DInv, Get
  <1>2. body \in Bodies
    BY <1>1 DEF Bodies
  <1>3. read \in Seq(Bodies)
        /\ \A n \in DOMAIN read : \E g \in 1 .. pub : read[n] = Published[g][Paths[n]]
    <2>1. /\ DOMAIN read = 1 .. i /\ read[i] = body
          /\ \A n \in 1 .. i - 1 : n \in DOMAIN parts /\ read[n] = parts[n]
      BY <1>1, <1>2
    <2>2. \A n \in DOMAIN parts : \E g \in 1 .. pub : parts[n] = Published[g][Paths[n]]
      BY DEF DInv
    <2>3. ASSUME NEW n \in 1 .. i PROVE \E g \in 1 .. pub : read[n] = Published[g][Paths[n]]
      <3> HIDE DEF read
      <3>1. CASE n = i
        BY <1>1, <2>1, <3>1
      <3>2. CASE n # i
        BY <1>1, <2>1, <2>2, <3>2
      <3> QED
        BY <3>1, <3>2
    <2>4. read \in Seq(Bodies)
      BY <1>1, <1>2
    <2> HIDE DEF read
    <2> QED
      BY <2>1, <2>3, <2>4
  <1> HIDE DEF body
  <1>4. CASE i < Len(Paths)
    <2>1. /\ parts' = read /\ pub' = pub /\ phase' = phase /\ cache' = cache
          /\ usable' = usable /\ bundle' = bundle /\ registry' = registry /\ base' = base
      BY <1>4 DEF Get, clock, body
    <2>2. usable => cache # Nothing
      BY DEF DInv
    <2> HIDE DEF read
    <2> QED
      BY <1>1, <1>3, <2>1, <2>2, QuietStep
  <1>5. CASE i = Len(Paths) /\ Nothing \in {read[1], read[2]}
    <2>1. Fail
      BY <1>0, <1>5 DEF Get, body
    <2> QED
      BY <2>1, FailStep
  <1>6. CASE i = Len(Paths) /\ Nothing \notin {read[1], read[2]}
    <2>1. /\ cache' = MkBundle(read) /\ bundle' = MkBundle(read) /\ usable' = FALSE
          /\ parts' = <<>> /\ pub' = pub /\ registry' = registry /\ base' = base
      BY <1>0, <1>6 DEF Get, Deliver, body
    <2>2. 1 \in DOMAIN read /\ 3 \in DOMAIN read
      BY <1>0, <1>1, <1>2, <1>6
    <2>3. Paths[1] = "snapshot" /\ Paths[3] = "delta"
      BY DEF Paths
    <2> HIDE DEF read
    <2>4. MkBundle(read).snapshot = read[1] /\ MkBundle(read).delta = read[3]
      BY DEF MkBundle
    <2>5. Served(MkBundle(read), pub)
      BY <1>3, <1>6, <2>2, <2>3, <2>4 DEF Served
    <2> QED
      BY <1>1, <2>1, <2>5, QuietStep
  <1> QED
    BY <1>0, <1>1, <1>4, <1>5, <1>6

(* ... the cache keeps or replaces what it holds, ... *)
LEMMA ConsumerStep ==
    ASSUME DInv, Tick \/ CacheHit \/ StartFetch
    PROVE  DInv'
  <1>1. /\ pub \in 1 .. Len(Published) /\ pub <= pub
        /\ cache # Nothing => Served(cache, pub)
        /\ usable => cache # Nothing
        /\ phase = "apply" => Served(bundle, pub)
        /\ parts \in Seq(Bodies)
        /\ \A i \in DOMAIN parts : \E g \in 1 .. pub : parts[i] = Published[g][Paths[i]]
    <2>1. pub <= pub
      BY PublishedAssumption DEF DInv
    <2> QED
      BY <2>1 DEF DInv
  <1>2. CASE Tick
    <2>1. /\ pub' = pub /\ registry' = registry /\ base' = base /\ cache' = cache
          /\ parts' = parts /\ usable' = usable /\ phase' = phase /\ bundle' = bundle
      BY <1>2 DEF Tick
    <2> QED
      BY <1>1, <2>1, QuietStep
  <1>3. CASE CacheHit
    <2>1. /\ pub' = pub /\ registry' = registry /\ base' = base /\ cache' = cache
          /\ parts' = parts /\ usable' = usable /\ cache # Nothing /\ bundle' = cache
      BY <1>3 DEF CacheHit, Deliver, Fresh, clock
    <2> QED
      BY <1>1, <2>1, QuietStep
  <1>4. CASE StartFetch
    <2>1. /\ pub' = pub /\ registry' = registry /\ base' = base /\ cache' = cache
          /\ parts' = <<>> /\ phase' = "get"
          /\ usable' => cache # Nothing
      BY <1>4, ZenonT(30) DEF StartFetch
    <2> QED
      BY <1>1, <2>1, QuietStep
  <1> QED
    BY <1>2, <1>3, <1>4

--------------------------------------------------------------------------------
(* A served catalog that advance admits becomes the head, at its own       *)
(* generation, and the state continues the old one.                        *)
LEMMA PersistStep ==
    ASSUME DInv, NEW d \in Digest, CanAdvance(d, registry), Persist(d),
           NEW g \in 1 .. pub, d = Published[g].snapshot
    PROVE  /\ StateType(registry)' /\ IsChain(registry)'
           /\ BaseIsHead'
           /\ registry'.generation = g /\ registry'.digest = Published[g].snapshot
           /\ Continues(registry', registry)
  <1> DEFINE s == registry
             t == Advance(d, s)
  <1>1. StateType(s) /\ IsChain(s)
    BY DEF DInv
  <1>2. registry' = t /\ base' = d
    BY DEF Persist
  <1>3. StateType(t) /\ IsChain(t) /\ Continues(t, s)
    BY <1>1, AdvancePreservesChain
  <1>4. CatalogOf[d].generation = g /\ g \in Nat \ {0}
    <2>1. pub \in 1 .. Len(Published)
      BY DEF DInv
    <2>2. g \in 1 .. Len(Published) /\ g \in Nat \ {0}
      <3>1. Len(Published) \in Nat
        BY PublishedAssumption
      <3> QED
        BY <2>1, <3>1
    <2>3. d # Nothing
      BY PublishedAssumption
    <2> QED
      BY <2>2, <2>3, PublishedAssumption, ZenonT(30)
  <1>5. t.generation = g /\ t.digest = d
    <2>1. CASE CatalogOf[d].generation = s.generation
      <3>1. t = s
        BY <2>1 DEF Advance
      <3>2. s.generation # 0
        BY <1>4, <2>1
      <3>3. d = s.digest
        <4> DEFINE m == s.generation
                   n == CatalogOf[d].generation
        <4>1. \/ m = 0
              \/ d = s.digest
              \/ n = m + 1
          BY ZenonT(30) DEF CanAdvance
        <4>2. n = m /\ m # 0 /\ m \in Nat
          BY <1>4, <2>1, <3>2
        <4> HIDE DEF m, n
        <4> QED
          BY <4>1, <4>2
      <3> QED
        BY <1>4, <2>1, <3>1, <3>3
    <2>2. CASE CatalogOf[d].generation # s.generation
      <3>1. t.generation = CatalogOf[d].generation /\ t.digest = d
        <4>1. StateType(s) /\ IsChain(s) /\ CanAdvance(d, s)
          BY <1>1
        <4> HIDE DEF s
        <4>2. t.generation = CatalogOf[d].generation
          BY <2>2, <4>1, AdvanceAppends
        <4>3. t.digest = d
          BY <2>2, <4>1, AdvanceAppends
        <4> QED
          BY <4>2, <4>3
      <3> QED
        BY <1>4, <3>1
    <2> QED
      BY <2>1, <2>2
  <1> HIDE DEF t
  <1> QED
    BY <1>2, <1>3, <1>5 DEF BaseIsHead

(* ... Apply moves the head only to a published catalog, ... *)
LEMMA ApplyStep ==
    ASSUME DInv, Apply
    PROVE  DInv' /\ Continues(registry', registry)
  <1>1. /\ pub' = pub /\ parts' = parts /\ cache' = cache /\ usable' = usable
        /\ phase' = "idle" /\ phase = "apply"
    BY DEF Apply, clock
  <1>2. /\ pub \in 1 .. Len(Published) /\ pub <= pub
        /\ Served(bundle, pub)
        /\ StateType(registry) /\ IsChain(registry) /\ base = registry.digest
    BY <1>1, PublishedAssumption DEF DInv, BaseIsHead
  <1>3. CASE UNCHANGED <<registry, base>>
    <2>1. DInv'
      BY <1>1, <1>2, <1>3, QuietStep DEF DInv
    <2>2. Continues(registry, registry)
      BY <1>2 DEF Continues, StateType
    <2> QED
      BY <1>3, <2>1, <2>2
  <1>4. ASSUME NEW d \in Digest, CanAdvance(d, registry), Persist(d),
               NEW g \in 1 .. pub, d = Published[g].snapshot
        PROVE  DInv' /\ Continues(registry', registry)
    <2>1. /\ StateType(registry)' /\ IsChain(registry)' /\ BaseIsHead'
          /\ registry'.generation = g /\ registry'.digest = Published[g].snapshot
          /\ Continues(registry', registry)
      BY <1>4, PersistStep, ZenonT(30)
    <2>2. HeadWasPublished'
      <3>1. registry'.generation <= pub' /\ registry'.generation = g
        <4>1. g <= pub
          BY <1>2
        <4> QED
          BY <1>1, <2>1, <4>1, ZenonT(30)
      <3> QED
        BY <2>1, <3>1 DEF HeadWasPublished
    <2>3. /\ pub' \in 1 .. Len(Published) /\ parts' \in Seq(Bodies)
          /\ \A i \in DOMAIN parts' : \E h \in 1 .. pub' : parts'[i] = Published[h][Paths[i]]
          /\ cache' # Nothing => Served(cache', pub')
          /\ usable' => cache' # Nothing
          /\ phase' # "apply"
      BY <1>1 DEF DInv
    <2> QED
      BY <2>1, <2>2, <2>3 DEF DInv
  <1>5. CASE UsesDelta
    <2> DEFINE x == bundle.delta
               d == DeltaOf[x].targetDigest
    <2>1. PICK g \in 1 .. pub : x = Published[g].delta
      BY <1>2 DEF Served
    <2>2. x \in DeltaName /\ d = Published[g].snapshot
      <3>1. g \in 1 .. Len(Published)
        BY <1>2, PublishedAssumption
      <3>2. x # Nothing
        BY <1>5 DEF UsesDelta
      <3> QED
        BY <2>1, <3>1, <3>2, PublishedAssumption
    <2>3. base \in Digest
      BY <1>2, <1>5 DEF UsesDelta, StateType
    <2>4. DecideDelta(x, base, bundle.deltaSig.signer, ConsumerRoots, ConsumerPolicy)
      BY <1>5 DEF UsesDelta, DecideDeltaWithState
    <2>5. d \in Digest
      BY <2>2, <2>3, <2>4, DeltaTargetAcceptable
    <2>6. CanAdvance(d, registry) /\ Persist(d)
      BY <1>5, ZenonT(30) DEF UsesDelta, Apply
    <2> QED
      BY <1>4, <2>2, <2>5, <2>6, ZenonT(30)
  <1>6. CASE ~UsesDelta /\ UsesSnapshot
    <2> DEFINE d == bundle.snapshot
    <2>1. PICK g \in 1 .. pub : d = Published[g].snapshot
      BY <1>2 DEF Served
    <2>2. d \in Digest
      BY <1>2, <2>1, PublishedAssumption DEF Served
    <2>3. CanAdvance(d, registry) /\ Persist(d)
      BY <1>6 DEF UsesSnapshot, Apply
    <2> QED
      BY <1>4, <2>1, <2>2, <2>3
  <1> QED
    BY <1>3, <1>5, <1>6 DEF Apply

(* ... so every step of the exchange keeps the invariant. *)
LEMMA NextDInv == DInv /\ [ExchangeNext]_exchangeVars => DInv' /\ [Continues(registry', registry)]_exchangeVars
  <1> SUFFICES ASSUME DInv, [ExchangeNext]_exchangeVars PROVE DInv' /\ [Continues(registry', registry)]_exchangeVars
    OBVIOUS
  <1>1. CASE UNCHANGED exchangeVars
    <2>1. DInv'
      <3>1. /\ pub' = pub /\ parts' = parts /\ cache' = cache /\ usable' = usable /\ phase' = phase
            /\ bundle' = bundle /\ registry' = registry /\ base' = base
        BY <1>1 DEF exchangeVars, clock
      <3>2. pub <= pub'
        <4>1. pub \in Nat
          BY PublishedAssumption DEF DInv
        <4> QED
          BY <3>1, <4>1
      <3>3. /\ pub' \in 1 .. Len(Published)
            /\ parts' \in Seq(Bodies)
            /\ \A i \in DOMAIN parts' : \E g \in 1 .. pub' : parts'[i] = Published[g][Paths[i]]
            /\ cache' # Nothing => Served(cache', pub')
            /\ usable' => cache' # Nothing
            /\ phase' = "apply" => Served(bundle', pub')
        BY <3>1, ZenonT(30) DEF DInv
      <3> QED
        BY <3>1, <3>2, <3>3, QuietStep, ZenonT(30)
    <2> QED
      BY <1>1, <2>1
  <1>2. CASE Apply
    BY <1>2, ApplyStep
  <1>3. ASSUME Publish \/ Tick \/ CacheHit \/ StartFetch \/ FetchFails
               \/ \E i \in 1 .. Len(Paths) : Get(i)
        PROVE  DInv' /\ Continues(registry', registry)
    <2>1. DInv'
      BY <1>3, PublishStep, ConsumerStep, FailStep, GetStep DEF FetchFails
    <2>2. registry' = registry
      BY <1>3, ZenonT(30) DEF Publish, Tick, CacheHit, StartFetch, FetchFails, Get, Fail
    <2>3. Continues(registry, registry)
      <3>1. registry.generation \in Nat
        BY DEF DInv, StateType
      <3> QED
        BY <3>1 DEF Continues
    <2> QED
      BY <2>1, <2>2, <2>3
  <1> QED
    BY <1>1, <1>2, <1>3 DEF ExchangeNext

(* The consumer's accepted head is the snapshot the publisher released for *)
(* that generation, whatever mixture of releases the GETs and the cache    *)
(* delivered (FetchDirectory, DirectoryCache.Fetch, Apply).                *)
THEOREM HeadStaysPublished == ExchangeSpec => []HeadWasPublished
  <1>1. DInv => HeadWasPublished
    BY DEF DInv
  <1> QED
    BY <1>1, InitDInv, NextDInv, PTL DEF ExchangeSpec

(* The catalog and the state of an outcome stay together, on the delta     *)
(* path as on the snapshot path (ApplyOutcome).                            *)
THEOREM BaseStaysHead == ExchangeSpec => []BaseIsHead
  <1>1. DInv => BaseIsHead
    BY DEF DInv
  <1> QED
    BY <1>1, InitDInv, NextDInv, PTL DEF ExchangeSpec

(* Applying any bundle, cached, stale or torn, never takes the consumer    *)
(* back or changes what it has recorded (Apply).                           *)
THEOREM NeverRollsConsumerBack == ExchangeSpec => ConsumerNeverRollsBack
  BY InitDInv, NextDInv, PTL DEF ExchangeSpec, ConsumerNeverRollsBack

--------------------------------------------------------------------------------
(* The registry of a deployer. *)

(* What a result in flight says stays true of the inputs it binds. *)
Sound(res) ==
    /\ res.catalogDigest \in Digest
    /\ Binds(res, res.catalogDigest)
    /\ AcceptableSource(res.catalogDigest, res.signer, res.roots, res.policy)
    /\ AcceptableContent(res.catalogDigest, res.signer, res.policy)
    /\ res.signatureVerified =>
          Decide(res.catalogDigest, res.signer, res.roots, res.policy, res.state)

HeldSound ==
    /\ held = [u \in Callers |-> held[u]]
    /\ \A u \in Callers : held[u] # NoResult => Sound(held[u])

PolicyIsRecord == "observedAt" \in DOMAIN policy /\ policy = [f \in DOMAIN policy |-> policy[f]]

(* The inductive invariant. *)
IInv ==
    /\ RegistryTypeOK
    /\ HistoryIsChain
    /\ PolicyIsRecord
    /\ HeldSound
    /\ EveryGenerationVerified

(* A step of Accept, AcceptDelta or AcceptSigned. *)
LEMMA AdvanceStep ==
    ASSUME IInv, NEW d \in Digest, NEW res, NEW accepts \in BOOLEAN, AdvanceIf(accepts, d, res),
           accepts => /\ CanAdvance(d, accepted) /\ res.catalogDigest = d
                      /\ res.verdict = "accept"
                      /\ AcceptableSource(d, res.signer, res.roots, res.policy)
                      /\ AcceptableContent(d, res.signer, res.policy)
    PROVE  /\ StateType(accepted)' /\ HistoryIsChain' /\ Continues(accepted', accepted)
           /\ EveryGenerationVerified'
           /\ \A r \in admitted' : r.catalogDigest \in Digest
  <1>1. CASE ~accepts
    <2>1. accepted' = accepted /\ admitted' = admitted
      BY <1>1 DEF AdvanceIf
    <2> QED
      BY <2>1 DEF IInv, RegistryTypeOK, HistoryIsChain, EveryGenerationVerified, Continues, StateType
  <1>2. CASE accepts
    <2>1. accepted' = Advance(d, accepted)
      BY <1>2 DEF AdvanceIf
    <2>2. StateType(accepted) /\ IsChain(accepted) /\ CanAdvance(d, accepted)
      BY <1>2 DEF IInv, RegistryTypeOK, HistoryIsChain
    <2>3. StateType(accepted') /\ IsChain(accepted') /\ Continues(accepted', accepted)
      BY <2>1, <2>2, AdvancePreservesChain
    <2>4. admitted \subseteq admitted' /\ admitted' \subseteq admitted \cup {res}
      BY DEF AdvanceIf
    <2>5. EveryGenerationVerified'
      <3> SUFFICES ASSUME NEW r \in accepted'.history
                   PROVE  \E q \in admitted' :
                             /\ q.catalogDigest = r.digest /\ q.verdict = "accept"
                             /\ AcceptableSource(r.digest, q.signer, q.roots, q.policy)
                             /\ AcceptableContent(r.digest, q.signer, q.policy)
        BY DEF EveryGenerationVerified
      <3>1. CASE r \in accepted.history
        BY <3>1, <2>4 DEF IInv, EveryGenerationVerified
      <3>2. CASE r \notin accepted.history
        <4>1. CatalogOf[d].generation # accepted.generation
          BY <3>2, <2>1 DEF Advance
        <4>2. accepted'.history =
                 accepted.history \cup {[generation |-> accepted'.generation, digest |-> d]}
          BY <4>1, <2>1, <2>2, AdvanceAppends
        <4>3. r.digest = d
          BY <3>2, <4>2
        <4>4. res \in admitted'
          BY <3>2 DEF AdvanceIf
        <4> QED
          BY <4>3, <4>4, <1>2
      <3> QED
        BY <3>1, <3>2
    <2>6. \A r \in admitted' : r.catalogDigest \in Digest
      BY <2>4, <1>2 DEF IInv, RegistryTypeOK
    <2> QED
      BY <2>3, <2>5, <2>6 DEF HistoryIsChain
  <1> QED
    BY <1>1, <1>2
(* A verification that puts a sound result, or none, in a caller's hand. *)
LEMMA HoldStep ==
    ASSUME IInv, NEW u \in Callers, NEW res, res # NoResult => Sound(res),
           held' = [held EXCEPT ![u] = res], UNCHANGED <<accepted, policy, admitted>>
    PROVE  IInv'
  <1>1. /\ held' = [v \in Callers |-> held'[v]]
        /\ \A v \in Callers : held'[v] = IF v = u THEN res ELSE held[v]
    BY DEF IInv, HeldSound
  <1>2. HeldSound'
    <2>1. \A v \in Callers : held'[v] # NoResult => Sound(held'[v])
      BY <1>1 DEF IInv, HeldSound
    <2>2. \A r : Sound(r) <=> Sound(r)'
      BY DEF Sound, Binds
    <2> QED
      BY <1>1, <2>1, <2>2 DEF HeldSound
  <1>3. \A v \in Callers : held'[v] # NoResult => held'[v].catalogDigest \in Digest
    BY <1>1 DEF IInv, RegistryTypeOK, Sound
  <1> QED
    BY <1>2, <1>3
    DEF IInv, RegistryTypeOK, HistoryIsChain, PolicyIsRecord, EveryGenerationVerified

(* A caller's result is spent by Accept or AcceptDelta. *)
LEMMA SpendStep ==
    ASSUME IInv, NEW u \in Callers, held' = [held EXCEPT ![u] = NoResult]
    PROVE  HeldSound' /\ \A v \in Callers : held'[v] # NoResult => held'[v].catalogDigest \in Digest
  <1>1. /\ held' = [v \in Callers |-> held'[v]]
        /\ \A v \in Callers : held'[v] = IF v = u THEN NoResult ELSE held[v]
    BY DEF IInv, HeldSound
  <1>2. \A v \in Callers : held'[v] # NoResult => Sound(held'[v])
    BY <1>1 DEF IInv, HeldSound
  <1> QED
    BY <1>1, <1>2 DEF HeldSound, Sound, Binds

(* The invariant of the registry holds at the start. *)
LEMMA InitIInv == RegistryInit => IInv
  <1> SUFFICES ASSUME RegistryInit PROVE IInv
    OBVIOUS
  <1>1. /\ accepted.generation = 0 /\ accepted.digest = NoDigest /\ accepted.history = {}
        /\ accepted = EmptyState
    BY DEF RegistryInit, EmptyState
  <1>2. StateType(accepted)
    BY <1>1 DEF StateType
  <1>3. IsChain(accepted)
    BY <1>1 DEF IsChain, EachGenerationOnce, Linked, OfOneIdentity, HeadRecorded
  <1>4. held = [u \in Callers |-> held[u]] /\ \A u \in Callers : held[u] = NoResult
    BY DEF RegistryInit
  <1>5. policy.observedAt \in 0 .. MaxTime /\ PolicyIsRecord
    BY PolicyAssumption, MaxTimeAssumption DEF RegistryInit, PolicyIsRecord
  <1>6. EveryGenerationVerified
    BY <1>1 DEF EveryGenerationVerified
  <1> QED
    BY <1>2, <1>3, <1>4, <1>5, <1>6 DEF IInv, RegistryTypeOK, HistoryIsChain, HeldSound, RegistryInit

(* A result of VerifySigned is what the checks of the snapshot path decide, ... *)
LEMMA SnapshotSound ==
    ASSUME NEW d \in Digest, NEW k, NEW roots, NEW verdict, NEW via, via # "delta",
           Decide(d, k, roots, policy, accepted)
    PROVE  Sound(Result(verdict, via, d, k, roots))
  BY DEF Sound, Result, Binds, Decide

(* ... and one of VerifySignedDelta what those of the delta path decide. *)
LEMMA DeltaSound ==
    ASSUME NEW x \in DeltaName, NEW b \in Digest, NEW k, DecideDelta(x, b, k, CallerRoots, policy)
    PROVE  Sound(Result("accept", "delta", DeltaOf[x].targetDigest, k, CallerRoots))
  <1> DEFINE n == DeltaOf[x].targetDigest
  <1>1. /\ n \in Digest
        /\ AcceptableSource(n, k, CallerRoots, policy) /\ AcceptableContent(n, k, policy)
    BY DeltaTargetAcceptable
  <1> HIDE DEF n
  <1>2. Sound(Result("accept", "delta", n, k, CallerRoots))
    BY <1>1, ZenonT(30) DEF Sound, Result, Binds
  <1> QED
    BY <1>2 DEF n

(* What a step of the library does to the state, one case per action. *)
LEMMA NextIInv == IInv /\ [RegistryNext]_registryVars => IInv' /\ Continues(accepted', accepted)
  <1> SUFFICES ASSUME IInv, [RegistryNext]_registryVars PROVE IInv' /\ Continues(accepted', accepted)
    OBVIOUS
  <1>refl. Continues(accepted, accepted)
    BY DEF IInv, RegistryTypeOK, StateType, Continues
  <1>1. ASSUME NEW u \in Callers, NEW d \in Digest, NEW k \in CertName, VerifySigned(u, d, k)
        PROVE  IInv' /\ Continues(accepted', accepted)
    <2> DEFINE res == IF Decide(d, k, CallerRoots, policy, accepted)
                      THEN Result("accept", "snapshot", d, k, CallerRoots) ELSE NoResult
    <2>1. res # NoResult => Sound(res)
      BY SnapshotSound
    <2>2. held' = [held EXCEPT ![u] = res] /\ UNCHANGED <<accepted, policy, admitted>>
      BY <1>1 DEF VerifySigned
    <2> HIDE DEF res
    <2> QED
      BY <2>1, <2>2, <1>refl, HoldStep, ZenonT(30)
  <1>2. ASSUME NEW u \in Callers, NEW d \in Digest, NEW k \in CertName,
               RotationVerifySigned(u, d, k)
        PROVE  IInv' /\ Continues(accepted', accepted)
    <2> DEFINE roots == RootsAt(policy.observedAt)
               verdict == IF CertOf[k].key \in Rotation.revokedKeys THEN "reject" ELSE "accept"
               res == IF Decide(d, k, roots, policy, accepted)
                      THEN Result(verdict, "rotation", d, k, roots) ELSE NoResult
    <2>1. held' = [held EXCEPT ![u] = res] /\ UNCHANGED <<accepted, policy, admitted>>
      BY <1>2 DEF RotationVerifySigned
    <2> HIDE DEF roots, verdict
    <2>2. res # NoResult => Sound(res)
      BY SnapshotSound
    <2> HIDE DEF res
    <2> QED
      BY <2>1, <2>2, <1>refl, HoldStep, ZenonT(30)
  <1>3. ASSUME NEW u \in Callers, NEW x \in DeltaName, NEW b \in Digest, NEW k \in CertName,
               NEW w \in BOOLEAN, VerifySignedDelta(u, x, b, k, w)
        PROVE  IInv' /\ Continues(accepted', accepted)
    <2> DEFINE ok == IF w THEN DecideDeltaWithState(x, b, k, CallerRoots, policy, accepted)
                          ELSE DecideDelta(x, b, k, CallerRoots, policy)
               res == IF ok THEN Result("accept", "delta", DeltaOf[x].targetDigest, k, CallerRoots)
                            ELSE NoResult
    <2>1. held' = [held EXCEPT ![u] = res] /\ UNCHANGED <<accepted, policy, admitted>>
      BY <1>3 DEF VerifySignedDelta
    <2>2. ok => DecideDelta(x, b, k, CallerRoots, policy)
      BY DEF DecideDeltaWithState
    <2> HIDE DEF ok
    <2>3. res # NoResult => Sound(res)
      BY <2>2, DeltaSound
    <2> HIDE DEF res
    <2> QED
      BY <2>1, <2>3, <1>refl, HoldStep, ZenonT(30)
  <1>4. ASSUME NEW u \in Callers, NEW d \in Digest, Accept(u, d)
        PROVE  IInv' /\ Continues(accepted', accepted)
    <2> DEFINE accepts == Accepts(accepted, d, held[u])
    <2>1. /\ AdvanceIf(accepts, d, held[u]) /\ held' = [held EXCEPT ![u] = NoResult]
          /\ policy' = policy /\ Sound(held[u])
      BY <1>4 DEF Accept, IInv, HeldSound
    <2>2. accepts => /\ CanAdvance(d, accepted) /\ held[u].catalogDigest = d
                     /\ held[u].verdict = "accept"
      BY DEF Accepts, Binds
    <2>3. accepts \in BOOLEAN
      BY DEF Accepts
    <2> HIDE DEF accepts
    <2>4. /\ StateType(accepted)' /\ HistoryIsChain' /\ Continues(accepted', accepted)
          /\ EveryGenerationVerified'
          /\ \A r \in admitted' : r.catalogDigest \in Digest
      BY <2>1, <2>2, <2>3, AdvanceStep DEF Sound
    <2>5. HeldSound' /\ \A v \in Callers : held'[v] # NoResult => held'[v].catalogDigest \in Digest
      BY <2>1, SpendStep, ZenonT(30)
    <2> QED
      BY <2>1, <2>4, <2>5 DEF IInv, RegistryTypeOK, PolicyIsRecord
  <1>5. ASSUME NEW u \in Callers, NEW b \in Digest, NEW d \in Digest, AcceptDelta(u, b, d)
        PROVE  IInv' /\ Continues(accepted', accepted)
    <2> DEFINE accepts == AcceptsDelta(accepted, b, d, held[u])
    <2>1. /\ AdvanceIf(accepts, d, held[u]) /\ held' = [held EXCEPT ![u] = NoResult]
          /\ policy' = policy /\ Sound(held[u])
      BY <1>5 DEF AcceptDelta, IInv, HeldSound
    <2>2. accepts => /\ CanAdvance(d, accepted) /\ held[u].catalogDigest = d
                     /\ held[u].verdict = "accept"
      BY DEF AcceptsDelta, Binds
    <2>3. accepts \in BOOLEAN
      BY DEF AcceptsDelta
    <2> HIDE DEF accepts
    <2>4. /\ StateType(accepted)' /\ HistoryIsChain' /\ Continues(accepted', accepted)
          /\ EveryGenerationVerified'
          /\ \A r \in admitted' : r.catalogDigest \in Digest
      BY <2>1, <2>2, <2>3, AdvanceStep DEF Sound
    <2>5. HeldSound' /\ \A v \in Callers : held'[v] # NoResult => held'[v].catalogDigest \in Digest
      BY <2>1, SpendStep, ZenonT(30)
    <2> QED
      BY <2>1, <2>4, <2>5 DEF IInv, RegistryTypeOK, PolicyIsRecord
  <1>6. ASSUME NEW d \in Digest, NEW k \in CertName, AcceptSigned(d, k)
        PROVE  IInv' /\ Continues(accepted', accepted)
    <2> DEFINE res == Result("accept", "snapshot", d, k, CallerRoots)
               accepts == Decide(d, k, CallerRoots, policy, accepted) /\ Accepts(accepted, d, res)
    <2>1. AdvanceIf(accepts, d, res) /\ UNCHANGED <<policy, held>>
      BY <1>6 DEF AcceptSigned
    <2>2. accepts => Sound(res)
      BY SnapshotSound
    <2>3. res.catalogDigest = d /\ res.verdict = "accept"
      BY DEF Result
    <2>4. accepts \in BOOLEAN /\ (accepts => CanAdvance(d, accepted))
      BY DEF Accepts
    <2> HIDE DEF res, accepts
    <2>5. /\ StateType(accepted)' /\ HistoryIsChain' /\ Continues(accepted', accepted)
          /\ EveryGenerationVerified'
          /\ \A r \in admitted' : r.catalogDigest \in Digest
      BY <2>1, <2>2, <2>3, <2>4, AdvanceStep DEF Sound
    <2> QED
      BY <2>1, <2>5 DEF IInv, RegistryTypeOK, PolicyIsRecord, HeldSound, Sound, Binds
  <1>7. CASE PassTime
    <2>1. /\ UNCHANGED <<accepted, held, admitted>>
          /\ policy'.observedAt = policy.observedAt + 1
          /\ policy.observedAt < MaxTime /\ PolicyIsRecord'
      BY <1>7 DEF PassTime, IInv, PolicyIsRecord
    <2>2. policy'.observedAt \in 0 .. MaxTime
      BY <2>1, MaxTimeAssumption DEF IInv, RegistryTypeOK
    <2> QED
      BY <2>1, <2>2, <1>refl
      DEF IInv, RegistryTypeOK, HistoryIsChain, HeldSound, Sound, Binds, EveryGenerationVerified
  <1>8. CASE Configure
    <2>1. /\ UNCHANGED <<accepted, held, admitted>>
          /\ policy'.observedAt = policy.observedAt /\ PolicyIsRecord'
      BY <1>8, PolicyAssumption DEF Configure, PolicyIsRecord
    <2> QED
      BY <2>1, <1>refl
      DEF IInv, RegistryTypeOK, HistoryIsChain, HeldSound, Sound, Binds, EveryGenerationVerified
  <1>9. CASE UNCHANGED registryVars
    BY <1>9, <1>refl
    DEF registryVars, IInv, RegistryTypeOK, HistoryIsChain, PolicyIsRecord, HeldSound, Sound, Binds,
        EveryGenerationVerified
  <1> QED
    BY <1>1, <1>2, <1>3, <1>4, <1>5, <1>6, <1>7, <1>8, <1>9 DEF RegistryNext

(* IInv holds throughout. *)
THEOREM Invariance == RegistrySpec => []IInv
  BY InitIInv, NextIInv, PTL DEF RegistrySpec

(* Types of the state, of the results in flight and of the admitted ones. *)
THEOREM TypeCorrect == RegistrySpec => []RegistryTypeOK
  <1>1. IInv => RegistryTypeOK
    BY DEF IInv
  <1> QED
    BY <1>1, Invariance, PTL

(* The history that Accept and AcceptDelta leave is one linked chain.  *)
THEOREM HistoryStaysChain == RegistrySpec => []HistoryIsChain
  <1>1. IInv => HistoryIsChain
    BY DEF IInv
  <1> QED
    BY <1>1, Invariance, PTL

(* No step rolls the accepted generation back or rewrites a record. *)
THEOREM NeverRollsBack == RegistrySpec => NoRollback
  <1>1. IInv /\ [RegistryNext]_registryVars => [Continues(accepted', accepted)]_registryVars
    BY NextIInv
  <1> QED
    BY <1>1, Invariance, PTL DEF RegistrySpec, NoRollback

(* Every accepted generation passed all checks of the snapshot path. *)
THEOREM GenerationsAreVerified == RegistrySpec => []EveryGenerationVerified
  <1>1. IInv => EveryGenerationVerified
    BY DEF IInv
  <1> QED
    BY <1>1, Invariance, PTL

(* An accept result decided against the current state is never refused. *)
THEOREM VerifiedIsAcceptable == RegistrySpec => []VerifiedMeansAcceptable
  <1>1. IInv => VerifiedMeansAcceptable
    <2> SUFFICES ASSUME IInv, NEW u \in Callers, held[u] # NoResult,
                        held[u].signatureVerified, held[u].verdict = "accept",
                        held[u].state = accepted
                 PROVE  Accepts(accepted, held[u].catalogDigest, held[u])
      BY DEF VerifiedMeansAcceptable
    <2> DEFINE res == held[u]
    <2>1. Sound(res) /\ StateType(accepted) /\ IsChain(accepted)
      BY DEF IInv, HeldSound, RegistryTypeOK, HistoryIsChain
    <2> HIDE DEF res
    <2>2. /\ res.catalogDigest \in Digest /\ Binds(res, res.catalogDigest)
          /\ Decide(res.catalogDigest, res.signer, res.roots, res.policy, accepted)
      BY <2>1 DEF Sound, res
    <2>3. CanAdvance(res.catalogDigest, accepted)
      BY <2>1, <2>2, DecideImpliesCanAdvance
    <2> QED
      BY <2>2, <2>3 DEF Accepts, res
  <1> QED
    BY <1>1, Invariance, PTL

(* The delta path decides nothing that the snapshot path would refuse. *)
THEOREM DeltaNeverShortcut == RegistrySpec => []DeltaIsNoShortcut
  <1>1. IInv => DeltaIsNoShortcut
    BY DeltaImpliesSnapshot DEF IInv, RegistryTypeOK, HistoryIsChain, DeltaIsNoShortcut
  <1> QED
    BY <1>1, Invariance, PTL

--------------------------------------------------------------------------------
(* What the rotation entry point decided of a result: the root is one of   *)
(* the window's, and an accept excludes the revoked keys.                  *)
Anchored(res) ==
    res.via = "rotation" =>
        /\ Rotation.next # {} /\ res.policy.observedAt >= Rotation.overlapUntil
              => CertOf[res.signer].root \in Rotation.next
        /\ res.verdict = "accept" => CertOf[res.signer].key \notin Rotation.revokedKeys

RInv ==
    /\ \A u \in Callers : held[u] # NoResult => Anchored(held[u])
    /\ \A res \in admitted : Anchored(res) /\ res.verdict = "accept"

(* The roots of the window at or after its end are the next set alone. *)
LEMMA WindowCloses ==
    ASSUME NEW now \in Int, Rotation.next # {}, now >= Rotation.overlapUntil
    PROVE  RootsAt(now) = Rotation.next
  BY RotationAssumption DEF RootsAt

(* A result of the rotation entry point is anchored when it is made. *)
LEMMA RotationResultAnchored ==
    ASSUME RegistryTypeOK, NEW d \in Digest, NEW k \in CertName, NEW v,
           v = "accept" => CertOf[k].key \notin Rotation.revokedKeys,
           Decide(d, k, RootsAt(policy.observedAt), policy, accepted)
    PROVE  Anchored(Result(v, "rotation", d, k, RootsAt(policy.observedAt)))
  <1>1. CertOf[k].root \in RootsAt(policy.observedAt)
    BY DEF Decide, AcceptableSource, VerifySigner
  <1>2. policy.observedAt \in Int
    BY MaxTimeAssumption DEF RegistryTypeOK
  <1>3. Rotation.next # {} /\ policy.observedAt >= Rotation.overlapUntil
           => CertOf[k].root \in Rotation.next
    BY <1>1, <1>2, WindowCloses
  <1> DEFINE res == Result(v, "rotation", d, k, RootsAt(policy.observedAt))
  <1>4. res.signer = k /\ res.policy = policy /\ res.verdict = v
    BY DEF Result
  <1> HIDE DEF res
  <1> QED
    BY <1>3, <1>4 DEF Anchored, res

(* Every step keeps what is known of results of the rotation entry point. *)
LEMMA NextRInv == IInv /\ RInv /\ [RegistryNext]_registryVars => RInv'
  <1> SUFFICES ASSUME IInv, RInv, [RegistryNext]_registryVars PROVE RInv'
    OBVIOUS
  <1>0. RegistryTypeOK
    BY DEF IInv
  <1>hold. ASSUME NEW u \in Callers, NEW res, held' = [held EXCEPT ![u] = res],
                  admitted' = admitted, res # NoResult => Anchored(res)
           PROVE  RInv'
    BY <1>hold DEF RInv, Anchored
  <1>spend. ASSUME NEW u \in Callers, NEW d, NEW ok, held[u] # NoResult,
                   AdvanceIf(ok, d, held[u]), held' = [held EXCEPT ![u] = NoResult],
                   ok => held[u].verdict = "accept"
            PROVE  RInv'
    <2>1. admitted' # admitted => admitted' = admitted \cup {held[u]} /\ held[u].verdict = "accept"
      BY <1>spend DEF AdvanceIf
    <2> QED
      BY <1>spend, <2>1 DEF RInv, Anchored
  <1>1. ASSUME NEW u \in Callers, NEW d \in Digest, NEW k \in CertName, VerifySigned(u, d, k)
        PROVE  RInv'
    <2> DEFINE res == Result("accept", "snapshot", d, k, CallerRoots)
    <2>1. Anchored(res)
      BY DEF Anchored, Result
    <2>2. admitted' = admitted /\ \E r \in {res, NoResult} : held' = [held EXCEPT ![u] = r]
      BY <1>1, ZenonT(30) DEF VerifySigned
    <2> HIDE DEF res
    <2> QED
      BY <2>1, <2>2, <1>hold, ZenonT(30)
  <1>2. ASSUME NEW u \in Callers, NEW d \in Digest, NEW k \in CertName,
               RotationVerifySigned(u, d, k)
        PROVE  RInv'
    <2> DEFINE roots == RootsAt(policy.observedAt)
               verdict == IF CertOf[k].key \in Rotation.revokedKeys THEN "reject" ELSE "accept"
               res == IF Decide(d, k, roots, policy, accepted)
                      THEN Result(verdict, "rotation", d, k, roots) ELSE NoResult
    <2>1. held' = [held EXCEPT ![u] = res] /\ admitted' = admitted
      BY <1>2 DEF RotationVerifySigned
    <2>2. verdict = "accept" => CertOf[k].key \notin Rotation.revokedKeys
      OBVIOUS
    <2> HIDE DEF verdict
    <2>3. res # NoResult => Anchored(res)
      BY <1>0, <2>2, RotationResultAnchored
    <2> HIDE DEF res
    <2> QED
      BY <2>1, <2>3, <1>hold, ZenonT(30)
  <1>3. ASSUME NEW u \in Callers, NEW x \in DeltaName, NEW b \in Digest, NEW k \in CertName,
               NEW w \in BOOLEAN, VerifySignedDelta(u, x, b, k, w)
        PROVE  RInv'
    <2> DEFINE res == Result("accept", "delta", DeltaOf[x].targetDigest, k, CallerRoots)
    <2>1. Anchored(res)
      BY DEF Anchored, Result
    <2>2. admitted' = admitted /\ \E r \in {res, NoResult} : held' = [held EXCEPT ![u] = r]
      BY <1>3, ZenonT(30) DEF VerifySignedDelta
    <2> HIDE DEF res
    <2> QED
      BY <2>1, <2>2, <1>hold, ZenonT(30)
  <1>4. ASSUME NEW u \in Callers, NEW d \in Digest, Accept(u, d) PROVE RInv'
    <2>1. Accepts(accepted, d, held[u]) => held[u].verdict = "accept"
      BY DEF Accepts
    <2> QED
      BY <1>4, <2>1, <1>spend, ZenonT(30) DEF Accept
  <1>5. ASSUME NEW u \in Callers, NEW b \in Digest, NEW d \in Digest, AcceptDelta(u, b, d)
        PROVE  RInv'
    <2>1. AcceptsDelta(accepted, b, d, held[u]) => held[u].verdict = "accept"
      BY DEF AcceptsDelta
    <2> QED
      BY <1>5, <2>1, <1>spend, ZenonT(30) DEF AcceptDelta
  <1>6. ASSUME NEW d \in Digest, NEW k \in CertName, AcceptSigned(d, k) PROVE RInv'
    <2> DEFINE res == Result("accept", "snapshot", d, k, CallerRoots)
    <2>1. Anchored(res) /\ res.verdict = "accept"
      BY ZenonT(30) DEF Anchored, Result
    <2>2. held' = held /\ admitted' \subseteq admitted \cup {res}
      BY <1>6 DEF AcceptSigned, AdvanceIf
    <2> HIDE DEF res
    <2> QED
      BY <2>1, <2>2 DEF RInv, Anchored
  <1>7. CASE PassTime
    BY <1>7 DEF PassTime, RInv, Anchored
  <1>8. CASE Configure
    BY <1>8 DEF Configure, RInv, Anchored
  <1>9. CASE UNCHANGED registryVars
    BY <1>9 DEF registryVars, RInv, Anchored
  <1> QED
    BY <1>1, <1>2, <1>3, <1>4, <1>5, <1>6, <1>7, <1>8, <1>9 DEF RegistryNext

(* After overlap_until the rotation entry point trusts the next set alone, *)
(* whatever the clock, the policy and the callers do between verification  *)
(* and acceptance, and no generation is admitted from a revoked key.       *)
THEOREM RetiredAnchorsStayRefused == RegistrySpec => []RetiredAnchorsRefused
  <1>1. RegistryInit => RInv
    BY DEF RegistryInit, RInv
  <1>2. RInv => RetiredAnchorsRefused
    BY DEF RInv, Anchored, RetiredAnchorsRefused
  <1> QED
    BY <1>1, <1>2, NextRInv, Invariance, PTL DEF RegistrySpec

--------------------------------------------------------------------------------
(* On a chain digestAt reads the one record of a generation. *)
LEMMA DigestAtReads ==
    ASSUME NEW s, StateType(s), IsChain(s), NEW r \in s.history
    PROVE  DigestAt(s, r.generation) = r.digest
  <1>1. CASE r.generation = s.generation
    <2>1. s.generation # 0
      BY <1>1 DEF IsChain, EachGenerationOnce, StateType
    <2> DEFINE head == [generation |-> s.generation, digest |-> s.digest]
    <2>2. head \in s.history
      BY <2>1 DEF IsChain, HeadRecorded
    <2>3. r = head
      BY <1>1, <2>2 DEF IsChain, EachGenerationOnce
    <2>4. DigestAt(s, r.generation) = s.digest
      BY <1>1 DEF DigestAt
    <2> QED
      BY <2>3, <2>4
  <1>2. CASE r.generation # s.generation
    <2> DEFINE q == CHOOSE q \in s.history : q.generation = r.generation
    <2>1. q \in s.history /\ q.generation = r.generation
      OBVIOUS
    <2>2. q = r
      BY <2>1 DEF IsChain, EachGenerationOnce
    <2> QED
      BY <1>2, <2>2, ZenonT(30) DEF DigestAt
  <1> QED
    BY <1>1, <1>2

ChainOf(s) == [g \in 1 .. s.generation |-> DigestAt(s, g)]

(* A later state of a chain reads the same digests at the old generations. *)
LEMMA OldDigestsKept ==
    ASSUME NEW s, StateType(s), IsChain(s), NEW t, StateType(t), IsChain(t), Continues(t, s),
           NEW g \in 1 .. s.generation
    PROVE  DigestAt(t, g) = DigestAt(s, g)
  <1>1. PICK r \in s.history : r.generation = g
    BY DEF IsChain, EachGenerationOnce
  <1>2. r \in t.history
    BY DEF Continues
  <1> QED
    BY <1>1, <1>2, DigestAtReads

(* Sequences are equal when their elements are. *)
LEMMA SameElements ==
    ASSUME NEW S, NEW s \in Seq(S), NEW t \in Seq(S), Len(s) = Len(t),
           \A i \in 1 .. Len(s) : s[i] = t[i]
    PROVE  s = t
  OBVIOUS

(* advance appends exactly the new digest to the chain. *)
LEMMA ChainExtends ==
    ASSUME NEW s, StateType(s), IsChain(s), NEW d \in Digest, CanAdvance(d, s),
           CatalogOf[d].generation # s.generation
    PROVE  /\ ChainOf(Advance(d, s)) = Append(ChainOf(s), d)
           /\ CatalogOf[d].previousDigest =
                 IF ChainOf(s) = <<>> THEN NoDigest ELSE ChainOf(s)[Len(ChainOf(s))]
  <1> DEFINE t == Advance(d, s)
             n == s.generation
  <1>1. StateType(t) /\ IsChain(t) /\ Continues(t, s)
    BY AdvancePreservesChain
  <1>2. t.generation = n + 1 /\ t.digest = d /\ CatalogOf[d].previousDigest = s.digest
    BY AdvanceAppends
  <1>3. n \in Nat
    BY DEF StateType
  <1> HIDE DEF t
  <1>4. \A g \in 1 .. n : DigestAt(t, g) = DigestAt(s, g)
    BY <1>1, OldDigestsKept
  <1>5. DigestAt(t, n + 1) = d
    BY <1>2 DEF DigestAt
  <1>6. DigestAt(s, n) = s.digest
    BY DEF DigestAt
  <1>7. \A g \in 1 .. n : DigestAt(s, g) \in Digest
    <2> TAKE g \in 1 .. n
    <2>1. PICK r \in s.history : r.generation = g
      BY DEF IsChain, EachGenerationOnce
    <2> QED
      BY <2>1, DigestAtReads DEF StateType, Records
  <1>8. ChainOf(s) \in Seq(Digest) /\ Len(ChainOf(s)) = n
    BY <1>3, <1>7 DEF ChainOf
  <1>9. ChainOf(t) \in Seq(Digest) /\ Len(ChainOf(t)) = n + 1
    <2>1. \A g \in 1 .. n + 1 : DigestAt(t, g) \in Digest
      BY <1>3, <1>4, <1>5, <1>7
    <2> QED
      BY <2>1, <1>2, <1>3 DEF ChainOf
  <1>10. ChainOf(t) = Append(ChainOf(s), d)
    <2>1. /\ Append(ChainOf(s), d) \in Seq(Digest) /\ Len(Append(ChainOf(s), d)) = n + 1
          /\ \A g \in 1 .. n : Append(ChainOf(s), d)[g] = ChainOf(s)[g]
          /\ Append(ChainOf(s), d)[n + 1] = d
      BY <1>8
    <2>2. \A g \in 1 .. n : ChainOf(t)[g] = ChainOf(s)[g]
      BY <1>2, <1>3, <1>4 DEF ChainOf
    <2>3. ChainOf(t)[n + 1] = d
      BY <1>2, <1>3, <1>5 DEF ChainOf
    <2>4. \A g \in 1 .. n + 1 : ChainOf(t)[g] = Append(ChainOf(s), d)[g]
      BY <2>1, <2>2, <2>3, <1>3
    <2> QED
      BY <2>1, <2>4, <1>9, SameElements, ZenonT(30)
  <1>11. ASSUME ChainOf(s) = <<>> PROVE s.digest = NoDigest
    <2>1. n = 0
      BY <1>11, <1>8
    <2> QED
      BY <2>1 DEF IsChain, HeadRecorded, EmptyState
  <1>12. ASSUME ChainOf(s) # <<>> PROVE ChainOf(s)[Len(ChainOf(s))] = s.digest
    <2>1. n # 0
      BY <1>12, <1>8
    <2> QED
      BY <2>1, <1>3, <1>6, <1>8 DEF ChainOf
  <1> QED
    BY <1>2, <1>10, <1>11, <1>12 DEF t
(* A step of the registry extends the chain, or leaves it as it is. *)
LEMMA StepExtendsChain ==
    ASSUME IInv, [RegistryNext]_registryVars
    PROVE  \/ accepted' = accepted
           \/ \E d \in Digest : /\ accepted' = Advance(d, accepted)
                                /\ CanAdvance(d, accepted)
                                /\ CatalogOf[d].generation # accepted.generation
  <1>1. ASSUME NEW d \in Digest, NEW res, NEW ok, AdvanceIf(ok, d, res), ok => CanAdvance(d, accepted),
               accepted' # accepted
        PROVE  /\ accepted' = Advance(d, accepted) /\ CanAdvance(d, accepted)
               /\ CatalogOf[d].generation # accepted.generation
    BY <1>1 DEF AdvanceIf, Advance
  <1>2. ASSUME NEW u \in Callers, NEW d \in Digest, Accept(u, d), accepted' # accepted
        PROVE  /\ accepted' = Advance(d, accepted) /\ CanAdvance(d, accepted)
               /\ CatalogOf[d].generation # accepted.generation
    BY <1>2, <1>1, ZenonT(30) DEF Accept, Accepts
  <1>3. ASSUME NEW u \in Callers, NEW b \in Digest, NEW d \in Digest, AcceptDelta(u, b, d),
               accepted' # accepted
        PROVE  /\ accepted' = Advance(d, accepted) /\ CanAdvance(d, accepted)
               /\ CatalogOf[d].generation # accepted.generation
    BY <1>3, <1>1, ZenonT(30) DEF AcceptDelta, AcceptsDelta
  <1>4. ASSUME NEW d \in Digest, NEW k \in CertName, AcceptSigned(d, k), accepted' # accepted
        PROVE  /\ accepted' = Advance(d, accepted) /\ CanAdvance(d, accepted)
               /\ CatalogOf[d].generation # accepted.generation
    BY <1>4, <1>1, ZenonT(30) DEF AcceptSigned, Accepts
  <1> QED
    BY <1>2, <1>3, <1>4, ZenonT(30)
    DEF RegistryNext, registryVars, VerifySigned, RotationVerifySigned, VerifySignedDelta, PassTime, Configure

(* The accepted state implements the append-only chain. *)
THEOREM RegistryImplementsChain == RegistrySpec => ImplementsChain
  <1>1. RegistryInit => ChainSpec!Init
    BY DEF RegistryInit, EmptyState, ChainSpec!Init
  <1>2. IInv /\ [RegistryNext]_registryVars => [ChainSpec!Next]_(ChainOf(accepted))
    <2> SUFFICES ASSUME IInv, [RegistryNext]_registryVars
                 PROVE  \/ ChainOf(accepted)' = ChainOf(accepted)
                        \/ ChainSpec!Next
      OBVIOUS
    <2>1. CASE accepted' = accepted
      BY <2>1
    <2>2. ASSUME NEW d \in Digest, accepted' = Advance(d, accepted), CanAdvance(d, accepted),
                 CatalogOf[d].generation # accepted.generation
          PROVE  ChainSpec!Next
      <3>1. /\ ChainOf(accepted)' = Append(ChainOf(accepted), d)
            /\ CatalogOf[d].previousDigest =
                  IF ChainOf(accepted) = <<>> THEN NoDigest
                  ELSE ChainOf(accepted)[Len(ChainOf(accepted))]
        BY <2>2, ChainExtends DEF IInv, RegistryTypeOK, HistoryIsChain
      <3> QED
        BY <3>1, ZenonT(30) DEF ChainSpec!Next, ChainSpec!Extend, ChainSpec!Newest, ChainOf
    <2> QED
      BY <2>1, <2>2, StepExtendsChain
  <1>3. IInv /\ [RegistryNext]_registryVars => [ChainSpec!Next]_([g \in 1 .. accepted.generation |-> DigestAt(accepted, g)])
    BY <1>2 DEF ChainOf
  <1> QED
    BY <1>1, <1>3, Invariance, PTL DEF RegistrySpec, ImplementsChain, ChainSpec!Spec
================================================================================
