-------------------------- MODULE RulePublicationProofs --------------------------
(***************************************************************************)
(* What a gateway serves was released, for any trees, publishers, signers  *)
(* and rules, whatever is published, edited or interrupted meanwhile.      *)
(* A publication that ran alone over steady sources is what its manifest   *)
(* says, and a walk over a finished one does not fail.                     *)
(***************************************************************************)
EXTENDS RulePublication, TLAPS

(* The time limits of the provers, in seconds: Zenon is tried, then SMT. *)
USE ZenonT(10), SMTT(30)

(* The walk's record, its directories, and what it knows of the one it is  *)
(* at: the file is still the bytes it verified unless it was written to,   *)
(* and the directory's own scheme has no plugin yet.                       *)
WalkInv ==
    /\ loader = [pc |-> loader.pc, todo |-> loader.todo, read |-> loader.read, by |-> loader.by,
                 rewritten |-> loader.rewritten, failed |-> loader.failed]
    /\ loader.todo \in Seq(Schemes)
    /\ loader.pc # "idle" => loader.todo # <<>>
    /\ loader.pc = "rule" => loader.by \in TrustedSigners
    /\ loader.pc \in {"signature", "rule"} =>
          /\ loader.rewritten \/ files[Published] = loader.read
          /\ plugins[Visited] = Absent

(* Whatever is in the published tree was written there by a publisher. *)
TreeInv ==
    /\ DOMAIN files = Paths /\ DOMAIN written = Paths
    /\ \A f \in Paths : files[f] \in {Absent, Torn} \cup written[f]

PInv ==
    /\ TreeInv /\ WalkInv /\ ServesAReleasedRule
    /\ DOMAIN plugins = Schemes
    /\ \A s \in Loaded : plugins[s].dir \in Schemes

(* A walk visits directories of the published tree. *)
LEMMA VisitedPath ==
    ASSUME WalkInv, loader.pc # "idle"
    PROVE  Visited \in Schemes /\ Published \in Paths
  BY DEF WalkInv, Visited, Published, Paths, Default

(* PInv holds at the start, and is kept ... *)
LEMMA InitPInv == Init => PInv
  <1> SUFFICES ASSUME Init PROVE PInv
    OBVIOUS
  <1>1. TreeInv
    BY DEF Init, TreeInv
  <1>2. loader = Resting
    BY ZenonT(30) DEF Init
  <1>3. WalkInv
    BY <1>2 DEF Resting, WalkInv
  <1>4. plugins = [s \in Schemes |-> IF s \in left.configured THEN Builtin ELSE Absent]
    BY ZenonT(30) DEF Init
  <1>5. Loaded = {}
    BY <1>4 DEF Loaded
  <1> QED
    BY <1>1, <1>3, <1>4, <1>5 DEF PInv, ServesAReleasedRule

(* A step that writes neither rules nor plugins and leaves the walk alone. *)
LEMMA Apart ==
    ASSUME PInv, UNCHANGED <<files, written, loader, plugins>>
    PROVE  PInv'
  BY DEF PInv, TreeInv, WalkInv, ServesAReleasedRule, Loaded, Published, Visited

(* A publisher's write, wherever it goes. *)
LEMMA Touched ==
    ASSUME PInv, NEW path, UNCHANGED plugins,
           loader' = [loader EXCEPT !.rewritten =
                        @ \/ (loader.pc # "idle" /\ path = <<Head(loader.todo), Default>>)],
           DOMAIN files' = Paths, DOMAIN written' = Paths,
           \A f \in Paths : f # path => files'[f] = files[f],
           \A f \in Paths : files'[f] \in {Absent, Torn} \cup written'[f],
           \A f \in Paths : written[f] \subseteq written'[f]
    PROVE  PInv'
  <1>1. TreeInv'
    BY DEF TreeInv
  <1>2. /\ loader'.pc = loader.pc /\ loader'.todo = loader.todo /\ loader'.read = loader.read
        /\ loader'.by = loader.by /\ loader'.failed = loader.failed
        /\ loader'.rewritten =
             (loader.rewritten \/ (loader.pc # "idle" /\ path = <<Head(loader.todo), Default>>))
        /\ loader' = [pc |-> loader'.pc, todo |-> loader'.todo, read |-> loader'.read,
                      by |-> loader'.by, rewritten |-> loader'.rewritten,
                      failed |-> loader'.failed]
    BY DEF PInv, WalkInv
  <1>3. ASSUME loader.pc \in {"signature", "rule"}
        PROVE  loader'.rewritten \/ files'[Published] = loader.read
    <2>1. Published \in Paths
      BY <1>3, VisitedPath DEF PInv
    <2>2. CASE path = Published
      BY <1>2, <1>3, <2>2, ZenonT(30) DEF Published, Visited
    <2>3. CASE path # Published
      BY <1>2, <1>3, <2>1, <2>3, ZenonT(30) DEF PInv, WalkInv
    <2> QED
      BY <2>2, <2>3
  <1>4. Published' = Published /\ Visited' = Visited
    BY <1>2 DEF Published, Visited
  <1>5. WalkInv'
    BY <1>2, <1>3, <1>4 DEF PInv, WalkInv
  <1>6. ASSUME NEW s \in Loaded PROVE written[<<plugins[s].dir, Default>>]
                                       \subseteq written'[<<plugins[s].dir, Default>>]
    BY <1>6 DEF PInv, Paths
  <1>7. ServesAReleasedRule' /\ Loaded' = Loaded
    BY <1>6 DEF PInv, ServesAReleasedRule, Loaded
  <1> QED
    BY <1>1, <1>5, <1>7 DEF PInv

(* ... by a publisher, ... *)
LEMMA PublisherStep ==
    ASSUME PInv, NEW p \in Publishers,
           OpenRule(p) \/ WriteRule(p) \/ OpenSignature(p) \/ WriteSignature(p)
    PROVE  PInv'
  <1> DEFINE path == To(Job(p))
  <1>1. /\ UNCHANGED plugins
        /\ loader' = [loader EXCEPT !.rewritten =
                        @ \/ (loader.pc # "idle" /\ path = <<Head(loader.todo), Default>>)]
    BY DEF OpenRule, WriteRule, OpenSignature, WriteSignature, Disturb
  <1> HIDE DEF path
  <1>2. CASE OpenRule(p)
    <2>1. files' = [files EXCEPT ![path] = Torn] /\ written' = written
      BY <1>2 DEF OpenRule, path
    <2> QED
      BY <1>1, <2>1, Touched DEF PInv, TreeInv
  <1>3. CASE WriteRule(p)
    <2>1. /\ files' = [files EXCEPT ![path] = pub[p].data]
          /\ written' = [written EXCEPT ![path] = @ \union {pub[p].data}]
      BY <1>3 DEF WriteRule, path
    <2> QED
      BY <1>1, <2>1, Touched DEF PInv, TreeInv
  <1>4. CASE OpenSignature(p) \/ WriteSignature(p)
    <2>1. files' = files /\ written' = written
      BY <1>4 DEF OpenSignature, WriteSignature
    <2> QED
      BY <1>1, <2>1, Touched DEF PInv, TreeInv
  <1> QED
    BY <1>2, <1>3, <1>4

(* ... by the start of a load, ... *)
LEMMA LoadStep == ASSUME PInv, NEW restarted \in BOOLEAN, Load(restarted) PROVE PInv'
  <1>1. /\ files' = files /\ written' = written
        /\ loader' = [Resting EXCEPT !.pc = "visit", !.todo = SchemeOrder]
    BY DEF Load, treeVars
  <1>2. TreeInv' /\ WalkInv'
    BY <1>1, PublicationAssumption, ZenonT(30) DEF PInv, TreeInv, WalkInv, Resting
  <1>3. CASE ~restarted
    BY <1>1, <1>2, <1>3 DEF Load, PInv, ServesAReleasedRule, Loaded
  <1>4. CASE restarted
    <2>1. plugins' = [s \in Schemes |-> IF s \in left.configured THEN Builtin ELSE Absent]
      BY <1>4 DEF Load
    <2>2. Loaded' = {}
      BY <2>1 DEF Loaded
    <2> QED
      BY <1>2, <2>1, <2>2 DEF PInv, ServesAReleasedRule
  <1> QED
    BY <1>3, <1>4

(* Where the walk goes from a directory it is done with, or fails at. *)
LEMMA Onward ==
    ASSUME PInv, loader.pc # "idle", loader' = Advance \/ Fail, UNCHANGED <<files, written>>
    PROVE  TreeInv' /\ WalkInv'
  <1>1. TreeInv'
    BY DEF PInv, TreeInv
  <1>2. CASE Fail
    <2>1. loader' = [pc |-> "idle", todo |-> <<>>, read |-> Absent, by |-> Absent,
                     rewritten |-> FALSE, failed |-> TRUE]
      BY <1>2, ZenonT(30) DEF Fail, Resting
    <2> QED
      BY <1>1, <2>1 DEF WalkInv
  <1>3. CASE loader' = Advance
    <2>1. /\ loader.todo \in Seq(Schemes) /\ loader.todo # <<>>
      BY DEF PInv, WalkInv
    <2>2. /\ loader' = [Resting EXCEPT !.pc = IF Len(loader.todo) = 1 THEN "idle" ELSE "visit",
                                      !.todo = Tail(loader.todo)]
      BY <1>3 DEF Advance
    <2>3. Tail(loader.todo) \in Seq(Schemes)
      BY <2>1
    <2>4. Len(loader.todo) # 1 => Tail(loader.todo) # <<>>
      <3>1. Len(loader.todo) \in Nat /\ Len(loader.todo) # 0
        BY <2>1
      <3>2. Len(Tail(loader.todo)) = Len(loader.todo) - 1
        BY <2>1, <3>1
      <3>3. Len(<<>>) = 0
        OBVIOUS
      <3>4. ASSUME Tail(loader.todo) = <<>> PROVE Len(Tail(loader.todo)) = 0
        BY <3>3, <3>4, ZenonT(30)
      <3> QED
        BY <3>1, <3>2, <3>4
    <2> QED
      BY <1>1, <2>2, <2>3, <2>4, ZenonT(30) DEF Resting, WalkInv
  <1> QED
    BY <1>2, <1>3

(* ... by the first read of a rule, ... *)
LEMMA VisitStep == ASSUME PInv, Visit PROVE PInv'
  <1>1. /\ files' = files /\ written' = written /\ plugins' = plugins /\ loader.pc = "visit"
    BY DEF Visit, Walking, treeVars
  <1>2. ServesAReleasedRule' /\ Loaded' = Loaded
    BY <1>1 DEF PInv, ServesAReleasedRule, Loaded
  <1>3. CASE loader' = Advance
    BY <1>1, <1>2, <1>3, Onward DEF PInv
  <1>4. CASE loader' # Advance
    <2>1. /\ plugins[Visited] = Absent
          /\ loader' = [loader EXCEPT !.pc = "signature", !.read = files[Published], !.rewritten = FALSE]
      BY <1>4 DEF Visit
    <2>2. WalkInv'
      BY <1>1, <2>1, ZenonT(30) DEF PInv, WalkInv, Published, Visited
    <2>3. TreeInv'
      BY <1>1 DEF PInv, TreeInv
    <2> QED
      BY <1>1, <1>2, <2>2, <2>3 DEF PInv
  <1> QED
    BY <1>3, <1>4

(* ... by the read of its signature, ... *)
LEMMA ReadSignatureStep == ASSUME PInv, ReadSignature PROVE PInv'
  <1>1. /\ files' = files /\ written' = written /\ plugins' = plugins /\ loader.pc = "signature"
    BY DEF ReadSignature, Walking, treeVars
  <1>2. ServesAReleasedRule' /\ Loaded' = Loaded
    BY <1>1 DEF PInv, ServesAReleasedRule, Loaded
  <1>3. CASE Fail
    BY <1>1, <1>2, <1>3, Onward DEF PInv
  <1>4. CASE ~Fail
    <2>1. /\ sigs[Published].by \in TrustedSigners
          /\ loader' = [loader EXCEPT !.pc = "rule", !.by = sigs[Published].by]
      BY <1>4 DEF ReadSignature, Verifies
    <2>2. WalkInv'
      BY <1>1, <2>1, ZenonT(30) DEF PInv, WalkInv, Published, Visited
    <2>3. TreeInv'
      BY <1>1 DEF PInv, TreeInv
    <2> QED
      BY <1>1, <1>2, <2>2, <2>3 DEF PInv
  <1> QED
    BY <1>3, <1>4

(* The rule that is registered: what LoadRule read is what ServesA-        *)
(* ReleasedRule asks for, and no plugin of the directory's own scheme is   *)
(* replaced.                                                               *)
LEMMA LoadRuleStep ==
    ASSUME PInv, LoadRule
    PROVE  /\ PInv'
           /\ \A s \in Schemes : plugins[s] # Absent /\ plugins'[s] # plugins[s] =>
                 plugins'[s].dir # s
  <1> DEFINE rule == files[Published]
  <1>1. /\ files' = files /\ written' = written /\ loader' = Advance /\ loader.pc = "rule"
        /\ Valid(rule) /\ RuleWithinSignerGrant(rule, Aic[loader.by])
        /\ plugins' = [plugins EXCEPT ![rule.scheme] = Plugin(rule)]
    BY DEF LoadRule, Loadable, Walking, treeVars
  <1>2. Visited \in Schemes /\ Published \in Paths
    BY <1>1, VisitedPath DEF PInv
  <1>3. rule \in written[<<Visited, Default>>]
    <2>1. rule \notin {Torn, Absent}
      BY <1>1 DEF Valid, LoadRuleBytes
    <2> QED
      BY <1>2, <2>1 DEF PInv, TreeInv, Published
  <1>4. loader.by \in TrustedSigners /\ (rule = loader.read \/ loader.rewritten)
        /\ plugins[Visited] = Absent
    BY <1>1 DEF PInv, WalkInv
  <1> HIDE DEF rule
  <1>5. /\ Plugin(rule).rule = rule /\ Plugin(rule).dir = Visited /\ Plugin(rule).by = loader.by
        /\ Plugin(rule).verified = loader.read /\ Plugin(rule).rewritten = loader.rewritten
    BY DEF Plugin
  <1>6. ASSUME NEW s \in Schemes
        PROVE  plugins'[s] = IF s = rule.scheme THEN Plugin(rule) ELSE plugins[s]
    BY <1>1 DEF PInv
  <1>7. ASSUME NEW s \in Loaded'
        PROVE  /\ plugins'[s].rule \in written'[<<plugins'[s].dir, Default>>]
               /\ Valid(plugins'[s].rule) /\ plugins'[s].rule.scheme = s
               /\ plugins'[s].by \in TrustedSigners
               /\ RuleWithinSignerGrant(plugins'[s].rule, Aic[plugins'[s].by])
               /\ plugins'[s].rule = plugins'[s].verified \/ plugins'[s].rewritten
               /\ plugins'[s].dir \in Schemes
    <2>1. s \in Schemes
      BY DEF Loaded
    <2>2. CASE s = rule.scheme
      <3>1. plugins'[s] = Plugin(rule)
        BY <1>6, <2>1, <2>2
      <3> QED
        BY <1>1, <1>2, <1>3, <1>4, <1>5, <2>2, <3>1
    <2>3. CASE s # rule.scheme
      <3>1. plugins'[s] = plugins[s] /\ s \in Loaded
        BY <1>6, <2>1, <2>3 DEF Loaded
      <3> QED
        BY <1>1, <3>1 DEF PInv, ServesAReleasedRule
    <2> QED
      BY <2>2, <2>3
  <1>8. TreeInv' /\ WalkInv'
    BY <1>1, Onward
  <1>9. PInv'
    BY <1>1, <1>7, <1>8, ZenonT(30) DEF PInv, ServesAReleasedRule
  <1>10. ASSUME NEW s \in Schemes, plugins[s] # Absent, plugins'[s] # plugins[s]
         PROVE  plugins'[s].dir # s
    BY <1>4, <1>5, <1>6, <1>10
  <1> QED
    BY <1>9, <1>10

(* ... by a failure of the walk, ... *)
LEMMA LoadFailsStep == ASSUME PInv, LoadFails PROVE PInv'
  <1>1. /\ files' = files /\ written' = written /\ plugins' = plugins
        /\ loader.pc = "rule" /\ Fail
    BY DEF LoadFails, Walking, treeVars
  <1>2. TreeInv' /\ WalkInv'
    BY <1>1, Onward
  <1> QED
    BY <1>1, <1>2 DEF PInv, ServesAReleasedRule, Loaded

(* The steps that only change the sources, or what a publisher holds. *)
LEMMA OtherSteps ==
    ASSUME PInv,
           \/ \E claims \in Claims, start \in Start, force \in BOOLEAN : Generate(claims, start, force)
           \/ OpenSource \/ FillSource \/ GenerateCrash
           \/ \E e \in Handwritten : Edit(e[1], e[2])
           \/ \E p \in Publishers : Publish(p) \/ ReadSource(p) \/ ReadBack(p) \/ PublisherCrash(p)
           \/ UNCHANGED vars
    PROVE  PInv'
  <1>1. UNCHANGED <<files, written, loader, plugins>>
    BY ZenonT(30) DEF Generate, OpenSource, FillSource, GenerateCrash, Edit, Publish, ReadSource, ReadBack,
           PublisherCrash, vars, treeVars
  <1> QED
    BY <1>1, Apart

(* ... and so by every step. *)
LEMMA NextPInv == PInv /\ [Next]_vars => PInv'
  <1> SUFFICES ASSUME PInv, [Next]_vars PROVE PInv'
    OBVIOUS
  <1>1. ASSUME NEW p \in Publishers,
               OpenRule(p) \/ WriteRule(p) \/ OpenSignature(p) \/ WriteSignature(p)
        PROVE  PInv'
    BY <1>1, PublisherStep
  <1>2. ASSUME NEW restarted \in BOOLEAN, Load(restarted) PROVE PInv'
    BY <1>2, LoadStep
  <1>3. CASE Visit \/ ReadSignature \/ LoadRule \/ LoadFails
    BY <1>3, VisitStep, ReadSignatureStep, LoadRuleStep, LoadFailsStep
  <1> QED
    BY <1>1, <1>2, <1>3, OtherSteps DEF Next

--------------------------------------------------------------------------------
(* The inductive invariant holds of every run of gen-rule, PublishRules    *)
(* and RegisterRulePluginsFromDir over the same files.                     *)
THEOREM PublicationInvariant == Spec => []PInv
  BY InitPInv, NextPInv, PTL DEF Spec

(* Every rule a gateway registers was validated and written into that      *)
(* directory by a publisher, serves the scheme it names, lies within the   *)
(* grant of the signer that was verified, and is the rule that was         *)
(* verified unless the directory was written to between the two reads.     *)
THEOREM ServedIsReleased == Spec => []ServesAReleasedRule
  <1>1. PInv => ServesAReleasedRule
    BY DEF PInv
  <1> QED
    BY <1>1, PublicationInvariant, PTL

(* A walk replaces a plugin only through a rule filed under the directory  *)
(* of another scheme: RegisterRulePluginsFromDir looks for a plugin under  *)
(* the directory's name before it reads the rule.                          *)
THEOREM Precedence == Spec => PrecedenceByDirectory
  <1> DEFINE Kept == \A s \in Schemes :
                       plugins[s] # Absent /\ plugins'[s] # plugins[s] /\ loader.pc # "idle"
                          => plugins'[s].dir # s
  <1>1. PInv /\ [Next]_vars => [Kept]_plugins
    <2> SUFFICES ASSUME PInv, Next, plugins' # plugins, loader.pc # "idle" PROVE LoadRule
      BY LoadRuleStep DEF vars
    <2> QED
      BY ZenonT(30) DEF Next, Generate, OpenSource, FillSource, GenerateCrash, Edit, Publish, ReadSource,
             OpenRule, WriteRule, ReadBack, OpenSignature, WriteSignature, PublisherCrash, Load,
             Visit, ReadSignature, LoadFails
  <1> HIDE DEF Kept
  <1>2. Spec => [][Kept]_plugins
    BY <1>1, PublicationInvariant, PTL DEF Spec
  <1> QED
    BY <1>2 DEF PrecedenceByDirectory, Kept

--------------------------------------------------------------------------------
(***************************************************************************)
(* The publishers.  A copy is done when the published file holds the       *)
(* source's bytes under a signature of this publisher.  A run that is      *)
(* alone over steady sources has done every copy of the plan that it no    *)
(* longer has to make, and holds the bytes of the one it is at.            *)
(***************************************************************************)
Copies == [scheme : Schemes, version : Versions, to : Versions \union {Default}]

Done(c, p) ==
    /\ files[To(c)] = sources[From(c)]
    /\ sigs[To(c)] = [over |-> files[To(c)], by |-> p]

Shape(r) == r = [pc |-> r.pc, todo |-> r.todo, copy |-> r.copy, data |-> r.data,
                 alone |-> r.alone, steady |-> r.steady]

RunInv(p, r) ==
    /\ r.todo \subseteq Copies
    /\ r.copy \in First(r.todo)
    /\ r.pc \in {"open", "write"} => Valid(r.data)
    /\ r.pc = "writeP7s" => To(r.copy) \notin whole
    /\ r.alone /\ r.pc \in {"sign", "openP7s", "writeP7s"} =>
          files[To(r.copy)] = r.data /\ Valid(r.data)
    /\ r.alone /\ r.steady =>
          /\ r.todo \subseteq Plan
          /\ r.pc # "read" => r.data = sources[From(r.copy)]
          /\ \A c \in Plan \ r.todo : Done(c, p)

PubInv ==
    /\ pub = [p \in Publishers |-> pub[p]]
    /\ \A p \in Publishers : Shape(pub[p])
    /\ \A p, q \in Publishers : Active(p) /\ pub[p].alone /\ p # q => ~Active(q)
    /\ \A p \in Publishers : Active(p) => RunInv(p, pub[p])

(* An undisturbed copy is whole: a valid rule under a signature over it. *)
WholeInv ==
    \A f \in whole : /\ f \in Paths /\ Valid(files[f])
                     /\ sigs[f] \notin {Absent, Torn} /\ sigs[f].over = files[f]

DomainInv ==
    /\ sources = [f \in Sources |-> sources[f]] /\ manifest = [s \in Schemes |-> manifest[s]]
    /\ sigs = [f \in Paths |-> sigs[f]] /\ files = [f \in Paths |-> files[f]]
    /\ \A s \in Schemes : manifest[s] # Absent => manifest[s].latest \in Versions

(* What the manifest m of scheme s says of the published tree. *)
Truthful(s, m) ==
    /\ sources[<<s, m.latest>>] # Absent
    /\ \A v \in Versions : sources[<<s, v>>] # Absent =>
          /\ v = m.latest \/ Older(v, m.latest)
          /\ files[<<s, v>>] = sources[<<s, v>>]
          /\ sigs[<<s, v>>] = [over |-> files[<<s, v>>], by |-> m.by]
    /\ files[<<s, Default>>] = sources[<<s, m.latest>>]
    /\ sigs[<<s, Default>>] = [over |-> files[<<s, Default>>], by |-> m.by]

MInv == DomainInv /\ PubInv /\ WholeInv /\ ManifestIsTrue

(* default.json is not a version. *)
LEMMA DefaultIsNoVersion == Default \notin Versions
  BY PublicationAssumption DEF Default

(* Versions are ordered. *)
LEMMA OlderIsAsymmetric == ASSUME NEW v \in Versions, NEW w \in Versions, Older(v, w) PROVE ~Older(w, v)
  <1>1. v[1] \in Nat /\ v[2] \in Nat /\ w[1] \in Nat /\ w[2] \in Nat
    BY PublicationAssumption
  <1> QED
    BY <1>1 DEF Older

(* What the copies of a plan are. *)
LEMMA PlanMembers ==
    ASSUME NEW c \in Plan
    PROVE  /\ c \in Copies /\ c.version \in VersionsOf(c.scheme)
           /\ c.to # Default => c.to = c.version
           /\ c.to = Default => c.version \in Newest(VersionsOf(c.scheme))
  <1>1. PICK f \in Sources : /\ sources[f] # Absent
                             /\ \/ c = Copy(f[1], f[2], f[2])
                                \/ c = Copy(f[1], f[2], Default) /\ f[2] \in Newest(VersionsOf(f[1]))
    BY DEF Plan
  <1>2. f = <<f[1], f[2]>> /\ f[1] \in Schemes /\ f[2] \in Versions
    BY DEF Sources
  <1>3. f[2] \in VersionsOf(f[1])
    BY <1>1, <1>2 DEF VersionsOf
  <1>4. CASE c = Copy(f[1], f[2], f[2])
    <2>1. c.scheme = f[1] /\ c.version = f[2] /\ c.to = f[2] /\ c \in Copies
      BY <1>2, <1>4 DEF Copy, Copies
    <2> QED
      BY <1>2, <1>3, <2>1, DefaultIsNoVersion
  <1>5. CASE c = Copy(f[1], f[2], Default) /\ f[2] \in Newest(VersionsOf(f[1]))
    <2>1. c.scheme = f[1] /\ c.version = f[2] /\ c.to = Default /\ c \in Copies
      BY <1>2, <1>5 DEF Copy, Copies
    <2> QED
      BY <1>3, <1>5, <2>1
  <1> QED
    BY <1>1, <1>4, <1>5

(* Two copies of a plan go to different files. *)
LEMMA CopiesApart ==
    ASSUME NEW c \in Plan, NEW d \in Plan, c # d
    PROVE  To(c) # To(d)
  <1> SUFFICES ASSUME To(c) = To(d) PROVE FALSE
    OBVIOUS
  <1>1. c.scheme = d.scheme /\ c.to = d.to
    BY DEF To
  <1>2. c \in Copies /\ d \in Copies
    BY PlanMembers
  <1>3. c.version = d.version
    <2>1. CASE c.to # Default
      BY <1>1, <2>1, PlanMembers
    <2>2. CASE c.to = Default
      <3>1. /\ c.version \in Newest(VersionsOf(c.scheme))
            /\ d.version \in Newest(VersionsOf(c.scheme))
        BY <1>1, <2>2, PlanMembers, ZenonT(30)
      <3>2. c.version = d.version \/ (Older(c.version, d.version) /\ Older(d.version, c.version))
        BY <3>1 DEF Newest
      <3> QED
        BY <1>2, <3>2, OlderIsAsymmetric DEF Copies
    <2> QED
      BY <2>1, <2>2
  <1> QED
    BY <1>1, <1>2, <1>3 DEF Copies

(* The source and the target of a copy. *)
LEMMA CopyTarget ==
    ASSUME NEW c \in Copies
    PROVE  /\ To(c) \in Paths /\ From(c) \in Sources /\ c.scheme \in Schemes
           /\ To(c)[1] = c.scheme /\ To(c) = <<c.scheme, c.to>>
  BY DEF Copies, To, From, Paths, Sources

(* MInv holds at the start. *)
LEMMA InitMInv == Init => MInv
  <1> SUFFICES ASSUME Init PROVE MInv
    OBVIOUS
  <1>1. DomainInv
    BY DEF Init, DomainInv
  <1>2. pub = [p \in Publishers |-> Idle]
    BY ZenonT(30) DEF Init
  <1>3. PubInv
    BY <1>2, ZenonT(30) DEF PubInv, Idle, Active, Shape
  <1>4. WholeInv
    BY DEF Init, WholeInv
  <1>5. manifest = [s \in Schemes |-> Absent]
    BY ZenonT(30) DEF Init
  <1>6. ManifestIsTrue
    BY <1>5 DEF ManifestIsTrue
  <1> QED
    BY <1>1, <1>3, <1>4, <1>6 DEF MInv

(* A step that writes neither tree, nor anything about the publishers. *)
LEMMA TreesApart ==
    ASSUME MInv, UNCHANGED <<sources, files, sigs, whole, pub, manifest>>
    PROVE  MInv'
  <1>1. DomainInv' /\ WholeInv' /\ ManifestIsTrue'
    BY ZenonT(30) DEF MInv, DomainInv, WholeInv, ManifestIsTrue
  <1>2. Plan' = Plan
    BY DEF Plan, VersionsOf
  <1>3. ASSUME NEW p \in Publishers, NEW r, RunInv(p, r) PROVE RunInv(p, r)'
    BY <1>2, <1>3 DEF RunInv, Done
  <1>4. PubInv'
    BY <1>3 DEF MInv, PubInv, Active
  <1> QED
    BY <1>1, <1>4 DEF MInv

(* A scheme whose files, signatures, sources and manifest are left alone   *)
(* is still described by its manifest.                                     *)
LEMMA TruthKept ==
    ASSUME MInv, NEW s \in Schemes, manifest'[s] = manifest[s],
           manifest[s] # Absent, manifest[s].undisturbed,
           \A v \in Versions : sources'[<<s, v>>] = sources[<<s, v>>],
           \A v \in Versions \union {Default} : /\ files'[<<s, v>>] = files[<<s, v>>]
                                               /\ sigs'[<<s, v>>] = sigs[<<s, v>>]
    PROVE  Truthful(s, manifest[s])'
  <1>1. manifest[s].latest \in Versions /\ Truthful(s, manifest[s])
    BY ZenonT(30) DEF MInv, DomainInv, ManifestIsTrue, Truthful
  <1> QED
    BY <1>1 DEF Truthful

(* The sources change: no publication under way is steady any more, and    *)
(* the scheme's manifest is gone.                                          *)
LEMMA SaveStep ==
    ASSUME MInv, NEW path, NEW data, SaveSource(path, data), UNCHANGED <<files, sigs, whole>>
    PROVE  MInv'
  <1>1. /\ sources' = [sources EXCEPT ![path] = data]
        /\ manifest' = [manifest EXCEPT ![path[1]] = Absent]
        /\ pub' = [p \in Publishers |-> [pub[p] EXCEPT !.steady = FALSE]]
    BY DEF SaveSource
  <1>2. DomainInv' /\ WholeInv'
    BY <1>1, ZenonT(30) DEF MInv, DomainInv, WholeInv
  <1>3. ASSUME NEW s \in Schemes, manifest'[s] # Absent
        PROVE  manifest'[s] = manifest[s] /\ \A v \in Versions : sources'[<<s, v>>] = sources[<<s, v>>]
    <2>1. s # path[1] /\ manifest'[s] = manifest[s]
      BY <1>1, <1>3 DEF MInv, DomainInv
    <2>2. ASSUME NEW v \in Versions PROVE <<s, v>> # path
      BY <2>1
    <2> QED
      BY <1>1, <2>1, <2>2 DEF MInv, DomainInv, Sources
  <1>5. ManifestIsTrue'
    <2>1. ASSUME NEW s \in Schemes, manifest'[s] # Absent, manifest'[s].undisturbed
          PROVE  Truthful(s, manifest[s])'
      BY <1>3, <2>1, TruthKept
    <2> QED
      BY <2>1 DEF ManifestIsTrue, Truthful
  <1>6. ASSUME NEW p \in Publishers
        PROVE  /\ pub'[p].pc = pub[p].pc /\ pub'[p].todo = pub[p].todo /\ pub'[p].copy = pub[p].copy
               /\ pub'[p].data = pub[p].data /\ pub'[p].alone = pub[p].alone
               /\ pub'[p].steady = FALSE /\ Shape(pub'[p])
    <2> DEFINE r == pub[p]
    <2>1. Shape(r) /\ pub'[p] = [r EXCEPT !.steady = FALSE]
      BY <1>1 DEF MInv, PubInv
    <2> HIDE DEF r
    <2> QED
      BY <2>1, ZenonT(30) DEF Shape, r
  <1>7. ASSUME NEW p \in Publishers, Active(p) PROVE RunInv(p, pub[p])'
    BY <1>6, <1>7, ZenonT(30) DEF MInv, PubInv, RunInv
  <1>8. pub' = [p \in Publishers |-> pub'[p]]
    BY <1>1
  <1>9. PubInv'
    BY <1>6, <1>7, <1>8, ZenonT(30) DEF MInv, PubInv, Active
  <1> QED
    BY <1>2, <1>5, <1>9 DEF MInv

(* A publisher at work goes on with r: what it is alone with, no other     *)
(* publisher at work relies on.                                            *)
LEMMA GoesOn ==
    ASSUME PubInv, NEW p \in Publishers, Active(p), NEW r, pub' = [pub EXCEPT ![p] = r], Shape(r),
           r.pc # "idle" => RunInv(p, pub[p])' /\ (r.alone => pub[p].alone),
           ~pub[p].alone => whole' \subseteq whole
    PROVE  PubInv'
  <1>1. /\ pub' = [q \in Publishers |-> pub'[q]] /\ pub'[p] = r
        /\ \A q \in Publishers : q # p => pub'[q] = pub[q]
    BY DEF PubInv
  <1>2. \A q \in Publishers : Shape(pub'[q])
    BY <1>1 DEF PubInv
  <1>3. \A q, o \in Publishers : pub'[q].pc # "idle" /\ pub'[q].alone /\ q # o => pub'[o].pc = "idle"
    BY <1>1 DEF PubInv, Active
  <1>4. ASSUME NEW q \in Publishers, pub'[q].pc # "idle" PROVE RunInv(q, pub[q])'
    <2>1. CASE q = p
      BY <1>1, <1>4, <2>1
    <2>2. CASE q # p
      <3>1. RunInv(q, pub[q]) /\ ~pub[q].alone /\ pub'[q] = pub[q]
        BY <1>1, <1>4, <2>2 DEF PubInv, Active
      <3>2. whole' \subseteq whole
        BY <1>1, <1>4, <2>2 DEF PubInv, Active
      <3> QED
        BY <3>1, <3>2 DEF RunInv
    <2> QED
      BY <2>1, <2>2
  <1> QED
    BY <1>1, <1>2, <1>3, <1>4 DEF PubInv, Active

(* It is kept when a publisher starts. *)
LEMMA PublishStep ==
    ASSUME MInv, NEW p \in Publishers, Publish(p)
    PROVE  MInv'
  <1>1. UNCHANGED <<sources, files, sigs, whole, manifest>> /\ ~Active(p)
    BY DEF Publish, treeVars
  <1>2. DomainInv' /\ WholeInv' /\ ManifestIsTrue'
    BY <1>1, ZenonT(30) DEF MInv, DomainInv, WholeInv, ManifestIsTrue
  <1>3. Plan' = Plan
    BY <1>1 DEF Plan, VersionsOf
  <1>4. PICK c \in First(Plan) :
          pub' = [q \in Publishers |->
                    IF q = p
                    THEN AtCopy(c, Plan, \A o \in Publishers \ {p} : ~Active(o), TRUE)
                    ELSE [pub[q] EXCEPT !.alone = FALSE]]
    BY ZenonT(30) DEF Publish
  <1>5. /\ pub'[p].pc = "read" /\ pub'[p].todo = Plan /\ pub'[p].copy = c /\ Shape(pub'[p])
        /\ pub'[p].alone => \A o \in Publishers \ {p} : ~Active(o)
    BY <1>4 DEF Shape, AtCopy
  <1>6. ASSUME NEW q \in Publishers, q # p
        PROVE  /\ pub'[q].pc = pub[q].pc /\ pub'[q].todo = pub[q].todo /\ pub'[q].copy = pub[q].copy
               /\ pub'[q].data = pub[q].data /\ pub'[q].alone = FALSE /\ Shape(pub'[q])
    <2> DEFINE r == pub[q]
    <2>1. Shape(r) /\ pub'[q] = [r EXCEPT !.alone = FALSE]
      BY <1>4, <1>6 DEF MInv, PubInv
    <2> HIDE DEF r
    <2> QED
      BY <2>1, ZenonT(30) DEF Shape, r
  <1>7. RunInv(p, pub[p])'
    <2>1. Plan \subseteq Copies
      BY PlanMembers
    <2> QED
      BY <1>3, <1>5, <2>1 DEF RunInv
  <1>8. ASSUME NEW q \in Publishers, q # p, Active(q) PROVE RunInv(q, pub[q])'
    BY <1>1, <1>6, <1>8, ZenonT(30) DEF MInv, PubInv, RunInv
  <1>9. pub' = [q \in Publishers |-> pub'[q]]
    BY <1>4
  <1>10. \A q, o \in Publishers : pub'[q].pc # "idle" /\ pub'[q].alone /\ q # o => pub'[o].pc = "idle"
    <2> SUFFICES ASSUME NEW q \in Publishers, NEW o \in Publishers, q # o,
                        pub'[q].pc # "idle", pub'[q].alone
                 PROVE  pub'[o].pc = "idle"
      OBVIOUS
    <2>1. q = p
      BY <1>6, ZenonT(30)
    <2>2. ~Active(o) /\ pub'[o].pc = pub[o].pc
      BY <1>5, <1>6, <2>1, ZenonT(30)
    <2> QED
      BY <2>2 DEF Active
  <1>11. PubInv'
    BY <1>5, <1>6, <1>7, <1>8, <1>9, <1>10, ZenonT(30) DEF PubInv, Active
  <1> QED
    BY <1>2, <1>11 DEF MInv

(* A publisher's record r at another place, with other data. *)
Moved(r, pc, data) == [pc |-> pc, todo |-> r.todo, copy |-> r.copy, data |-> data,
                       alone |-> r.alone, steady |-> r.steady]

(* A publisher that moves on keeps what it has read and planned, ... *)
LEMMA MovedFields ==
    ASSUME NEW r, NEW pc, NEW data
    PROVE  /\ Shape(Moved(r, pc, data)) /\ Moved(r, pc, data).pc = pc
           /\ Moved(r, pc, data).data = data /\ Moved(r, pc, data).todo = r.todo
           /\ Moved(r, pc, data).copy = r.copy /\ Moved(r, pc, data).alone = r.alone
           /\ Moved(r, pc, data).steady = r.steady
  BY DEF Shape, Moved

(* Goto and Hold move one publisher. *)
LEMMA HoldMoves ==
    ASSUME PubInv, NEW p \in Publishers, NEW pc, NEW data, Hold(p, pc, data)
    PROVE  pub' = [pub EXCEPT ![p] = Moved(pub[p], pc, data)]
  <1> DEFINE r == pub[p]
             g == [r EXCEPT !.pc = pc]
             h == [g EXCEPT !.data = data]
  <1>1. pub' = [pub EXCEPT ![p] = h]
    BY ZenonT(30) DEF PubInv, Hold
  <1>2. Shape(r)
    BY DEF PubInv
  <1> HIDE DEF r
  <1>3. g = Moved(r, pc, r.data)
    BY <1>2 DEF Shape, Moved
  <1> HIDE DEF g
  <1>4. h = Moved(r, pc, data)
    BY <1>3 DEF Moved
  <1> QED
    BY <1>1, <1>4, ZenonT(30) DEF r

(* ... and that is all that Goto does. *)
LEMMA GotoMoves ==
    ASSUME PubInv, NEW p \in Publishers, NEW pc, Goto(p, pc)
    PROVE  pub' = [pub EXCEPT ![p] = Moved(pub[p], pc, pub[p].data)]
  <1> DEFINE r == pub[p]
             h == [r EXCEPT !.pc = pc]
  <1>1. pub' = [pub EXCEPT ![p] = h]
    BY DEF PubInv, Goto
  <1>2. Shape(r)
    BY DEF PubInv
  <1> HIDE DEF r
  <1>3. h = Moved(r, pc, r.data)
    BY <1>2 DEF Shape, Moved
  <1> QED
    BY <1>1, <1>3, ZenonT(30) DEF r

(* Reading a source, reading back the published file, and a crash. *)
LEMMA ReadStep ==
    ASSUME MInv, NEW p \in Publishers, ReadSource(p) \/ ReadBack(p) \/ PublisherCrash(p)
    PROVE  MInv'
  <1>1. UNCHANGED <<sources, files, sigs, whole, manifest>> /\ Active(p)
    BY ZenonT(30) DEF ReadSource, ReadBack, PublisherCrash, treeVars, At, Active
  <1>2. DomainInv' /\ WholeInv' /\ ManifestIsTrue'
    BY <1>1, ZenonT(30) DEF MInv, DomainInv, WholeInv, ManifestIsTrue
  <1>3. Plan' = Plan
    BY <1>1 DEF Plan, VersionsOf
  <1>4. PubInv /\ RunInv(p, pub[p]) /\ Shape(pub[p]) /\ pub = [q \in Publishers |-> pub[q]]
    BY <1>1 DEF MInv, PubInv
  <1>idle. ASSUME pub' = [pub EXCEPT ![p] = Idle] PROVE PubInv'
    <2>1. Shape(Idle) /\ Idle.pc = "idle"
      BY DEF Shape, Idle
    <2> HIDE DEF Idle
    <2> QED
      BY <1>1, <1>4, <1>idle, <2>1, GoesOn
  <1>hold. ASSUME NEW pc, NEW data, Hold(p, pc, data), pc # "idle", RunInv(p, Moved(pub[p], pc, data))
           PROVE  PubInv'
    <2> DEFINE r == Moved(pub[p], pc, data)
    <2>1. pub' = [pub EXCEPT ![p] = r]
      BY <1>4, <1>hold, HoldMoves
    <2>2. Shape(r) /\ r.alone = pub[p].alone
      BY MovedFields
    <2>3. RunInv(p, r)
      BY <1>hold
    <2> HIDE DEF r
    <2>4. pub'[p] = r
      BY <1>4, <2>1
    <2>5. RunInv(p, pub[p])'
      BY <1>1, <1>3, <2>3, <2>4 DEF RunInv, Done
    <2> QED
      BY <1>1, <1>4, <2>1, <2>2, <2>5, GoesOn
  <1>5. CASE ReadSource(p)
    <2>1. CASE pub' = [pub EXCEPT ![p] = Idle]
      BY <1>2, <2>1, <1>idle DEF MInv
    <2>2. CASE pub' # [pub EXCEPT ![p] = Idle]
      <3> DEFINE data == sources[From(Job(p))]
                 r == Moved(pub[p], "open", data)
      <3>1. Hold(p, "open", data) /\ Valid(data)
        BY <1>5, <2>2 DEF ReadSource
      <3>2. /\ r.pc = "open" /\ r.data = data /\ r.todo = pub[p].todo /\ r.copy = pub[p].copy
            /\ r.alone = pub[p].alone /\ r.steady = pub[p].steady
        BY MovedFields
      <3>3. data = sources[From(pub[p].copy)]
        BY DEF Job
      <3> HIDE DEF data
      <3>4. RunInv(p, r)
        <4> HIDE DEF r
        <4> QED
          BY <3>1, <3>2, <3>3, <1>4 DEF RunInv
      <3>5. PubInv'
        BY <3>1, <3>4, <1>hold
      <3> QED
        BY <1>2, <3>5 DEF MInv
    <2> QED
      BY <2>1, <2>2
  <1>6. CASE ReadBack(p)
    <2> DEFINE data == files[To(Job(p))]
               r == Moved(pub[p], "openP7s", data)
    <2>1. Hold(p, "openP7s", data) /\ pub[p].pc = "sign"
      BY <1>6 DEF ReadBack, At
    <2>2. /\ r.pc = "openP7s" /\ r.data = data /\ r.todo = pub[p].todo /\ r.copy = pub[p].copy
          /\ r.alone = pub[p].alone /\ r.steady = pub[p].steady
      BY MovedFields
    <2>3. data = files[To(pub[p].copy)]
      BY DEF Job
    <2> HIDE DEF data
    <2>4. RunInv(p, r)
      <3> HIDE DEF r
      <3> QED
        BY <2>1, <2>2, <2>3, <1>4 DEF RunInv
    <2>5. PubInv'
      BY <2>1, <2>4, <1>hold
    <2> QED
      BY <1>2, <2>5 DEF MInv
  <1>7. CASE PublisherCrash(p)
    BY <1>2, <1>7, <1>idle DEF PublisherCrash, MInv
  <1> QED
    BY <1>5, <1>6, <1>7

(* The published tree is written at the target of copy c. *)
OnlyAt(c) ==
    /\ sources' = sources
    /\ files' = [f \in Paths |-> files'[f]] /\ sigs' = [f \in Paths |-> sigs'[f]]
    /\ \A f \in Paths : f # To(c) => files'[f] = files[f] /\ sigs'[f] = sigs[f]

(* What is written there ends the scheme's manifest, and no other's. *)
LEMMA DisturbStep ==
    ASSUME MInv, NEW c \in Copies, OnlyAt(c), Disturb(To(c))
    PROVE  DomainInv' /\ WholeInv' /\ ManifestIsTrue'
  <1>1. /\ manifest' = [manifest EXCEPT ![c.scheme] = Absent] /\ whole' = whole \ {To(c)}
        /\ c.scheme \in Schemes
    BY CopyTarget, ZenonT(30) DEF Disturb
  <1>2. DomainInv' /\ WholeInv'
    BY <1>1 DEF MInv, DomainInv, WholeInv, OnlyAt
  <1>3. ASSUME NEW s \in Schemes, manifest'[s] # Absent, manifest'[s].undisturbed
        PROVE  Truthful(s, manifest[s])'
    <2>1. s # c.scheme /\ manifest'[s] = manifest[s]
      BY <1>1, <1>3 DEF MInv, DomainInv
    <2>2. ASSUME NEW v \in Versions \union {Default} PROVE <<s, v>> \in Paths /\ <<s, v>> # To(c)
      BY <2>1 DEF To, Paths
    <2> QED
      BY <1>3, <2>1, <2>2, TruthKept DEF OnlyAt
  <1>4. ManifestIsTrue'
    BY <1>3 DEF ManifestIsTrue, Truthful
  <1> QED
    BY <1>2, <1>4

(* The copies that are done stay done while another one is made. *)
LEMMA DoneStays ==
    ASSUME NEW p \in Publishers, NEW r, RunInv(p, r), r.alone, r.steady, OnlyAt(r.copy)
    PROVE  Plan' = Plan /\ \A d \in Plan \ r.todo : Done(d, p)'
  <1>1. Plan' = Plan
    BY DEF OnlyAt, Plan, VersionsOf
  <1>2. ASSUME NEW d \in Plan \ r.todo PROVE Done(d, p)'
    <2>1. r.copy \in r.todo /\ r.todo \subseteq Plan /\ Done(d, p)
      BY DEF RunInv, First
    <2>2. To(d) # To(r.copy)
      BY <2>1, CopiesApart
    <2>3. To(d) \in Paths
      BY PlanMembers, CopyTarget
    <2> QED
      BY <2>1, <2>2, <2>3 DEF OnlyAt, Done
  <1> QED
    BY <1>1, <1>2

(* A publisher writes the published file, or truncates it or its           *)
(* signature, and stays at the copy it makes.                              *)
LEMMA WriteStep ==
    ASSUME MInv, NEW p \in Publishers, OpenRule(p) \/ WriteRule(p) \/ OpenSignature(p)
    PROVE  MInv'
  <1> DEFINE old == pub[p]
             c == old.copy
             pc == IF OpenRule(p) THEN "write" ELSE IF WriteRule(p) THEN "sign" ELSE "writeP7s"
             r == Moved(old, pc, old.data)
  <1>1. Active(p) /\ PubInv /\ RunInv(p, old) /\ Shape(old) /\ c \in Copies
        /\ pub = [q \in Publishers |-> pub[q]]
    BY DEF OpenRule, WriteRule, OpenSignature, At, Active, MInv, PubInv, RunInv, First
  <1>2. OnlyAt(c) /\ Disturb(To(c))
    BY <1>1, CopyTarget DEF OpenRule, WriteRule, OpenSignature, OnlyAt, MInv, DomainInv, Job
  <1>3. DomainInv' /\ WholeInv' /\ ManifestIsTrue'
    BY <1>1, <1>2, DisturbStep
  <1>4. pub' = [pub EXCEPT ![p] = r]
    <2>1. Goto(p, pc)
      BY DEF OpenRule, WriteRule, OpenSignature, At
    <2> HIDE DEF pc
    <2> QED
      BY <1>1, <2>1, GotoMoves
  <1>5. \/ old.pc = "open" /\ pc = "write"
        \/ old.pc = "write" /\ pc = "sign" /\ files'[To(c)] = old.data
        \/ old.pc = "openP7s" /\ pc = "writeP7s" /\ files'[To(c)] = files[To(c)]
    BY <1>1, CopyTarget, ZenonT(30) DEF OpenRule, WriteRule, OpenSignature, At, Job, MInv, DomainInv
  <1> HIDE DEF pc
  <1>6. /\ Shape(r) /\ r.pc = pc /\ r.data = old.data /\ r.todo = old.todo /\ r.copy = c
        /\ r.alone = old.alone /\ r.steady = old.steady
    BY MovedFields
  <1>7. old.alone /\ old.steady => Plan' = Plan /\ \A d \in Plan \ old.todo : Done(d, p)'
    BY <1>1, <1>2, DoneStays
  <1>8. sources'[From(c)] = sources[From(c)]
    BY <1>2 DEF OnlyAt
  <1>9. pub'[p] = r
    BY <1>1, <1>4
  <1> HIDE DEF r, c
  <1>10. RunInv(p, pub[p])'
    <2>1. /\ r.todo \subseteq Copies /\ r.copy \in First(r.todo)
          /\ r.pc \in {"open", "write"} => Valid(r.data)
          /\ To(r.copy) \notin whole'
      BY <1>1, <1>2, <1>5, <1>6 DEF RunInv, Disturb, c
    <2>2. ASSUME r.alone, r.pc \in {"sign", "openP7s", "writeP7s"}
          PROVE  files'[To(r.copy)] = r.data /\ Valid(r.data)
      BY <1>1, <1>5, <1>6, <2>2 DEF RunInv, c
    <2>3. ASSUME r.alone, r.steady
          PROVE  /\ r.todo \subseteq Plan' /\ r.data = sources'[From(r.copy)]
                 /\ \A d \in Plan' \ r.todo : Done(d, p)'
      BY <1>1, <1>5, <1>6, <1>7, <1>8, <2>3 DEF RunInv, c
    <2> QED
      BY <1>9, <2>1, <2>2, <2>3 DEF RunInv
  <1>11. PubInv'
    BY <1>1, <1>2, <1>4, <1>6, <1>10, GoesOn DEF Disturb
  <1> QED
    BY <1>3, <1>11 DEF MInv

(* When default.json is the first copy left, every version of the scheme   *)
(* is published.                                                           *)
LEMMA VersionsDone ==
    ASSUME NEW p \in Publishers, NEW r, RunInv(p, r), r.alone, r.steady, r.copy.to = Default,
           NEW v \in Versions, sources[<<r.copy.scheme, v>>] # Absent
    PROVE  /\ v = r.copy.version \/ Older(v, r.copy.version)
           /\ files[<<r.copy.scheme, v>>] = sources[<<r.copy.scheme, v>>]
           /\ sigs[<<r.copy.scheme, v>>] = [over |-> files[<<r.copy.scheme, v>>], by |-> p]
  <1> DEFINE s == r.copy.scheme
             c == Copy(s, v, v)
  <1>1. r.copy \in r.todo /\ r.todo \subseteq Plan /\ \A d \in r.todo \ {r.copy} : Before(r.copy, d)
    BY DEF RunInv, First
  <1>2. s \in Schemes /\ r.copy.version \in Newest(VersionsOf(s))
    BY <1>1, PlanMembers DEF Copies
  <1>3. c.scheme = s /\ c.version = v /\ c.to = v /\ v # Default
    BY DefaultIsNoVersion DEF Copy
  <1>4. c \in Plan
    <2>1. <<s, v>> \in {f \in Sources : sources[f] # Absent} /\ <<s, v>>[1] = s /\ <<s, v>>[2] = v
      BY <1>2 DEF Sources
    <2> QED
      BY <2>1 DEF Plan
  <1> HIDE DEF c, s
  <1>5. c \notin r.todo
    <2>1. c # r.copy /\ ~Before(r.copy, c)
      BY <1>3 DEF Before, s
    <2> QED
      BY <1>1, <2>1
  <1>6. Done(c, p)
    BY <1>4, <1>5 DEF RunInv
  <1>7. v \in VersionsOf(s)
    BY DEF VersionsOf, s
  <1> QED
    BY <1>2, <1>3, <1>6, <1>7, ZenonT(30) DEF Done, Newest, To, From, s

(* The signature completes the copy. *)
LEMMA SignStep ==
    ASSUME MInv, NEW p \in Publishers, WriteSignature(p)
    PROVE  MInv'
  <1> DEFINE old == pub[p]
             c == old.copy
             sig == [over |-> old.data, by |-> p]
             m == IF c.to = Default
                  THEN [latest |-> c.version, by |-> p, undisturbed |-> old.alone /\ old.steady]
                  ELSE Absent
  <1>1. /\ Active(p) /\ PubInv /\ RunInv(p, old) /\ Shape(old) /\ c \in Copies /\ old.pc = "writeP7s"
        /\ pub = [q \in Publishers |-> pub[q]]
    BY DEF WriteSignature, At, Active, MInv, PubInv, RunInv, First
  <1>2. /\ sigs' = [sigs EXCEPT ![To(c)] = sig] /\ files' = files /\ sources' = sources
        /\ whole' = IF old.alone THEN whole \union {To(c)} ELSE whole
        /\ manifest' = [manifest EXCEPT ![c.scheme] = m]
    BY DEF WriteSignature, Job
  <1>3. To(c) \in Paths /\ From(c) \in Sources /\ c.scheme \in Schemes /\ c.version \in Versions
    BY <1>1, CopyTarget DEF Copies
  <1>4. OnlyAt(c) /\ sigs'[To(c)] = sig
    BY <1>2, <1>3 DEF OnlyAt, MInv, DomainInv
  <1>5. sig \notin {Absent, Torn} /\ sig.over = old.data
    BY DEF Absent, Torn
  <1>6. old.alone => files[To(c)] = old.data /\ Valid(old.data)
    BY <1>1 DEF RunInv
  <1>7. old.alone /\ old.steady =>
          /\ old.todo \subseteq Plan /\ old.data = sources[From(c)]
          /\ Plan' = Plan /\ \A d \in Plan \ old.todo : Done(d, p)'
    BY <1>1, <1>4, DoneStays DEF RunInv
  <1>8. m # Absent => m.latest = c.version /\ m.by = p /\ (m.undisturbed => old.alone /\ old.steady)
                      /\ c.to = Default
    BY ZenonT(30)
  <1> HIDE DEF sig, m
  <1>9. WholeInv'
    <2>1. ASSUME NEW f \in whole', f # To(c)
          PROVE  /\ f \in Paths /\ Valid(files'[f])
                 /\ sigs'[f] \notin {Absent, Torn} /\ sigs'[f].over = files'[f]
      BY <1>2, <1>4, <2>1 DEF MInv, WholeInv, OnlyAt
    <2>2. To(c) \in whole' => old.alone
      BY <1>1, <1>2 DEF RunInv
    <2> QED
      BY <1>2, <1>3, <1>4, <1>5, <1>6, <2>1, <2>2 DEF WholeInv
  <1>10. DomainInv'
    BY <1>2, <1>3, <1>4, <1>8 DEF MInv, DomainInv, OnlyAt
  <1>11. ASSUME NEW s \in Schemes, manifest'[s] # Absent, manifest'[s].undisturbed
         PROVE  Truthful(s, manifest[s])'
    <2>1. CASE s # c.scheme
      <3>1. manifest'[s] = manifest[s]
        BY <1>2, <2>1 DEF MInv, DomainInv
      <3>2. ASSUME NEW v \in Versions \union {Default} PROVE <<s, v>> \in Paths /\ <<s, v>> # To(c)
        BY <2>1 DEF To, Paths
      <3> QED
        BY <1>4, <1>11, <3>1, <3>2, TruthKept DEF OnlyAt
    <2>2. CASE s = c.scheme
      <3>1. manifest'[s] = m
        BY <1>2, <2>2 DEF MInv, DomainInv
      <3>2. /\ old.alone /\ old.steady /\ c.to = Default
            /\ manifest'[s].latest = c.version /\ manifest'[s].by = p
        BY <1>8, <1>11, <3>1
      <3>3. To(c) = <<s, Default>> /\ From(c) = <<s, c.version>>
        BY <2>2, <3>2 DEF To, From
      <3>4. ASSUME NEW v \in Versions, sources[<<s, v>>] # Absent
            PROVE  /\ v = c.version \/ Older(v, c.version)
                   /\ files'[<<s, v>>] = sources[<<s, v>>]
                   /\ sigs'[<<s, v>>] = [over |-> files'[<<s, v>>], by |-> p]
        <4>1. <<s, v>> \in Paths /\ <<s, v>> # To(c)
          BY <3>3, DefaultIsNoVersion DEF Paths
        <4>2. /\ v = c.version \/ Older(v, c.version)
              /\ files[<<s, v>>] = sources[<<s, v>>]
              /\ sigs[<<s, v>>] = [over |-> files[<<s, v>>], by |-> p]
          BY <1>1, <2>2, <3>2, <3>4, VersionsDone
        <4>3. files'[<<s, v>>] = files[<<s, v>>] /\ sigs'[<<s, v>>] = sigs[<<s, v>>]
          BY <1>4, <4>1 DEF OnlyAt
        <4> QED
          BY <4>2, <4>3
      <3>5. sources[<<s, c.version>>] # Absent
        <4>1. c \in Plan
          BY <1>1, <1>7, <3>2 DEF RunInv, First
        <4> QED
          BY <2>2, <4>1, PlanMembers, ZenonT(30) DEF VersionsOf
      <3>6. /\ files'[<<s, Default>>] = sources[<<s, c.version>>]
            /\ sigs'[<<s, Default>>] = [over |-> files'[<<s, Default>>], by |-> p]
        BY <1>2, <1>4, <1>6, <1>7, <3>2, <3>3, ZenonT(30) DEF sig
      <3> HIDE DEF c
      <3> QED
        BY <1>2, <3>2, <3>4, <3>5, <3>6, ZenonT(30) DEF Truthful
    <2> QED
      BY <2>1, <2>2
  <1>12. ManifestIsTrue'
    BY <1>11 DEF ManifestIsTrue, Truthful
  <1>13. ~old.alone => whole' \subseteq whole
    BY <1>2
  <1>14. CASE pub' = [pub EXCEPT ![p] = Idle]
    <2>1. Shape(Idle) /\ Idle.pc = "idle"
      BY DEF Shape, Idle
    <2> HIDE DEF Idle
    <2>2. PubInv'
      BY <1>1, <1>13, <1>14, <2>1, GoesOn
    <2> QED
      BY <1>9, <1>10, <1>12, <2>2 DEF MInv
  <1>15. ASSUME NEW n \in First(old.todo \ {c}),
                pub' = [pub EXCEPT ![p] = AtCopy(n, @.todo \ {Job(p)}, @.alone, @.steady)]
         PROVE  MInv'
    <2> DEFINE r == AtCopy(n, old.todo \ {c}, old.alone, old.steady)
    <2>1. pub' = [pub EXCEPT ![p] = r]
      BY <1>1, <1>15 DEF Job
    <2>2. /\ Shape(r) /\ r.pc = "read" /\ r.todo = old.todo \ {c} /\ r.copy = n
          /\ r.alone = old.alone /\ r.steady = old.steady
      BY ZenonT(30) DEF Shape, AtCopy
    <2> HIDE DEF r
    <2>3. pub'[p] = r
      BY <1>1, <2>1
    <2>4. ASSUME r.alone, r.steady
          PROVE  r.todo \subseteq Plan' /\ \A d \in Plan' \ r.todo : Done(d, p)'
      <3>1. \A d : d = c => Done(d, p)'
        BY <1>2, <1>4, <1>6, <1>7, <2>2, <2>4, ZenonT(30) DEF Done, sig
      <3> QED
        BY <1>7, <2>2, <2>4, <3>1
    <2>5. r.todo \subseteq Copies /\ r.copy \in First(r.todo)
      BY <1>1, <1>15, <2>2 DEF RunInv
    <2>6. RunInv(p, pub[p])'
      BY <2>2, <2>3, <2>4, <2>5 DEF RunInv
    <2>7. PubInv'
      BY <1>1, <1>13, <2>1, <2>2, <2>6, GoesOn
    <2> QED
      BY <1>9, <1>10, <1>12, <2>7 DEF MInv
  <1> QED
    BY <1>14, <1>15, ZenonT(30) DEF WriteSignature, Job

(* MInv is kept by every step. *)
LEMMA NextMInv == MInv /\ [Next]_vars => MInv'
  <1> SUFFICES ASSUME MInv, [Next]_vars PROVE MInv'
    OBVIOUS
  <1>1. CASE \/ \E claims \in Claims, start \in Start, force \in BOOLEAN : Generate(claims, start, force)
             \/ GenerateCrash \/ UNCHANGED vars
             \/ \E restarted \in BOOLEAN : Load(restarted)
             \/ Visit \/ ReadSignature \/ LoadRule \/ LoadFails
    <2>1. UNCHANGED <<sources, files, sigs, whole, pub, manifest>>
      BY <1>1 DEF Generate, GenerateCrash, vars, treeVars, pubVars, Load, Visit, ReadSignature,
                  LoadRule, LoadFails, Walking
    <2> QED
      BY <2>1, TreesApart
  <1>2. CASE OpenSource \/ FillSource \/ \E e \in Handwritten : Edit(e[1], e[2])
    <2>1. /\ UNCHANGED <<files, sigs, whole>>
          /\ \E path, data : SaveSource(path, data)
      BY <1>2 DEF OpenSource, FillSource, Edit, treeVars
    <2> QED
      BY <2>1, SaveStep
  <1>3. ASSUME NEW p \in Publishers,
               \/ Publish(p) \/ ReadSource(p) \/ OpenRule(p) \/ WriteRule(p) \/ ReadBack(p)
               \/ OpenSignature(p) \/ WriteSignature(p) \/ PublisherCrash(p)
        PROVE  MInv'
    BY <1>3, PublishStep, ReadStep, WriteStep, SignStep
  <1> QED
    BY <1>1, <1>2, <1>3 DEF Next

(* What a complete publication reports of a scheme is true of the          *)
(* published tree, as long as nobody else touched the sources or the tree: *)
(* every version is there byte for byte, default.json is the newest, and   *)
(* every signature is this publisher's over exactly those bytes.           *)
THEOREM ManifestStaysTrue == Spec => []ManifestIsTrue
  <1>1. MInv => ManifestIsTrue
    BY DEF MInv
  <1> QED
    BY <1>1, InitMInv, NextMInv, PTL DEF Spec

--------------------------------------------------------------------------------
(* A walk under way has not failed, and the signer it noted is the one of  *)
(* the signature file unless the directory was written to.                 *)
SignerInv ==
    /\ loader.pc # "idle" => loader.failed = FALSE
    /\ loader.pc = "rule" => loader.rewritten \/ sigs[Published].by = loader.by

(* A publisher's write as the walk sees it. *)
LEMMA TouchedSigner ==
    ASSUME PInv, MInv, SignerInv, NEW p \in Publishers,
           OpenRule(p) \/ WriteRule(p) \/ OpenSignature(p) \/ WriteSignature(p)
    PROVE  SignerInv' /\ (loader.pc # "idle" => loader'.failed = FALSE)
  <1> DEFINE path == To(Job(p))
  <1>1. /\ loader' = [loader EXCEPT !.rewritten =
                        @ \/ (loader.pc # "idle" /\ path = <<Head(loader.todo), Default>>)]
        /\ \A f \in Paths : f # path => sigs'[f] = sigs[f]
    BY DEF OpenRule, WriteRule, OpenSignature, WriteSignature, Disturb, MInv, DomainInv
  <1> HIDE DEF path
  <1>2. /\ loader'.pc = loader.pc /\ loader'.todo = loader.todo /\ loader'.by = loader.by
        /\ loader'.failed = loader.failed
        /\ loader'.rewritten =
             (loader.rewritten \/ (loader.pc # "idle" /\ path = <<Head(loader.todo), Default>>))
    BY <1>1 DEF PInv, WalkInv
  <1>3. Published' = Published
    BY <1>2 DEF Published, Visited
  <1>4. ASSUME loader.pc = "rule" PROVE loader'.rewritten \/ sigs'[Published].by = loader.by
    <2>1. Published \in Paths
      BY <1>4, VisitedPath DEF PInv
    <2>2. CASE path = Published
      BY <1>2, <1>4, <2>2, ZenonT(30) DEF Published, Visited
    <2>3. CASE path # Published
      BY <1>1, <1>2, <1>4, <2>1, <2>3, ZenonT(30) DEF SignerInv
    <2> QED
      BY <2>2, <2>3
  <1> QED
    BY <1>2, <1>3, <1>4 DEF SignerInv

(* The reasons for which a walk may end in an error. *)
Reason ==
    \/ loader.rewritten
    \/ Published \notin whole
    \/ sigs[Published].by \notin TrustedSigners
    \/ ~RuleWithinSignerGrant(files[Published], Aic[sigs[Published].by])
    \/ files[Published].scheme # Visited /\ plugins[files[Published].scheme] # Absent

(* The walk's own steps. *)
LEMMA WalkStep ==
    ASSUME PInv, MInv, SignerInv, Visit \/ ReadSignature \/ LoadRule \/ LoadFails
    PROVE  SignerInv' /\ (loader'.failed => Reason)
  <1>adv. ASSUME loader' = Advance PROVE SignerInv' /\ loader'.failed = FALSE
    <2>1. loader'.failed = FALSE /\ loader'.pc # "rule"
      BY <1>adv DEF Advance, Resting
    <2> QED
      BY <2>1 DEF SignerInv
  <1>fail. ASSUME Fail PROVE SignerInv'
    <2>1. loader'.pc = "idle"
      BY <1>fail DEF Fail, Resting
    <2> QED
      BY <2>1 DEF SignerInv
  <1>walk. loader.pc # "idle" /\ loader.failed = FALSE
    BY DEF Visit, ReadSignature, LoadRule, LoadFails, SignerInv
  <1>1. CASE Visit
    <2>1. CASE loader' = Advance
      BY <1>adv, <2>1, ZenonT(30)
    <2>2. CASE loader' = [loader EXCEPT !.pc = "signature", !.read = files[Published], !.rewritten = FALSE]
      <3>1. loader'.failed = FALSE /\ loader'.pc = "signature"
        BY <1>walk, <2>2 DEF PInv, WalkInv
      <3> QED
        BY <3>1 DEF SignerInv
    <2> QED
      BY <1>1, <2>1, <2>2 DEF Visit
  <1>2. CASE ReadSignature
    <2>1. loader.pc = "signature" /\ sigs' = sigs
      BY <1>2 DEF ReadSignature, Walking, treeVars
    <2>2. CASE ~Verifies(sigs[Published], loader.read)
      <3>1. Fail
        BY <1>2, <2>2 DEF ReadSignature
      <3>2. ASSUME ~loader.rewritten, Published \in whole PROVE sigs[Published].by \notin TrustedSigners
        BY <2>1, <2>2, <3>2 DEF Verifies, PInv, WalkInv, MInv, WholeInv
      <3> QED
        BY <1>fail, <3>1, <3>2 DEF Reason
    <2>3. CASE Verifies(sigs[Published], loader.read)
      <3>1. loader' = [loader EXCEPT !.pc = "rule", !.by = sigs[Published].by]
        BY <1>2, <2>3 DEF ReadSignature
      <3>2. /\ loader'.pc = "rule" /\ loader'.by = sigs[Published].by /\ loader'.todo = loader.todo
            /\ loader'.failed = FALSE
        BY <1>walk, <3>1 DEF PInv, WalkInv
      <3>3. Published' = Published
        BY <3>2 DEF Published, Visited
      <3> QED
        BY <2>1, <3>2, <3>3 DEF SignerInv
    <2> QED
      BY <2>2, <2>3
  <1>3. CASE LoadRule
    BY <1>3, <1>adv, ZenonT(30) DEF LoadRule
  <1>4. CASE LoadFails
    <2>1. /\ loader.pc = "rule" /\ Fail
          /\ Loadable(files[Published], loader.by) => plugins[files[Published].scheme] # Absent
      BY <1>4 DEF LoadFails
    <2>2. ASSUME ~loader.rewritten, Published \in whole, Loadable(files[Published], loader.by)
          PROVE  files[Published].scheme # Visited /\ plugins[files[Published].scheme] # Absent
      BY <2>1, <2>2 DEF PInv, WalkInv
    <2>3. ASSUME ~loader.rewritten, Published \in whole, ~Loadable(files[Published], loader.by)
          PROVE  ~RuleWithinSignerGrant(files[Published], Aic[sigs[Published].by])
      <3>1. sigs[Published].by = loader.by /\ Valid(files[Published])
        BY <2>1, <2>3 DEF SignerInv, MInv, WholeInv
      <3> QED
        BY <2>3, <3>1 DEF Loadable
    <2> QED
      BY <1>fail, <2>1, <2>2, <2>3 DEF Reason
  <1> QED
    BY <1>1, <1>2, <1>3, <1>4

(* Every step keeps what a walk knows of a directory, and a walk fails only for a reason. *)
LEMMA NextSignerInv ==
    ASSUME PInv, MInv, SignerInv, [Next]_vars
    PROVE  SignerInv' /\ (loader' # loader /\ loader.pc # "idle" /\ loader'.failed => Reason)
  <1>1. CASE \E p \in Publishers : OpenRule(p) \/ WriteRule(p) \/ OpenSignature(p) \/ WriteSignature(p)
    BY <1>1, TouchedSigner, ZenonT(30)
  <1>2. CASE Visit \/ ReadSignature \/ LoadRule \/ LoadFails
    BY <1>2, WalkStep
  <1>3. CASE \E restarted \in BOOLEAN : Load(restarted)
    <2>1. loader' = [Resting EXCEPT !.pc = "visit", !.todo = SchemeOrder] /\ loader.pc = "idle"
      BY <1>3 DEF Load
    <2>2. loader'.pc = "visit" /\ loader'.failed = FALSE
      BY <2>1 DEF Resting
    <2> QED
      BY <2>1, <2>2 DEF SignerInv
  <1>4. CASE \/ \E claims \in Claims, start \in Start, force \in BOOLEAN : Generate(claims, start, force)
             \/ OpenSource \/ FillSource \/ GenerateCrash
             \/ \E e \in Handwritten : Edit(e[1], e[2])
             \/ \E p \in Publishers : Publish(p) \/ ReadSource(p) \/ ReadBack(p) \/ PublisherCrash(p)
             \/ UNCHANGED vars
    <2>1. UNCHANGED <<sigs, loader>>
      BY <1>4, ZenonT(30) DEF Generate, OpenSource, FillSource, GenerateCrash, Edit, Publish, ReadSource, ReadBack,
                  PublisherCrash, vars, treeVars
    <2> QED
      BY <2>1 DEF SignerInv, Published, Visited
  <1> QED
    BY <1>1, <1>2, <1>3, <1>4 DEF Next

(* A load fails only for a reason that the operator can act on: a finished *)
(* publication that no writer disturbed, by a trusted signer within its    *)
(* grant, always loads.                                                    *)
THEOREM FailsOnlyForAReason == Spec => WalkFailsForAReason
  <1>1. Init => SignerInv
    <2>1. Init => loader.pc = "idle"
      BY DEF Init, Resting
    <2> QED
      BY <2>1 DEF SignerInv
  <1>2. PInv /\ MInv /\ SignerInv /\ [Next]_vars => SignerInv'
    BY NextSignerInv
  <1> DEFINE Explained == loader.pc # "idle" /\ loader'.failed => Reason
  <1>3. PInv /\ MInv /\ SignerInv /\ [Next]_vars => [Explained]_loader
    BY NextSignerInv
  <1> HIDE DEF Explained
  <1>4. Spec => [][Explained]_loader
    BY <1>1, <1>2, <1>3, PublicationInvariant, InitMInv, NextMInv, PTL DEF Spec
  <1> QED
    BY <1>4 DEF WalkFailsForAReason, Explained, Reason
================================================================================
