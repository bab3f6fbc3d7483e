--------------------------- MODULE RulePublication ---------------------------
(***************************************************************************)
(* The life of a rule file: gen-rule writes it into the source tree,       *)
(* PublishRules copies it into the published tree and signs it, and a      *)
(* gateway registers it with RegisterRulePluginsFromDir.  The three are    *)
(* separate processes over plain files.  os.WriteFile truncates before it  *)
(* writes, so each of its calls is two steps here, and every os.ReadFile   *)
(* is a step of its own.                                                   *)
(*                                                                         *)
(* A path is <<scheme, name>>: the name is a version <<major, minor>> or   *)
(* Default (default.json).  A signature file holds [over, by], the bytes   *)
(* signed and the publisher whose certificate signed them.                 *)
(***************************************************************************)
EXTENDS RuleCheck, FiniteSets

CONSTANTS
    SchemeOrder,     \* the scheme directories, in lexical order
    Versions,        \* the versions a source tree may hold
    Claims,          \* the claim files: sequences of rules gen-rule would emit
    Start,           \* the versions gen-rule may start at
    Handwritten,     \* <<path, rule>> pairs an author may save by hand
    Publishers,      \* processes running PublishRules
    Aic,             \* publisher |-> the AIC of its signing certificate
    TrustedSigners,  \* publishers whose certificate chains to a trust root
    Scenarios        \* the source trees to start from, each with the publishers
                     \* at work, the schemes that have a plugin of their own and
                     \* how often each thing may happen

Schemes == Range(SchemeOrder)
Default == <<>>
Sources == Schemes \X Versions
Paths == Schemes \X (Versions \union {Default})

ASSUME PublicationAssumption ==
    /\ SchemeOrder \in Seq(Schemes) /\ SchemeOrder # <<>>
    /\ TrustedSigners \subseteq Publishers
    /\ Versions \union Start \subseteq Nat \X Nat
    /\ \A sc \in Scenarios :
          /\ DOMAIN sc.sources \subseteq Sources /\ sc.publishers \subseteq Publishers
          /\ sc.configured \subseteq Schemes
          /\ {sc.generate, sc.edit, sc.publish, sc.load, sc.crash} \subseteq Nat

VARIABLES
    sources,    \* the source tree: what each version file holds
    gen,        \* gen-rule: the files it still has to write, and whether it
                \* has truncated the next one
    files,      \* the published tree: rule files
    sigs,       \* the published tree: their .p7s files
    pub,        \* each publisher: its next step, the copies it still has to
                \* make and the one it is at, the bytes it holds; whether it
                \* ran alone over files nobody edited
    manifest,   \* what the last complete publication of a scheme reported
    whole,      \* history: the paths published and signed without disturbance
    written,    \* history: the rules publishers have written at each path
    loader,     \* the gateway's walk over the published tree
    plugins,    \* the gateway's plugin registry
    left        \* the scenario: how often each process may still start or crash

treeVars == <<files, sigs, whole, written>>
pubVars == <<pub, manifest>>
vars == <<sources, gen, treeVars, pubVars, loader, plugins, left>>

Idle == [pc |-> "idle", todo |-> {}, copy |-> Absent, data |-> Absent, alone |-> FALSE,
         steady |-> FALSE]
Resting == [pc |-> "idle", todo |-> <<>>, read |-> Absent, by |-> Absent, rewritten |-> FALSE,
            failed |-> FALSE]
Builtin == [configured |-> TRUE]

Init ==
    /\ left \in Scenarios
    /\ sources = [f \in Sources |-> IF f \in DOMAIN left.sources THEN left.sources[f] ELSE Absent]
    /\ gen = [plan |-> <<>>, opened |-> FALSE]
    /\ files = [f \in Paths |-> Absent]
    /\ sigs = [f \in Paths |-> Absent]
    /\ pub = [p \in Publishers |-> Idle]
    /\ manifest = [s \in Schemes |-> Absent]
    /\ whole = {}
    /\ written = [f \in Paths |-> {}]
    /\ loader = Resting
    /\ plugins = [s \in Schemes |-> IF s \in left.configured THEN Builtin ELSE Absent]

Spend(what) == left[what] > 0 /\ left' = [left EXCEPT ![what] = @ - 1]

------------------------------------------------------------------------------
(* gen-rule.  Claims of one scheme take ascending minors from the first.   *)
VersionOf(claims, i, start) ==
    <<start[1], start[2] + Cardinality({j \in 1..(i - 1) : claims[j].scheme = claims[i].scheme})>>

(* Nothing is planned unless every rule passes both gates.                 *)
buildPlan(claims, start) ==
    [i \in DOMAIN claims |-> [to |-> <<claims[i].scheme, VersionOf(claims, i, start)>>,
                              rule |-> claims[i]]]

Generate(claims, start, force) ==
    /\ gen.plan = <<>>
    /\ Spend("generate")
    /\ \A i \in DOMAIN claims : Valid(claims[i])
    /\ \A i \in DOMAIN claims : buildPlan(claims, start)[i].to \in Sources
    /\ ~force => \A i \in DOMAIN claims : sources[buildPlan(claims, start)[i].to] = Absent
    /\ gen' = [plan |-> buildPlan(claims, start), opened |-> FALSE]
    /\ UNCHANGED <<sources, treeVars, pubVars, loader, plugins>>

(* The bytes of a source file change: a publication under way is no longer *)
(* of a steady tree, and a manifest no longer describes it.                *)
SaveSource(path, data) ==
    /\ sources' = [sources EXCEPT ![path] = data]
    /\ pub' = [p \in Publishers |-> [pub[p] EXCEPT !.steady = FALSE]]
    /\ manifest' = [manifest EXCEPT ![path[1]] = Absent]

OpenSource ==
    /\ gen.plan # <<>> /\ ~gen.opened
    /\ SaveSource(Head(gen.plan).to, Torn)
    /\ gen' = [gen EXCEPT !.opened = TRUE]
    /\ UNCHANGED <<treeVars, loader, plugins, left>>

FillSource ==
    /\ gen.opened
    /\ SaveSource(Head(gen.plan).to, Head(gen.plan).rule)
    /\ gen' = [plan |-> Tail(gen.plan), opened |-> FALSE]
    /\ UNCHANGED <<treeVars, loader, plugins, left>>

GenerateCrash ==
    /\ gen.plan # <<>>
    /\ Spend("crash")
    /\ gen' = [plan |-> <<>>, opened |-> FALSE]
    /\ UNCHANGED <<sources, treeVars, pubVars, loader, plugins>>

(* An author saves a rule of their own.                                    *)
Edit(path, rule) ==
    /\ Spend("edit")
    /\ sources[path] # rule
    /\ SaveSource(path, rule)
    /\ UNCHANGED <<gen, treeVars, loader, plugins>>

------------------------------------------------------------------------------
(* PublishRules.                                                           *)
Older(v, w) == v[1] < w[1] \/ (v[1] = w[1] /\ v[2] < w[2])

VersionsOf(s) == {v \in Versions : sources[<<s, v>>] # Absent}

\* Variant: minors are compared as text.
NewestByName(vs) ==
    LET digit(n) == IF n < 10 THEN n ELSE n \div 10
    IN  {v \in vs : \A w \in vs \ {v} : w[1] < v[1] \/ (w[1] = v[1] /\ digit(w[2]) < digit(v[2]))}

(* The version that the sort puts last, if any. *)
Newest(vs) == {v \in vs : \A w \in vs \ {v} : Older(w, v)}

(* A copy of version v of scheme s, as itself or as default.json. *)
Copy(s, v, to) == [scheme |-> s, version |-> v, to |-> to]
From(c) == <<c.scheme, c.version>>
To(c) == <<c.scheme, c.to>>

(* The copies a run makes: every version that WalkDir finds, and the last  *)
(* one of each scheme again as default.json.                               *)
Plan ==
    LET found == {f \in Sources : sources[f] # Absent}
    IN  {Copy(f[1], f[2], f[2]) : f \in found}
        \union {Copy(f[1], f[2], Default) : f \in {g \in found : g[2] \in Newest(VersionsOf(g[1]))}}

(* Their order: schemes as sort.Strings has them; within a scheme the      *)
(* versions ascending, default.json after them.                            *)
Before(c, d) ==
    IF c.scheme = d.scheme
    THEN c.to # Default /\ (d.to = Default \/ Older(c.version, d.version))
    ELSE \E i, j \in DOMAIN SchemeOrder :
            i < j /\ SchemeOrder[i] = c.scheme /\ SchemeOrder[j] = d.scheme

First(copies) == {c \in copies : \A d \in copies \ {c} : Before(c, d)}

(* A publisher about to make copy c, the first of those left. *)
AtCopy(c, todo, alone, steady) ==
    [pc |-> "read", todo |-> todo, copy |-> c, data |-> Absent, alone |-> alone, steady |-> steady]

Active(p) == pub[p].pc # "idle"

Publish(p) ==
    /\ ~Active(p) /\ p \in left.publishers
    /\ Spend("publish")
    /\ \E c \in First(Plan) :
          pub' = [q \in Publishers |->
                    IF q = p
                    THEN AtCopy(c, Plan, \A o \in Publishers \ {p} : ~Active(o), TRUE)
                    ELSE [pub[q] EXCEPT !.alone = FALSE]]
    /\ UNCHANGED <<sources, gen, treeVars, manifest, loader, plugins>>

Job(p) == pub[p].copy
At(p, pc) == pub[p].pc = pc
Goto(p, pc) == pub' = [pub EXCEPT ![p].pc = pc]
Hold(p, pc, data) == pub' = [pub EXCEPT ![p].pc = pc, ![p].data = data]

(* copyAndSign reads the source; bytes that do not pass end the run.       *)
ReadSource(p) ==
    /\ At(p, "read")
    /\ IF Valid(sources[From(Job(p))]) THEN Hold(p, "open", sources[From(Job(p))])
       ELSE pub' = [pub EXCEPT ![p] = Idle]
    /\ UNCHANGED <<sources, gen, treeVars, manifest, loader, plugins, left>>

(* The published tree changes at a path: what a walk has read there may be *)
(* stale, and the scheme's manifest no longer describes the tree.          *)
Disturb(path) ==
    /\ manifest' = [manifest EXCEPT ![path[1]] = Absent]
    /\ whole' = whole \ {path}
    /\ loader' = [loader EXCEPT !.rewritten =
                    @ \/ (loader.pc # "idle" /\ path = <<Head(loader.todo), Default>>)]

OpenRule(p) ==
    /\ At(p, "open")
    /\ files' = [files EXCEPT ![To(Job(p))] = Torn]
    /\ Disturb(To(Job(p)))
    /\ Goto(p, "write")
    /\ UNCHANGED <<sources, gen, sigs, written, plugins, left>>

WriteRule(p) ==
    /\ At(p, "write")
    /\ files' = [files EXCEPT ![To(Job(p))] = pub[p].data]
    /\ written' = [written EXCEPT ![To(Job(p))] = @ \union {pub[p].data}]
    /\ Disturb(To(Job(p)))
    /\ Goto(p, "sign")
    /\ UNCHANGED <<sources, gen, sigs, plugins, left>>

\* Variant: the source is signed instead of the published file.
ReadSourceBack(p) ==
    /\ At(p, "sign")
    /\ Hold(p, "openP7s", sources[From(Job(p))])
    /\ UNCHANGED <<sources, gen, treeVars, manifest, loader, plugins, left>>

(* SignCapability reads the bytes back from the published file.            *)
ReadBack(p) ==
    /\ At(p, "sign")
    /\ Hold(p, "openP7s", files[To(Job(p))])
    /\ UNCHANGED <<sources, gen, treeVars, manifest, loader, plugins, left>>

OpenSignature(p) ==
    /\ At(p, "openP7s")
    /\ sigs' = [sigs EXCEPT ![To(Job(p))] = Torn]
    /\ Disturb(To(Job(p)))
    /\ Goto(p, "writeP7s")
    /\ UNCHANGED <<sources, gen, files, written, plugins, left>>

(* The signature completes a copy; the one of default.json completes the   *)
(* scheme, which enters the manifest.                                      *)
WriteSignature(p) ==
    /\ At(p, "writeP7s")
    /\ sigs' = [sigs EXCEPT ![To(Job(p))] = [over |-> pub[p].data, by |-> p]]
    /\ whole' = IF pub[p].alone THEN whole \union {To(Job(p))} ELSE whole
    /\ manifest' = [manifest EXCEPT ![Job(p).scheme] =
                      IF Job(p).to = Default
                      THEN [latest |-> Job(p).version, by |-> p,
                            undisturbed |-> pub[p].alone /\ pub[p].steady]
                      ELSE Absent]
    /\ loader' = [loader EXCEPT !.rewritten =
                    @ \/ (loader.pc # "idle" /\ To(Job(p)) = <<Head(loader.todo), Default>>)]
    /\ \/ pub[p].todo = {Job(p)} /\ pub' = [pub EXCEPT ![p] = Idle]
       \/ \E c \in First(pub[p].todo \ {Job(p)}) :
             pub' = [pub EXCEPT ![p] = AtCopy(c, @.todo \ {Job(p)}, @.alone, @.steady)]
    /\ UNCHANGED <<sources, gen, files, written, plugins, left>>

PublisherCrash(p) ==
    /\ Active(p)
    /\ Spend("crash")
    /\ pub' = [pub EXCEPT ![p] = Idle]
    /\ UNCHANGED <<sources, gen, treeVars, manifest, loader, plugins>>

------------------------------------------------------------------------------
(* RegisterRulePluginsFromDir: a gateway starts, or loads the rules again  *)
(* into the registry it has.                                               *)
Load(restarted) ==
    /\ loader.pc = "idle"
    /\ Spend("load")
    /\ loader' = [Resting EXCEPT !.pc = "visit", !.todo = SchemeOrder]
    /\ plugins' = IF restarted THEN [s \in Schemes |-> IF s \in left.configured THEN Builtin ELSE Absent]
                  ELSE plugins
    /\ UNCHANGED <<sources, gen, treeVars, pubVars>>

Visited == Head(loader.todo)
Published == <<Visited, Default>>
Advance == [Resting EXCEPT !.pc = IF Len(loader.todo) = 1 THEN "idle" ELSE "visit",
                           !.todo = Tail(loader.todo)]
Fail == loader' = [Resting EXCEPT !.failed = TRUE]
Walking == UNCHANGED <<sources, gen, treeVars, pubVars, left>>

(* A directory without default.json, or whose scheme has a plugin, is      *)
(* passed over; otherwise the rule's bytes are read to be verified.        *)
Visit ==
    /\ loader.pc = "visit"
    /\ loader' = IF files[Published] = Absent \/ plugins[Visited] # Absent THEN Advance
                 ELSE [loader EXCEPT !.pc = "signature", !.read = files[Published], !.rewritten = FALSE]
    /\ UNCHANGED plugins
    /\ Walking

Verifies(sig, data) == sig \notin {Absent, Torn} /\ sig.over = data /\ sig.by \in TrustedSigners

ReadSignature ==
    /\ loader.pc = "signature"
    /\ IF Verifies(sigs[Published], loader.read)
       THEN loader' = [loader EXCEPT !.pc = "rule", !.by = sigs[Published].by]
       ELSE Fail
    /\ UNCHANGED plugins
    /\ Walking

\* Variant: the signer's own grant is not consulted.
LoadableFromAnyone(data, by) == Valid(data)

(* LoadRule reads the file again; this is the rule that is checked and     *)
(* registered, under the scheme it names.                                  *)
Loadable(data, by) == Valid(data) /\ RuleWithinSignerGrant(data, Aic[by])

Plugin(data) == [rule |-> data, dir |-> Visited, by |-> loader.by, verified |-> loader.read,
                 rewritten |-> loader.rewritten]

LoadRule ==
    /\ loader.pc = "rule"
    /\ Loadable(files[Published], loader.by)
    /\ plugins' = [plugins EXCEPT ![files[Published].scheme] = Plugin(files[Published])]
    /\ loader' = Advance
    /\ Walking

(* Any error ends the walk; what was registered before it stays.  The      *)
(* registry itself may refuse a scheme it already has.                     *)
LoadFails ==
    /\ loader.pc = "rule"
    /\ Loadable(files[Published], loader.by) => plugins[files[Published].scheme] # Absent
    /\ Fail
    /\ UNCHANGED plugins
    /\ Walking

Next ==
    \/ \E claims \in Claims, start \in Start, force \in BOOLEAN : Generate(claims, start, force)
    \/ OpenSource \/ FillSource \/ GenerateCrash
    \/ \E e \in Handwritten : Edit(e[1], e[2])
    \/ \E p \in Publishers :
          \/ Publish(p) \/ ReadSource(p) \/ OpenRule(p) \/ WriteRule(p) \/ ReadBack(p)
          \/ OpenSignature(p) \/ WriteSignature(p) \/ PublisherCrash(p)
    \/ \E restarted \in BOOLEAN : Load(restarted)
    \/ Visit \/ ReadSignature \/ LoadRule \/ LoadFails

Spec == Init /\ [][Next]_vars

------------------------------------------------------------------------------
Loaded == {s \in Schemes : plugins[s] \notin {Absent, Builtin}}

(* The manifest is true: when PublishRules reports a scheme after a run of *)
(* its own over sources nobody touched, the published tree holds every     *)
(* version byte for byte, default.json holds the numerically highest one,  *)
(* and each file has a signature of this publisher over exactly its bytes. *)
(* (publish.go:38-42: default.json is a byte-identical copy of the highest *)
(* version.)                                                               *)
ManifestIsTrue ==
    \A s \in Schemes : manifest[s] # Absent /\ manifest[s].undisturbed =>
        /\ sources[<<s, manifest[s].latest>>] # Absent
        /\ \A v \in Versions : sources[<<s, v>>] # Absent =>
              /\ v = manifest[s].latest \/ Older(v, manifest[s].latest)
              /\ files[<<s, v>>] = sources[<<s, v>>]
              /\ sigs[<<s, v>>] = [over |-> files[<<s, v>>], by |-> manifest[s].by]
        /\ files[<<s, Default>>] = sources[<<s, manifest[s].latest>>]
        /\ sigs[<<s, Default>>] = [over |-> files[<<s, Default>>], by |-> manifest[s].by]

(* What a gateway executes was released: every registered rule is one that *)
(* a publisher validated and wrote into that directory, it serves the      *)
(* scheme it names, and it lies within the grant of the signer whose       *)
(* signature was verified, even when the file changed between the          *)
(* verification and the second read (ruleplugin_load.go:39-55).  It is the *)
(* very rule that was verified unless a publication wrote to the directory *)
(* between the two reads.                                                  *)
ServesAReleasedRule ==
    \A s \in Loaded :
        /\ plugins[s].rule \in written[<<plugins[s].dir, Default>>]
        /\ Valid(plugins[s].rule) /\ plugins[s].rule.scheme = s
        /\ plugins[s].by \in TrustedSigners
        /\ RuleWithinSignerGrant(plugins[s].rule, Aic[plugins[s].by])
        /\ plugins[s].rule = plugins[s].verified \/ plugins[s].rewritten

(* A walk fails for a reason: the directory it stops at was being          *)
(* published while it was read, or its last publication was interrupted or *)
(* ran beside another one, or its signer is not trusted or not granted     *)
(* what the rule does, or its rule names a scheme that is already served.  *)
(* A finished publication always loads.                                    *)
WalkFailsForAReason ==
    [][loader.pc # "idle" /\ loader'.failed =>
          \/ loader.rewritten
          \/ Published \notin whole
          \/ sigs[Published].by \notin TrustedSigners
          \/ ~RuleWithinSignerGrant(files[Published], Aic[sigs[Published].by])
          \/ files[Published].scheme # Visited /\ plugins[files[Published].scheme] # Absent]_loader

(* A plugin keeps precedence over the rules of its directory: while the    *)
(* gateway runs, only a rule filed under another scheme's directory can    *)
(* take the place of a plugin (ruleplugin_load.go:82-86, "rules never      *)
(* overwrite them").                                                       *)
PrecedenceByDirectory ==
    [][\A s \in Schemes :
          plugins[s] # Absent /\ plugins'[s] # plugins[s] /\ loader.pc # "idle"
             => plugins'[s].dir # s]_plugins
==============================================================================
