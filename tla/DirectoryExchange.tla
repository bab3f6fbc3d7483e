--------------------------- MODULE DirectoryExchange ---------------------------
(***************************************************************************)
(* The directory exchange of package catalog: a publisher serves one       *)
(* bundle (signed snapshot and signed delta of its current generation) at  *)
(* four fixed paths, a consumer reads them with four separate GETs through *)
(* DirectoryCache, and applies the bundle to its accepted state.           *)
(*                                                                         *)
(* The publisher may move to the next generation between two GETs, so a    *)
(* bundle may be torn: a snapshot with another generation's signature, or  *)
(* a delta of another generation than the snapshot.  The network may fail  *)
(* at every GET.  Time is the age of the cached bundle, capped just past   *)
(* MaxStale; policy and roots are fixed.                                   *)
(***************************************************************************)
EXTENDS CatalogTrust, FiniteSetsExt

CONSTANTS
    Published,      \* generation -> what the publisher serves for it
    Nothing,        \* an empty body: the handler answers 404
    ConsumerRoots,
    ConsumerPolicy,
    TTL,            \* DirectoryCache.TTL
    MaxStale,       \* DirectoryCache.MaxStale, 0 for no limit
    MaxAge          \* cap on the age of the cached bundle

ASSUME AgeAssumption == TTL \in Nat /\ MaxStale \in Nat /\ MaxAge \in Nat
                        /\ MaxAge > TTL /\ MaxAge > MaxStale

\* The bundle a publisher serves is of one generation ("the exchange shape
\* for one catalog generation"): its snapshot is that generation's catalog, and
\* its delta leads there.  A part may be missing.
ASSUME PublishedAssumption ==
    /\ Len(Published) \in Nat \ {0} /\ Nothing \notin Digest
    /\ \A g \in 1 .. Len(Published) :
          /\ Published[g].snapshot \in Digest \cup {Nothing}
          /\ Published[g].snapshot # Nothing => CatalogOf[Published[g].snapshot].generation = g
          /\ Published[g].delta # Nothing =>
                /\ Published[g].delta \in DeltaName
                /\ DeltaOf[Published[g].delta].targetDigest = Published[g].snapshot

VARIABLES
    pub,            \* the generation the publisher serves
    phase,          \* the consumer: "idle", "get" or "apply"
    parts,          \* the bodies read so far by FetchDirectory
    cache,          \* DirectoryCache.bundle, or Nothing before a first fetch
    age,            \* time since the start of that fetch
    took,           \* time since the start of the fetch under way
    usable,         \* at that start, the cached bundle could be served as stale
    bundle,         \* the bundle handed to Apply
    registry,       \* the accepted state the consumer persists
    base            \* the catalog of that state, as the last outcome returned it

clock == <<age, took, usable>>
exchangeVars == <<pub, phase, parts, cache, clock, bundle, registry, base>>

Paths == <<"snapshot", "snapshotSig", "delta", "deltaSig">>

MkBundle(bodies) ==
    [snapshot |-> bodies[1], snapshotSig |-> bodies[2], delta |-> bodies[3], deltaSig |-> bodies[4]]

ExchangeInit ==
    /\ pub = 1
    /\ phase = "idle"
    /\ parts = <<>>
    /\ cache = Nothing
    /\ age = 0 /\ took = 0 /\ usable = FALSE
    /\ bundle = Nothing
    /\ registry = EmptyState
    /\ base = NoDigest

--------------------------------------------------------------------------------
(* The server's Handler is replaced by the next generation's. *)
Publish ==
    /\ pub < Len(Published)
    /\ pub' = pub + 1
    /\ UNCHANGED <<phase, parts, cache, clock, bundle, registry, base>>

Tick ==
    /\ age < MaxAge \/ (phase = "get" /\ took < MaxAge)
    /\ age' = Min({age + 1, MaxAge})
    /\ took' = IF phase = "get" THEN Min({took + 1, MaxAge}) ELSE took
    /\ UNCHANGED <<pub, phase, parts, cache, usable, bundle, registry, base>>

Deliver(b) == phase' = "apply" /\ bundle' = b

\* Variant: the TTL is not compared with the age.
FreshForever == cache # Nothing /\ TTL > 0

Fresh == cache # Nothing /\ TTL > 0 /\ age < TTL

(* DirectoryCache.Fetch: a fresh entry is returned without a fetch. *)
CacheHit ==
    /\ phase = "idle" /\ Fresh
    /\ Deliver(cache)
    /\ UNCHANGED <<pub, parts, cache, clock, registry, base>>

StartFetch ==
    /\ phase = "idle" /\ ~Fresh
    /\ phase' = "get"
    /\ parts' = <<>>
    /\ took' = 0
    /\ usable' = (cache # Nothing /\ (MaxStale = 0 \/ age <= MaxStale))
    /\ UNCHANGED <<pub, cache, age, bundle, registry, base>>

(* After a failed fetch the last bundle is served as stale, or the call    *)
(* returns an error.                                                       *)
Fail ==
    /\ IF usable THEN Deliver(cache)
       ELSE phase' = "idle" /\ UNCHANGED bundle
    /\ parts' = <<>>
    /\ took' = 0 /\ usable' = FALSE
    /\ UNCHANGED <<pub, cache, age, registry, base>>

FetchFails == phase = "get" /\ Fail

(* One GET of FetchDirectory.  The last one completes the fetch, which is  *)
(* an error without a signed snapshot, and is cached otherwise.            *)
Get(i) ==
    LET read == Append(parts, Published[pub][Paths[i]]) IN
    /\ phase = "get" /\ i = Len(parts) + 1
    /\ IF i < Len(Paths)
       THEN parts' = read /\ UNCHANGED <<pub, phase, cache, clock, bundle, registry, base>>
       ELSE IF Nothing \in {read[1], read[2]} THEN Fail
       ELSE /\ cache' = MkBundle(read)
            /\ age' = took /\ took' = 0 /\ usable' = FALSE
            /\ Deliver(MkBundle(read))
            /\ parts' = <<>>
            /\ UNCHANGED <<pub, registry, base>>

\* pkcs7.VerifyDetached: the signature is over these bytes.
SignatureOver(sig, body) == sig # Nothing /\ sig.over = body

(* Apply takes the delta path. *)
UsesDelta ==
    /\ bundle.delta # Nothing
    /\ SignatureOver(bundle.deltaSig, bundle.delta)
    /\ base # NoDigest
    /\ DecideDeltaWithState(bundle.delta, base, bundle.deltaSig.signer, ConsumerRoots, ConsumerPolicy, registry)
    /\ CanAdvance(DeltaOf[bundle.delta].targetDigest, registry)

\* Variant: the snapshot is verified against an empty state.
UsesSnapshotWithoutState ==
    /\ SignatureOver(bundle.snapshotSig, bundle.snapshot)
    /\ Decide(bundle.snapshot, bundle.snapshotSig.signer, ConsumerRoots, ConsumerPolicy, EmptyState)

(* Otherwise it takes the snapshot path. *)
UsesSnapshot ==
    /\ SignatureOver(bundle.snapshotSig, bundle.snapshot)
    /\ Decide(bundle.snapshot, bundle.snapshotSig.signer, ConsumerRoots, ConsumerPolicy, registry)
    /\ CanAdvance(bundle.snapshot, registry)

\* Variant: the state keeps the digest of the old base.
PersistStaleHead(d) == registry' = [Advance(d, registry) EXCEPT !.digest = base] /\ base' = d

\* Variant: the outcome carries the snapshot whatever path was taken.
PersistSnapshotBase(d) == registry' = Advance(d, registry) /\ base' = bundle.snapshot

Persist(d) == registry' = Advance(d, registry) /\ base' = d

(* DirectoryBundle.Apply: delta first, snapshot as the fallback.  The      *)
(* caller persists the outcome, and keeps what it has on an error.         *)
Apply ==
    /\ phase = "apply"
    /\ IF UsesDelta THEN Persist(DeltaOf[bundle.delta].targetDigest)
       ELSE IF UsesSnapshot THEN Persist(bundle.snapshot)
       ELSE UNCHANGED <<registry, base>>
    /\ phase' = "idle"
    /\ bundle' = Nothing
    /\ UNCHANGED <<pub, parts, cache, clock>>

ExchangeNext ==
    \/ Publish
    \/ Tick
    \/ CacheHit
    \/ StartFetch
    \/ FetchFails
    \/ \E i \in 1 .. Len(Paths) : Get(i)
    \/ Apply

(* The consumer keeps polling and time passes; a network that answers      *)
(* infinitely often eventually answers four GETs in a row.                 *)
Fairness ==
    /\ WF_exchangeVars(Tick)
    /\ WF_exchangeVars(CacheHit) /\ WF_exchangeVars(StartFetch) /\ WF_exchangeVars(Apply)
    /\ \A i \in 1 .. Len(Paths) : SF_exchangeVars(Get(i))

ExchangeSpec == ExchangeInit /\ [][ExchangeNext]_exchangeVars

FairSpec == ExchangeSpec /\ Fairness

--------------------------------------------------------------------------------
(* A consumer never holds what was not published: whatever mixture of      *)
(* generations the four GETs and the cache deliver, its accepted head is   *)
(* the snapshot the publisher serves, or served, for that generation.      *)
HeadWasPublished ==
    registry.generation > 0 =>
        /\ registry.generation <= pub
        /\ registry.digest = Published[registry.generation].snapshot

(* The catalog an outcome returns and the state it returns stay together   *)
(* (ApplyOutcome): the next delta is applied to the accepted head.         *)
BaseIsHead == base = registry.digest

(* Applying a cached, stale or torn bundle again never moves the consumer  *)
(* back (Apply's "rollback and replay protection").                        *)
ConsumerNeverRollsBack == [][Continues(registry', registry)]_exchangeVars

(* A torn or outdated bundle in the cache only delays: a consumer that is  *)
(* at most one generation behind a publisher that stays put catches up.    *)
CatchesUp ==
    \A g \in 1 .. Len(Published) :
        (registry.generation >= g - 1 /\ pub = g) ~> (registry.generation >= g \/ pub > g)
================================================================================
