---------------------------- MODULE CatalogArtifact ----------------------------
(***************************************************************************)
(* The signed artifacts of package catalog: the capability catalog (one    *)
(* immutable generation), the delta between two consecutive generations,   *)
(* and the certificates that sign them.                                    *)
(*                                                                         *)
(* A digest is a content address, so an artifact is named by its digest:   *)
(* CatalogOf[d] is the catalog whose canonical bytes hash to d.  Shape     *)
(* checks on single strings (regular expressions, JSON closedness, size    *)
(* limits) are left out: every artifact here is one the strict decoder     *)
(* reads.  Capabilities are integers in the order of their names, because  *)
(* Apply sorts by name; times are integers.                                *)
(***************************************************************************)
EXTENDS Integers, Sequences, FiniteSets

CONSTANTS
    Digest,         \* content addresses of the catalogs that exist
    NoDigest,       \* the empty digest string
    CatalogOf,      \* content address -> catalog
    DeltaName,      \* names of the deltas that exist
    DeltaOf,        \* name -> delta
    CertName,       \* names of the signer certificates
    CertOf,         \* name -> certificate
    Signed,         \* pairs <<d, k>>: a signature by k over catalog d exists
    SignedDelta     \* pairs <<x, k>>: a signature by k over delta x exists

ASSUME NoDigestAssumption == NoDigest \notin Digest

\* Equal content has equal digest, and only generations, digests and the
\* identity fields need a type for what is proved about them.
ASSUME CatalogAssumption ==
    /\ \A d \in Digest : /\ CatalogOf[d].generation \in Int
                         /\ CatalogOf[d].previousDigest \in Digest \cup {NoDigest}
    /\ \A d, e \in Digest : CatalogOf[d] = CatalogOf[e] => d = e

ASSUME DeltaAssumption ==
    \A x \in DeltaName : /\ DeltaOf[x].baseGeneration \in Int
                         /\ DeltaOf[x].targetGeneration \in Int

ASSUME SignedAssumption == /\ Signed \subseteq Digest \X CertName
                           /\ SignedDelta \subseteq DeltaName \X CertName

EntriesOf(c) == {c.entries[i] : i \in DOMAIN c.entries}

Capabilities(entries) == {e.capability : e \in entries}

\* No capability is named by two of the entries.
OnePerCapability(entries) ==
    \A e, f \in entries : e.capability = f.capability => e = f

(* Entry.validate: an entry publishes at least one operation.  Operations  *)
(* are a set: a repeated operation name does not validate.                 *)
ValidEntry(e) == e.operations # {}

(* Catalog.Validate *)
Validate(c) ==
    /\ c.generation >= 1
    /\ c.validUntil > c.issuedAt
    /\ (c.generation = 1) = (c.previousDigest = NoDigest)
    /\ c.entries # <<>>
    /\ \A e \in EntriesOf(c) : ValidEntry(e)
    /\ \A i, j \in DOMAIN c.entries :
          c.entries[i].capability = c.entries[j].capability => i = j

(* Delta.Validate.  A capability may appear in exactly one side. *)
ValidateDelta(x) ==
    /\ x.baseGeneration >= 1
    /\ x.targetGeneration = x.baseGeneration + 1
    /\ x.validUntil > x.issuedAt
    /\ x.add \cup x.replace # {} \/ x.remove # {}
    /\ \A e \in x.add \cup x.replace : ValidEntry(e)
    /\ OnePerCapability(x.add) /\ OnePerCapability(x.replace)
    /\ Capabilities(x.add) \cap Capabilities(x.replace) = {}
    /\ Capabilities(x.add \cup x.replace) \cap x.remove = {}

--------------------------------------------------------------------------------
\* The entries Apply starts from, with the removed and the replaced ones gone.
KeptEntries(base, x) ==
    {e \in EntriesOf(base) : e.capability \notin x.remove \cup Capabilities(x.replace)}

\* entries is the listing of the set S in the order of the capability names.
ListedInOrder(entries, S) ==
    /\ {entries[i] : i \in DOMAIN entries} = S
    /\ \A i, j \in DOMAIN entries : i < j => entries[i].capability < entries[j].capability

(* The catalog Apply builds from base and x, before the digest comparison: *)
(* c is that catalog.  The producer is the base's.                         *)
IsAppliedTo(c, b, x) ==
    LET base == CatalogOf[b] IN
    /\ c.domain = base.domain
    /\ c.catalogID = base.catalogID
    /\ c.generation = x.targetGeneration
    /\ c.issuedAt = x.issuedAt
    /\ c.validUntil = x.validUntil
    /\ c.previousDigest = b
    /\ c.producer = base.producer
    /\ ListedInOrder(c.entries, KeptEntries(base, x) \cup x.replace \cup x.add)

(* Apply returns a catalog exactly when the delta fits base b and the      *)
(* catalog it builds has the digest the delta names.                       *)
Applies(b, x) ==
    LET base == CatalogOf[b] IN
    /\ ValidateDelta(x)
    /\ base.domain = x.domain /\ base.catalogID = x.catalogID
    /\ base.generation = x.baseGeneration
    /\ b = x.baseDigest
    /\ x.remove \subseteq Capabilities(EntriesOf(base))
    /\ Capabilities(x.replace) \subseteq Capabilities(EntriesOf(base))
    /\ Capabilities(x.add) \cap Capabilities(EntriesOf(base)) = {}
    /\ x.targetDigest \in Digest
    /\ Validate(CatalogOf[x.targetDigest])
    /\ IsAppliedTo(CatalogOf[x.targetDigest], b, x)
================================================================================
