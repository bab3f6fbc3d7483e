------------------------------ MODULE MCCatalogPool ----------------------------
(***************************************************************************)
(* A small pool of artifacts for the model checker: three generations with *)
(* a fork of the first, a reordered and a re-signed second generation, a   *)
(* change of producer, and deltas that do and do not fit.                  *)
(***************************************************************************)
EXTENDS CatalogTrust

MCEntry(cap, ops, status) ==
    [capability |-> cap, provider |-> "acme", scheme |-> "pay", declaration |-> "decl1",
     operations |-> ops, status |-> status]

MCStatus(at) == [reference |-> "probe", checkedAt |-> at]

MCCatalog(gen, prev, producer, issued, until, entries) ==
    [domain |-> "dom", catalogID |-> "cat", producer |-> producer, generation |-> gen,
     previousDigest |-> prev, issuedAt |-> issued, validUntil |-> until, entries |-> entries]

MCRead == MCEntry(1, {"read"}, MCStatus(0))
MCRefund == MCEntry(2, {"refund"}, MCStatus(0))
MCBare == MCEntry(1, {"read"}, NoStatus)

MCDigest == {"c1", "c1fork", "c2", "c2unsorted", "c3", "c3keep", "c3owner"}

MCCatalogOf ==
    [d \in MCDigest |->
       CASE d = "c1"         -> MCCatalog(1, "", "ops", 0, 1, <<MCRead>>)
         [] d = "c1fork"     -> MCCatalog(1, "", "ops", 0, 2, <<MCBare>>)
         [] d = "c2"         -> MCCatalog(2, "c1", "ops", 1, 2, <<MCRead, MCRefund>>)
         [] d = "c2unsorted" -> MCCatalog(2, "c1", "ops", 1, 2, <<MCRefund, MCRead>>)
         [] d = "c3"         -> MCCatalog(3, "c2", "ops", 1, 2, <<MCBare>>)
         [] d = "c3keep"     -> MCCatalog(3, "c2", "ops", 1, 2, <<MCBare, MCRefund>>)
         [] d = "c3owner"    -> MCCatalog(3, "c2", "new", 1, 2, <<MCRead>>)]

MCDelta(base, baseGen, target, issued, until, add, replace, remove) ==
    [domain |-> "dom", catalogID |-> "cat", producer |-> "ops",
     baseGeneration |-> baseGen, baseDigest |-> base,
     targetGeneration |-> baseGen + 1, targetDigest |-> target,
     issuedAt |-> issued, validUntil |-> until,
     add |-> add, replace |-> replace, remove |-> remove]

MCDeltaName == {"x2", "x2unsorted", "x3", "x3keep"}

MCDeltaOf ==
    [x \in MCDeltaName |->
       CASE x = "x2"         -> MCDelta("c1", 1, "c2", 1, 2, {MCRefund}, {}, {})
         [] x = "x2unsorted" -> MCDelta("c1", 1, "c2unsorted", 1, 2, {MCRefund}, {}, {})
         [] x = "x3"         -> MCDelta("c2", 2, "c3", 1, 2, {}, {MCBare}, {2})
         [] x = "x3keep"     -> MCDelta("c2", 2, "c3keep", 1, 2, {}, {MCBare}, {})]

MCCert(root, key, principal, notAfter, grants) ==
    [root |-> root, key |-> key, principal |-> principal, notBefore |-> 0, notAfter |-> notAfter,
     maySign |-> TRUE, hasAIC |-> TRUE, keyBound |-> TRUE, grants |-> grants]

MCGrant(caps, ops) == [covers |-> caps, operations |-> ops]

MCCertName == {"old", "narrow", "next", "owner"}

MCCertOf ==
    [k \in MCCertName |->
       CASE k = "old"    -> MCCert("R1", "K1", "ops", 2, {MCGrant({1, 2}, {"read", "refund"})})
         [] k = "narrow" -> MCCert("R1", "K1", "ops", 2, {MCGrant({1}, {"read"})})
         [] k = "next"   -> MCCert("R2", "K2", "ops", 2, {MCGrant({1, 2}, {"read", "refund"})})
         [] k = "owner"  -> MCCert("R1", "K3", "new", 2, {MCGrant({1}, {"read"})})]

MCPolicy(producer, requireStatus, health, maxStaleness) ==
    [domain |-> "dom", catalogID |-> "cat", producer |-> producer,
     schemes |-> [s \in {"pay"} |-> "decl1"], maxStaleness |-> maxStaleness,
     maxStatusStaleness |-> maxStaleness, requireStatus |-> requireStatus,
     statusValues |-> [r \in {"probe"} |-> "healthy"], hasResolver |-> TRUE,
     resolver |-> [r \in {"probe"} |-> health], providers |-> [q \in {"acme"} |-> "ops"],
     observedAt |-> 0]
================================================================================
