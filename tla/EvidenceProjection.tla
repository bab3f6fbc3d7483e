--------------------------- MODULE EvidenceProjection ---------------------------
(***************************************************************************)
(* Package projection, the way from a foreign evidence document to a CLC   *)
(* requirement: the projector registry (registry.go), the two projectors   *)
(* (emilia_aec.go, clc_native.go) and Normalize.                           *)
(*                                                                         *)
(* A document is [format, id, text, freshness, quorums, status, bindings,  *)
(* constraints, unknown]: freshness is the sequence of <<role, seconds>>   *)
(* in the order of the roles, quorums of [type, component, threshold,      *)
(* source], status of component types, bindings of triples; constraints    *)
(* is what a native document carries, unknown says that it has a member    *)
(* its format does not define.                                             *)
(***************************************************************************)
EXTENDS ClcEvidence

CONSTANT
    BindingRole     \* BindingRoleName: the role of each triple it can encode

(* The encoding is reversible, and its prefix is no identifier of a text. *)
ASSUME BindingRoleAssumption ==
    \A t, u \in DOMAIN BindingRole : BindingRole[t] = BindingRole[u] => t = u

AEC == "EP-AEC-REQUIREMENT-v1"

--------------------------------------------------------------------------------
(* The registry is the sequence of projectors [id, format]. *)

\* Variant: the latest registration is the first to be asked.
RegisteredInFront(registry, p) ==
    IF p.id = "" \/ \E i \in DOMAIN registry : registry[i].id = p.id THEN registry
    ELSE <<p>> \o registry

Registered(registry, p) ==
    IF p.id = "" \/ \E i \in DOMAIN registry : registry[i].id = p.id THEN registry
    ELSE Append(registry, p)

(* init: the projectors of the package, in this order. *)
BuiltIn == <<[id |-> "emilia/ep-aec-requirement-v1", format |-> AEC],
             [id |-> "clc/requirement-v1", format |-> RequirementVersion]>>

(* Find: the first projector that matches, as a set of at most one. *)
Find(registry, doc) ==
    LET matching == {i \in DOMAIN registry : registry[i].format = doc.format}
    IN  {registry[i] : i \in {n \in matching : \A m \in matching : n <= m}}

--------------------------------------------------------------------------------
(* emiliaAEC.Project.  roleMap is the relying party's pin of each role. *)

pinnedRole(roleMap, role) ==
    Unless(role # "" /\ role \in DOMAIN roleMap, "unpinned_role")
    ?? Unless(roleMap[role] # "", "unpinned_role")

Refusals(doc, roleMap) ==
    Unless(~doc.unknown, "unsupported_content")
    ?? FirstOf([i \in DOMAIN doc.freshness |-> pinnedRole(roleMap, doc.freshness[i][1])])
    ?? FirstOf([i \in DOMAIN doc.quorums |->
          Unless(doc.quorums[i].type = "distinct-subject-quorum", "unsupported_content")
          ?? pinnedRole(roleMap, doc.quorums[i].component)
          ?? Unless(doc.quorums[i].source = "native-verifier", "unsupported_content")])
    ?? FirstOf([i \in DOMAIN doc.status |-> pinnedRole(roleMap, doc.status[i])])
    ?? FirstOf([i \in DOMAIN doc.bindings |->
          Unless(doc.bindings[i] \in DOMAIN BindingRole, "binding_identifier")])

(* The text in parentheses, and each binding's role once. *)
Conjoined(doc) ==
    LET first == {i \in DOMAIN doc.bindings :
                    \A j \in 1..(i - 1) : doc.bindings[j] # doc.bindings[i]}
    IN  <<"(">> \o doc.text \o <<")">>
        \o FlattenSeq([i \in DOMAIN doc.bindings |->
              IF i \in first THEN <<"AND", BindingRole[doc.bindings[i]]>> ELSE <<>>])

AecRequirement(doc, roleMap) ==
    [version |-> RequirementVersion, id |-> doc.id, text |-> Conjoined(doc),
     constraints |->
        [i \in DOMAIN doc.freshness |->
            [role |-> roleMap[doc.freshness[i][1]],
             constraint |-> <<"freshness", doc.freshness[i][2]>>]]
        \o [i \in DOMAIN doc.quorums |->
            [role |-> roleMap[doc.quorums[i].component],
             constraint |-> <<"quorum", doc.quorums[i].threshold>>]]]

(* A view is [requirement, required]: the bar and the check ids it needs. *)
Viewed(req, required) ==
    IF ValidateRequirement(req) # {} THEN <<ValidateRequirement(req), <<>>>>
    ELSE <<{}, [requirement |-> req, required |-> required]>>

NativeRequirement(doc) ==
    [version |-> doc.format, id |-> doc.id, text |-> doc.text, constraints |-> doc.constraints]

Project(doc, roleMap) ==
    IF doc.format = AEC
    THEN IF Refusals(doc, roleMap) # {} THEN <<Refusals(doc, roleMap), <<>>>>
         ELSE Viewed(AecRequirement(doc, roleMap), {"status_required:" \o r : r \in ToSet(doc.status)})
    ELSE IF doc.unknown THEN <<Err("requirement_shape"), <<>>>>
         ELSE Viewed(NativeRequirement(doc), {})

(* Normalize. *)
Normalize(registry, doc, roleMap) ==
    IF Find(registry, doc) = {} THEN <<Err("no_projector"), <<>>>> ELSE Project(doc, roleMap)
================================================================================
