-------------------------------- MODULE ClcGrant --------------------------------
(***************************************************************************)
(* The decision function of the capability language core (semantics):      *)
(* Entails, Contains (here ContainsGrant), Intersect, AuthorizeSet and what*)
(* is built on them.                                                       *)
(*                                                                         *)
(* An identifier is the sequence of its segments, <<>> the empty string.   *)
(* A grant is [id, params, bounds, constraints], an operation [id, params].*)
(* Constraints are the pairs of ClcConstraint, decisions those of          *)
(* ClcDecision.                                                            *)
(***************************************************************************)
EXTENDS ClcBounds, ClcDecision

CONSTANTS
    Schemes,        \* segments that match capabilitySchemeRE
    BadWildcards    \* segments with a wildcard that is not the whole segment

--------------------------------------------------------------------------------
(* Identifiers *)

ValidateCapabilityID(id) ==
    LET wild == {i \in DOMAIN id : id[i] = "*"}
    IN  Unless(id # <<>>, "missing_capability_id")
        ?? Unless(/\ id # <<"*">>
                  /\ Range(id) \cap BadWildcards = {}
                  /\ wild \subseteq {Len(id)}, "unsupported_wildcard")
        ?? Unless(Len(id) >= 2 /\ id[1] \in Schemes, "invalid_capability_id")

namespaceOf(id) == SubSeq(id, 1, 2)

matchID(g, o) ==
    LET n == Len(g)
    IN  Unless(namespaceOf(g) = namespaceOf(o), "different_namespace")
        ?? IF g[n] = "*"
           THEN Unless(Len(o) >= n, "wildcard_requires_trailing_segment")
                ?? Unless(SubSeq(o, 1, n - 1) = SubSeq(g, 1, n - 1), "literal_mismatch")
           ELSE Unless(o = g, "literal_mismatch")

--------------------------------------------------------------------------------
(* Constraints *)

CheckConstraint(c, op) ==
    IF ~coreEvaluatesConstraint(c) THEN {}
    ELSE Unless(/\ "max_rows" \in DOMAIN op.params
                /\ Kind(op.params["max_rows"]) = "num"
                /\ Integral(op.params["max_rows"][2])
                /\ op.params["max_rows"][2] \in 0..c[2], "max_rows:violated")

\* Variant: the constraints of one side are forgotten.
mergeNothing(c, d) == c

(* mergeConstraints and sortedSet: no duplicates, in one fixed order. *)
mergeConstraints(c, d) == SetToSeq(Range(c) \cup Range(d))

--------------------------------------------------------------------------------
(* Entailment *)

Declared(g) == DOMAIN g.params \cup DOMAIN g.bounds

(* The layers of entailsDeclared, in their order. *)
entailsDeclared(op, g) ==
    LET required == DOMAIN g.params \cup {k \in DOMAIN g.bounds : ~boundOptional(g.bounds[k])}
    IN  Unless(\A k \in DOMAIN g.params : ~isEmptyBound(g.params[k]), "empty_bound_denies_class")
        ?? Unless(required \subseteq DOMAIN op, "params_missing")
        ?? {At("undeclared_param", k) : k \in DOMAIN op \ Declared(g)}
        ?? AnyOf({valueSubset(op[k], g.params[k]) : k \in DOMAIN g.params})
        ?? AnyOf({boundSubset(op[k], g.bounds[k]) : k \in DOMAIN g.bounds \cap DOMAIN op})

Entails(g, op) ==
    ValidateCapabilityID(g.id)
    ?? ValidateCapabilityID(op.id)
    ?? Unless(g.id[1] = op.id[1], "different_namespace")
    ?? matchID(g.id, op.id)
    ?? IF Declared(g) = {} THEN {}
       ELSE ValidateParamBounds(g.bounds, g.params)
            ?? ValidateParams(g.params)
            ?? ValidateParams(op.params)
            ?? entailsDeclared(op.params, g)

ValidGrant(g) ==
    ValidateCapabilityID(g.id) ?? ValidateParams(g.params) ?? ValidateParamBounds(g.bounds, g.params)

ContainsGrant(parent, child) ==
    LET covers == matchID(parent.id, child.id)
        narrower == /\ DOMAIN child.params = DOMAIN parent.params
                    /\ DOMAIN child.bounds = DOMAIN parent.bounds
                    /\ \A k \in DOMAIN parent.params :
                          ConstraintWithin(child.params[k], parent.params[k]) = {}
                    /\ \A k \in DOMAIN parent.bounds :
                          boundWithin(child.bounds[k], parent.bounds[k])
    IN  ValidGrant(parent) ?? ValidGrant(child)
        ?? (IF covers \in {{}, Err("different_namespace")} THEN covers
            ELSE Err("child_exceeds_parent"))
        ?? Unless(Declared(parent) = {} \/ narrower, "params_not_narrower")

--------------------------------------------------------------------------------
(* Intersection.  A result is <<reasons, grant>>. *)

DeniesClass(g) ==
    \/ \E k \in DOMAIN g.params : isEmptyBound(g.params[k])
    \/ \E k \in DOMAIN g.bounds : boundDeniesClass(g.bounds[k])

Covers(g, h) == Entails([g EXCEPT !.params = Empty, !.bounds = Empty],
                        [id |-> h.id, params |-> Empty]) = {}

(* One turn of the merge: the narrower identifier, the meet of the params  *)
(* and of the bounds, the union of the constraints.                        *)
mergeWith(g, h, at, met) ==
    LET bad == Unless(g.id = h.id \/ Covers(g, h) \/ Covers(h, g), "no_overlap")
               ?? Unless(<<>> \notin Range(at), "no_overlap")
               ?? met[1]
    IN  IF bad # {} THEN <<bad, <<>>>>
        ELSE <<{}, [id |-> IF Covers(g, h) THEN h.id ELSE g.id,
                    params |-> [k \in DOMAIN at |-> at[k][1]] @@ g.params @@ h.params,
                    bounds |-> met[2],
                    constraints |-> mergeConstraints(g.constraints, h.constraints)]>>
merge(g, h) ==
    mergeWith(g, h, [k \in DOMAIN g.params \cap DOMAIN h.params |->
                        intersectValue(g.params[k], h.params[k])],
              intersectBounds(g.bounds, h.bounds))

IntersectCheck(grants) ==
    LET all == Range(grants)
    IN  Unless(grants # <<>>, "absent_source")
        ?? Unless(\A g \in all : ~DeniesClass(g), "empty_bound_denies_class")
        ?? Unless(\A g, h \in all : DOMAIN g.params \cap DOMAIN h.bounds = {},
                  "invalid_params_binding")

RECURSIVE mergeAll(_, _)
mergeAll(acc, grants) ==
    IF acc[1] # {} \/ grants = <<>> THEN acc
    ELSE mergeAll(merge(acc[2], Head(grants)), Tail(grants))

Intersect(grants) ==
    LET bad == IntersectCheck(grants)
               ?? FirstOf([i \in DOMAIN grants |->
                      ValidateParams(grants[i].params)
                      ?? ValidateParamBounds(grants[i].bounds, grants[i].params)])
    IN  IF bad # {} THEN <<bad, <<>>>> ELSE mergeAll(<<{}, Head(grants)>>, Tail(grants))

--------------------------------------------------------------------------------
(* Decisions.  An evaluation returns the set of decisions it may give. *)

Refused(reasons) == {Deny(r) : r \in reasons}

(* isParamsLevelReason, by what it leaves out: a grant whose identifier    *)
(* does not cover the operation gives no reason.                           *)
IdLevel == {"missing_capability_id", "unsupported_wildcard", "invalid_capability_id",
            "different_namespace", "wildcard_requires_trailing_segment", "literal_mismatch"}
Surfaced(reasons) == {r \in reasons : r[1] \notin IdLevel}

constraintsFail(g, op) ==
    FirstOf([i \in DOMAIN g.constraints |->
        ValidateConstraint(g.constraints[i]) ?? CheckConstraint(g.constraints[i], op)])

AuthorizeSet(grants, op) ==
    LET live == SelectSeq(grants, LAMBDA g : g.id # <<>>)
        bad == ValidateCapabilityID(op.id) ?? ValidateParams(op.params)
        fails == [i \in DOMAIN live |-> Entails(live[i], op) ?? constraintsFail(live[i], op)]
        allowing == {i \in DOMAIN live : fails[i] = {}}
        residual == UNION {Range(live[i].constraints) : i \in allowing}
    IN  IF live = <<>> THEN Refused(Err("capability_not_authorized"))
        ELSE IF bad # {} THEN Refused(bad)
        ELSE IF allowing # {} THEN {Allow({c \in residual : ~coreEvaluatesConstraint(c)})}
        ELSE Refused(FirstOf([i \in DOMAIN fails |-> Surfaced(fails[i])])
                     ?? Err("capability_not_authorized"))

Authorize(g, op) == AuthorizeSet(<<g>>, op)

AuthorizeJSONText(grants, id, raw) ==
    LET bad == ValidateRawParams(raw)
    IN  IF bad # {} THEN Refused(bad)
        ELSE AuthorizeSet(grants, [id |-> id, params |-> Decode(raw)[2]])

\* Variant: only the last grant of the chain is consulted.
AuthorizeWithLeaf(chain, op) ==
    IF chain = <<>> THEN Refused(Err("absent_source")) ELSE Authorize(chain[Len(chain)], op)

AuthorizeWithChain(chain, op) ==
    LET hops == FirstOf([i \in 1..(Len(chain) - 1) |-> ContainsGrant(chain[i], chain[i + 1])])
        effective == Intersect(chain)
    IN  IF chain = <<>> THEN Refused(Err("absent_source"))
        ELSE IF hops # {} THEN Refused(hops)
        ELSE IF effective[1] # {} THEN Refused(effective[1])
        ELSE Authorize(effective[2], op)

(* Defaults of the scheme fill in the declared keys the operation omits. *)
MaterializeDefaults(g, op, defaults) ==
    [op EXCEPT !.params = @ @@ [k \in DOMAIN defaults \cap Declared(g) |-> defaults[k]]]
================================================================================
