------------------------------- MODULE ClcBounds -------------------------------
(***************************************************************************)
(* Extended parameter bounds, semantics/parambounds.go.  A bound is a      *)
(* function from the members it declares: min, max and step (ClcInterval), *)
(* enum (a sequence of values), min_items and max_items (numbers), nested  *)
(* (bounds by key) and optional.  A member of any other name, or of a      *)
(* wrong type, is the member "ill".                                        *)
(***************************************************************************)
EXTENDS ClcValues

EnumMembers == {"enum", "min_items", "max_items"}
Families == {NumericMembers, EnumMembers, {"nested"}}

boundOptional(b) == "optional" \in DOMAIN b /\ b["optional"]

Numeric(b) == [m \in DOMAIN b \cap NumericMembers |-> b[m]]

(* The families of a bound; boundFamily is the one it has, "none" is {}. *)
boundFamily(b) == {f \in Families : f \cap DOMAIN b # {}}

--------------------------------------------------------------------------------
(* Validation *)

ValidCount(b, m) == m \in DOMAIN b => b[m] >= 0 /\ Integral(b[m])

RECURSIVE validBound(_)
validBound(b) ==
    /\ DOMAIN b \subseteq NumericMembers \cup EnumMembers \cup {"nested", "optional"}
    /\ Cardinality(boundFamily(b)) <= 1
    /\ ValidNumeric(b)
    /\ ValidCount(b, "min_items") /\ ValidCount(b, "max_items")
    /\ {"min_items", "max_items"} \subseteq DOMAIN b => b["min_items"] <= b["max_items"]
    /\ "nested" \in DOMAIN b => \A k \in DOMAIN b["nested"] : validBound(b["nested"][k])

(* The JSON object a bound is written as, for the size and depth caps. *)
RECURSIVE boundValue(_)
boundValue(b) ==
    <<"obj", [m \in DOMAIN b |->
        CASE m = "nested" -> <<"obj", [k \in DOMAIN b[m] |-> boundValue(b[m][k])]>>
          [] m = "enum" -> <<"arr", b[m]>>
          [] m = "optional" -> <<"bool", b[m]>>
          [] OTHER -> <<"num", b[m]>>]>>

ValidateParamBounds(bounds, params) ==
    IF DOMAIN bounds = {} THEN {}
    ELSE validateObjectParams([k \in DOMAIN bounds |-> boundValue(bounds[k])])
         ?? Unless(\A k \in DOMAIN bounds : k \notin DOMAIN params /\ validBound(bounds[k]),
                   "invalid_params_binding")

--------------------------------------------------------------------------------
(* A request value under a bound *)

(* In halves, like every number. *)
requestCardinality(v) == 2 * (IF Kind(v) = "arr" THEN Len(v[2]) ELSE 1)

numericBound(v, b) ==
    Unless(Kind(v) = "num", "params_exceed_grant")
    ?? Unless(InRange(v[2], b), "params_out_of_range")
    ?? Unless(OnStep(v[2], b), "params_not_multiple")

enumBound(v, b) ==
    (IF "enum" \notin DOMAIN b THEN {}
     ELSE Unless(b["enum"] # <<>>, "empty_bound_denies_class") ?? InEnum(v, Range(b["enum"])))
    ?? Unless(/\ "min_items" \in DOMAIN b => requestCardinality(v) >= b["min_items"]
              /\ "max_items" \in DOMAIN b => requestCardinality(v) <= b["max_items"],
              "params_cardinality")

(* boundSubset and nestedSubset. *)
RECURSIVE boundSubset(_, _)
boundSubset(v, b) ==
    enumBound(v, b)
    ?? IF "nested" \in DOMAIN b
       THEN LET nested == b["nested"]
            IN  Unless(Kind(v) = "obj", "params_exceed_grant")
                ?? AnyOf({IF k \in DOMAIN v[2] THEN boundSubset(v[2][k], nested[k])
                          ELSE Unless(boundOptional(nested[k]), "params_missing") :
                              k \in DOMAIN nested})
                ?? {At("undeclared_param", k) : k \in DOMAIN v[2] \ DOMAIN nested}
       ELSE IF DOMAIN b \cap NumericMembers = {} THEN {} ELSE numericBound(v, b)

--------------------------------------------------------------------------------
(* Containment *)

RECURSIVE boundWithin(_, _)
boundWithin(c, p) ==
    /\ boundOptional(c) => boundOptional(p)
    /\ NumericWithin(c, p)
    /\ "enum" \in DOMAIN p => "enum" \in DOMAIN c /\ Range(c["enum"]) \subseteq Range(p["enum"])
    /\ "min_items" \in DOMAIN p => "min_items" \in DOMAIN c /\ c["min_items"] >= p["min_items"]
    /\ "max_items" \in DOMAIN p => "max_items" \in DOMAIN c /\ c["max_items"] <= p["max_items"]
    /\ "nested" \in DOMAIN p =>
         /\ "nested" \in DOMAIN c
         /\ DOMAIN c["nested"] = DOMAIN p["nested"]
         /\ \A k \in DOMAIN p["nested"] : boundWithin(c["nested"][k], p["nested"][k])

--------------------------------------------------------------------------------
(* Meet.  A result is <<reasons, bound>>; the bound counts if reasons = {}. *)

Refuse(code) == <<Err(code), Empty>>

RECURSIVE boundDeniesClass(_)
boundDeniesClass(b) ==
    \/ "enum" \in DOMAIN b /\ b["enum"] = <<>>
    \/ "nested" \in DOMAIN b /\ \E k \in DOMAIN b["nested"] : boundDeniesClass(b["nested"][k])

(* The empty results of enumMeet, ErrNoOverlap. *)
enumResult(met, both) ==
    IF \/ "enum" \in both /\ met["enum"] = <<>>
       \/ {"min_items", "max_items"} \subseteq DOMAIN met /\ met["min_items"] > met["max_items"]
    THEN Refuse("no_overlap") ELSE <<{}, met>>
commonMembers(s, t) == SetToSeq(Range(s) \cap Range(t))
(* A member declared by one side is kept, one declared by both is joined. *)
joined(x, y, m) ==
    IF m \notin DOMAIN y THEN x[m] ELSE IF m \notin DOMAIN x THEN y[m]
    ELSE CASE m = "enum" -> commonMembers(x[m], y[m])
           [] m = "min_items" -> greater(x[m], y[m])
           [] m = "max_items" -> lesser(x[m], y[m])
enumMeet(x, y) ==
    enumResult([m \in {"enum", "min_items", "max_items"} \cap (DOMAIN x \cup DOMAIN y) |->
                   joined(x, y, m)],
               DOMAIN x \cap DOMAIN y)

numericResult(b) == IF EmptyRange(b) THEN Refuse("no_overlap") ELSE <<{}, b>>

(* The meets of single keys, put together. *)
Collect(at) == <<AnyOf({at[k][1] : k \in DOMAIN at}), [k \in DOMAIN at |-> at[k][2]]>>
With(result, extra) == <<result[1], result[2] @@ extra>>
AsNested(result) == <<result[1], "nested" :> result[2]>>

(* boundMeet with numericMeet and nestedMeet: a bound of no family is the  *)
(* identity, two families do not meet, and the key stays optional only if  *)
(* both sides say so.                                                      *)
RECURSIVE boundMeet(_, _)
boundMeet(x, y) ==
    LET values(b) == [m \in DOMAIN b \ {"optional"} |-> b[m]]
        opt == IF boundOptional(x) /\ boundOptional(y) THEN "optional" :> TRUE ELSE Empty
    IN  With(IF {} \in {boundFamily(x), boundFamily(y)} THEN <<{}, values(x) @@ values(y)>>
             ELSE IF boundFamily(x) # boundFamily(y) THEN Refuse("invalid_params_binding")
             ELSE IF boundFamily(x) = {NumericMembers}
             THEN IF StepsMeet(x, y) THEN numericResult(numericMeet(Numeric(x), Numeric(y)))
                  ELSE Refuse("invalid_params_binding")
             ELSE IF boundFamily(x) = {EnumMembers} THEN enumMeet(x, y)
             ELSE IF DOMAIN x["nested"] # DOMAIN y["nested"]
             THEN LET common == DOMAIN x["nested"] \cap DOMAIN y["nested"]
                      one == IF Cardinality(DOMAIN x["nested"]) # Cardinality(DOMAIN y["nested"])
                             THEN {} ELSE common
                  IN  <<Err("no_overlap") \cup
                        AnyOf({boundMeet(x["nested"][k], y["nested"][k])[1] : k \in one}), Empty>>
             ELSE AsNested(Collect([k \in DOMAIN x["nested"] |->
                                       boundMeet(x["nested"][k], y["nested"][k])])),
             opt)

(* intersectBounds. *)
intersectBounds(x, y) ==
    With(Collect([k \in DOMAIN x \cap DOMAIN y |-> boundMeet(x[k], y[k])]), x @@ y)
================================================================================
