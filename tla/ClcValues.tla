------------------------------- MODULE ClcValues -------------------------------
(***************************************************************************)
(* JSON parameter values of the capability language core, package          *)
(* semantics: their validation at the input boundary and valueSubset, the  *)
(* relation between a requested and a granted value.                       *)
(*                                                                         *)
(* A value is tagged: <<"num", n>> (n counts halves, see ClcInterval),     *)
(* <<"str", s>>, <<"bool", b>>, <<"arr", values>>, <<"obj", members>>      *)
(* (a function on key names) or <<"null">>.  A params object, absent or    *)
(* empty, is such a function; the code treats nil and {} alike.  Texts are *)
(* well-formed Unicode and numbers finite.                                 *)
(***************************************************************************)
EXTENDS ClcConstraint, SequencesExt

CONSTANTS
    MaxNesting,     \* maxParamsNesting
    MaxSize         \* maxParamsSerializedBytes, in canonical tokens

ASSUME CapsAssumption == {MaxNesting, MaxSize} \subseteq Nat

Empty == [k \in {} |-> <<"null">>]

Kind(v) == v[1]

(* The containers: arrays, objects, and "raw", the text of an object: a    *)
(* sequence of <<key, value>> members, which may repeat a key.             *)
IsContainer(v) == Kind(v) \in {"arr", "obj", "raw"}
Child(v, i) == IF Kind(v) = "raw" THEN v[2][i][2] ELSE v[2][i]
Children(v) == IF IsContainer(v) THEN {Child(v, i) : i \in DOMAIN v[2]} ELSE {}

--------------------------------------------------------------------------------
(* Input boundary *)

(* rejectNonFinite and checkParamsNumber: integers past the I-JSON bound. *)
RECURSIVE rejectNonFinite(_)
rejectNonFinite(v) ==
    IF Kind(v) = "num"
    THEN Unless(Integral(v[2]) => v[2] \in -IJsonMax..IJsonMax, "invalid_params_number")
    ELSE AnyOf({rejectNonFinite(c) : c \in Children(v)})

RECURSIVE paramsDepth(_, _)
paramsDepth(v, depth) ==
    IF IsContainer(v)
    THEN Max({depth} \cup {paramsDepth(c, depth + 1) : c \in Children(v)})
    ELSE depth - 1

(* The length of the canonical text, in tokens: brackets, keys, scalars. *)
RECURSIVE canonicalSize(_)
canonicalSize(v) ==
    IF ~IsContainer(v) THEN 1
    ELSE LET keys == IF Kind(v) = "arr" THEN 0 ELSE Cardinality(DOMAIN v[2])
         IN  2 + keys + SumFunction([i \in DOMAIN v[2] |-> canonicalSize(Child(v, i))])

WithinCaps(v) ==
    Unless(paramsDepth(v, 1) <= MaxNesting /\ canonicalSize(v) <= MaxSize, "invalid_params_size")

validateObjectParams(params) == WithinCaps(<<"obj", params>>)

(* ValidateGrantParams and ValidateOperationParams, which are the same. *)
ValidateParams(params) ==
    validateObjectParams(params)
    ?? AnyOf({IF Kind(params[k]) = "null" THEN {At("invalid_params_null", k)}
              ELSE rejectNonFinite(params[k]) : k \in DOMAIN params})

RECURSIVE duplicateKeys(_)
duplicateKeys(v) ==
    (IF Kind(v) # "raw" THEN {}
     ELSE {At("invalid_params_duplicate_key", v[2][i][1]) :
              i \in {j \in DOMAIN v[2] : \E h \in 1..(j - 1) : v[2][h][1] = v[2][j][1]}})
    \cup AnyOf({duplicateKeys(c) : c \in Children(v)})

(* ValidateRawParams with walkParamsValue: size and depth, then duplicate  *)
(* keys, then number shape.                                                *)
ValidateRawParams(raw) ==
    Unless(Kind(raw) = "raw", "invalid_params_number")
    ?? WithinCaps(raw)
    ?? duplicateKeys(raw)
    ?? rejectNonFinite(raw)

(* json.Unmarshal: the last member of a repeated key stays. *)
RECURSIVE Decode(_)
Decode(v) ==
    CASE Kind(v) = "raw" ->
           <<"obj", [k \in {v[2][i][1] : i \in DOMAIN v[2]} |->
                        Decode(v[2][Max({i \in DOMAIN v[2] : v[2][i][1] = k})][2])]>>
      [] Kind(v) = "arr" -> <<"arr", [i \in DOMAIN v[2] |-> Decode(v[2][i])]>>
      [] OTHER -> v

--------------------------------------------------------------------------------
(* The subset relation *)

isEmptyBound(v) == Kind(v) \in {"arr", "obj"} /\ DOMAIN v[2] = {}

(* The values a request supplies to an enum: its elements, or itself. *)
Elements(v) == IF Kind(v) = "arr" THEN Range(v[2]) ELSE {v}

(* Enum members compare by their canonical text, that is as values. *)
InEnum(v, members) == Unless(Elements(v) \subseteq members, "not_in_enum")

RECURSIVE valueSubset(_, _)
valueSubset(op, grant) ==
    IF Kind(op) = "null" THEN Err("invalid_params_null")
    ELSE CASE Kind(grant) = "null" -> Err("empty_bound_denies_class")
           [] Kind(grant) = "arr" ->
                Unless(grant[2] # <<>>, "empty_bound_denies_class") ?? InEnum(op, Range(grant[2]))
           [] Kind(grant) = "obj" ->
                Unless(Kind(op) = "obj", "params_exceed_grant")
                ?? IF isEmptyBound(grant) THEN {}
                   ELSE AnyOf({IF k \in DOMAIN op[2] THEN valueSubset(op[2][k], grant[2][k])
                               ELSE Err("params_missing") : k \in DOMAIN grant[2]})
                        ?? {At("undeclared_param", k) : k \in DOMAIN op[2] \ DOMAIN grant[2]}
           [] Kind(grant) = "num" ->
                Unless(Kind(op) = "num" /\ op[2] <= grant[2], "params_exceed_grant")
           [] OTHER -> Unless(op = grant, "params_exceed_grant")

(* containsWithin, and ConstraintWithin of the publication boundary, which *)
(* let an absent bound pass.                                               *)
ConstraintWithin(value, bound) ==
    Unless(Kind(value) # "null", "invalid_params_null")
    ?? IF Kind(bound) = "null" THEN {} ELSE valueSubset(value, bound)

(* intersectValue: <<>> when the two values do not overlap, <<v>> else. *)
RECURSIVE intersectValue(_, _)
intersectValue(x, y) ==
    IF Kind(x) # Kind(y) THEN <<>>
    ELSE CASE Kind(x) = "num" -> <<<<"num", lesser(x[2], y[2])>>>>
           [] Kind(x) = "arr" ->
                LET common == SelectSeq(x[2], LAMBDA e : e \in Range(y[2]))
                IN  IF common = <<>> THEN <<>> ELSE <<<<"arr", common>>>>
           [] Kind(x) = "obj" ->
                LET keys == DOMAIN x[2]
                    at == [k \in keys \cap DOMAIN y[2] |-> intersectValue(x[2][k], y[2][k])]
                IN  IF keys # DOMAIN y[2] \/ keys = {} \/ <<>> \in Range(at) THEN <<>>
                    ELSE <<<<"obj", [k \in keys |-> at[k][1]]>>>>
           [] OTHER -> IF x = y THEN <<x>> ELSE <<>>
================================================================================
