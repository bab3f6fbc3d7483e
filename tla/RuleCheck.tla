------------------------------ MODULE RuleCheck ------------------------------
(***************************************************************************)
(* The checks a rule file has to pass before it is written (gen-rule),     *)
(* signed (PublishRules) or executed (loadAuthorizedRule).                 *)
(*                                                                         *)
(* A rule is a record                                                      *)
(*   formatted    rule_id, version and scheme are well formed              *)
(*   scheme, cap  the capability it implements                             *)
(*   level        its params: <<>> absent, <<n>> one numeric parameter     *)
(*   constraints  a sequence of [scheme, id, value], value <<>> or <<n>>   *)
(*   conditions   the nodes of its condition tree, as a set                *)
(*   flow         the steps of its flow at any depth, as a set             *)
(* checkCondition and checkSteps visit every node and stop at the first    *)
(* bad one, so the set of the nodes decides their answer.                  *)
(***************************************************************************)
EXTENDS Integers, Sequences, Functions

CONSTANTS
    Capabilities,   \* <<scheme, cap>> |-> the largest level its contract allows
    Required        \* the <<scheme, cap>> whose contract requires the parameter

(* What a reader finds where os.WriteFile has truncated a file and not yet *)
(* written it, and where there is no file.                                 *)
Torn == [torn |-> TRUE]
Absent == [absent |-> TRUE]

knownConditionOps == {"and", "or", "not", "eq", "neq", "lt", "lte", "gt", "gte",
                      "in", "between", "is-null"}
knownStepKinds == {"op", "if", "seq"}

checkCondition(c) ==
    /\ c.op \in {"eq", "neq", "lt", "lte", "gt", "gte"} => ~(c.value = "null" /\ c.path)
    /\ c.op = "in" => c.value # "list with null"
    /\ c.op \in knownConditionOps

checkStep(s) ==
    /\ s.kind \in knownStepKinds
    /\ s.kind = "if" => s.condition # {}
    /\ \A c \in s.condition : checkCondition(c)

ValidateStructure(r) ==
    /\ r.formatted
    /\ \A c \in r.conditions : checkCondition(c)
    /\ \A s \in r.flow : checkStep(s)

(* A truncated file is not a JSON document.                                *)
LoadRuleBytes(data) == data \notin {Torn, Absent} /\ ValidateStructure(data)

ConstraintSchemes == {"varwof/constraint-v1", "constraint", "constraint-v1"}

Validate(r) ==
    /\ <<r.scheme, r.cap>> \in DOMAIN Capabilities
    /\ \A c \in Range(r.constraints) : c.scheme \in ConstraintSchemes
    /\ r.level = <<>> => <<r.scheme, r.cap>> \notin Required
    /\ r.level # <<>> => r.level[1] <= Capabilities[<<r.scheme, r.cap>>]

Valid(data) == LoadRuleBytes(data) /\ Validate(data)

(* A granted identifier covers the rule's: the same one, or the wildcard   *)
(* of its scheme.                                                          *)
coversID(g, r) == g.scheme = r.scheme /\ g.cap \in {r.cap, "*"}

(* semantics.Entails on the one parameter: a grant that declares none is   *)
(* unconstrained, one that declares it wants it present and not larger.    *)
Entails(g, r) == g.level # <<>> => r.level # <<>> /\ r.level[1] <= g.level[1]

ConstraintWithin(value, bound) == value # <<>> /\ (bound # <<>> => value[1] <= bound[1])

(* Only the signer's first constraint of that name is consulted.           *)
DeclaredBy(aic, id) ==
    SelectSeq(aic.constraints, LAMBDA sc : sc.id = id)

ruleConstraintsWithinSigner(r, aic) ==
    \A c \in Range(r.constraints) :
        /\ DeclaredBy(aic, c.id) # <<>>
        /\ ConstraintWithin(c.value, DeclaredBy(aic, c.id)[1].value)

(* The AIC of the signer's certificate is <<>> when it carries none.       *)
RuleWithinSignerGrant(r, aic) ==
    /\ aic # <<>>
    /\ \E g \in aic[1].capabilities : coversID(g, r) /\ Entails(g, r)
    /\ ruleConstraintsWithinSigner(r, aic[1])
==============================================================================
