------------------------------ MODULE ClcInterval ------------------------------
(***************************************************************************)
(* The numeric family of CLC parameter bounds (semantics/parambounds.go):  *)
(* inclusive min and max and a step, each of them optional.  A numeric     *)
(* bound is a function from the members it declares to their numbers.      *)
(*                                                                         *)
(* Numbers count halves: 3 stands for 1.5, and the even ones are the JSON  *)
(* integers.  The code divides binary64 numbers; the rounding of a         *)
(* quotient is not modelled.                                               *)
(***************************************************************************)
EXTENDS Integers

NumericMembers == {"min", "max", "step"}

(* validateBound on the numeric members: the step is positive, and the     *)
(* minimum is not above the maximum.                                       *)
ValidNumeric(b) ==
    /\ "step" \in DOMAIN b => b["step"] > 0
    /\ {"min", "max"} \subseteq DOMAIN b => b["min"] <= b["max"]

(* The numeric bounds ValidateParamBounds lets through. *)
NumericBounds ==
    {b \in UNION {[D -> Int] : D \in SUBSET NumericMembers} : ValidNumeric(b)}

Integral(n) == n % 2 = 0

isMultipleOf(v, step) == step # 0 /\ v % step = 0

(* numericBound, for a value that is a number: the range, then the step. *)
InRange(v, b) ==
    /\ "min" \in DOMAIN b => v >= b["min"]
    /\ "max" \in DOMAIN b => v <= b["max"]
OnStep(v, b) == "step" \in DOMAIN b => isMultipleOf(v, b["step"])
Admits(b, v) == InRange(v, b) /\ OnStep(v, b)

(* boundWithin on the numeric members: the child declares each member of   *)
(* the parent and is no wider in it.                                       *)
NumericWithin(c, p) ==
    /\ "min" \in DOMAIN p => "min" \in DOMAIN c /\ c["min"] >= p["min"]
    /\ "max" \in DOMAIN p => "max" \in DOMAIN c /\ c["max"] <= p["max"]
    /\ "step" \in DOMAIN p => "step" \in DOMAIN c /\ isMultipleOf(c["step"], p["step"])

greater(x, y) == IF x > y THEN x ELSE y
lesser(x, y) == IF x < y THEN x ELSE y

(* Two steps meet only when one is a multiple of the other. *)
StepsMeet(a, b) ==
    "step" \in DOMAIN a \cap DOMAIN b =>
        isMultipleOf(a["step"], b["step"]) \/ isMultipleOf(b["step"], a["step"])

CoarserStep(x, y) == IF isMultipleOf(x, y) THEN x ELSE y

(* numericMeet: a member of one side is kept, a member of both is the      *)
(* tighter one.                                                            *)
numericMeet(a, b) ==
    [m \in DOMAIN a \cup DOMAIN b |->
        IF m \notin DOMAIN b THEN a[m]
        ELSE IF m \notin DOMAIN a THEN b[m]
        ELSE IF m = "min" THEN greater(a[m], b[m])
        ELSE IF m = "max" THEN lesser(a[m], b[m])
        ELSE CoarserStep(a[m], b[m])]

(* The empty interval of numericMeet, ErrNoOverlap. *)
EmptyRange(b) == {"min", "max"} \subseteq DOMAIN b /\ b["min"] > b["max"]
================================================================================
