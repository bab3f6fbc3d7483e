----------------------------- MODULE ClcConstraint -----------------------------
(***************************************************************************)
(* Constraints of the capability language core (semantics.go) and the      *)
(* evaluation of a time window against a clock (resolve.go).               *)
(*                                                                         *)
(* A constraint is a pair <<type, value>>: max_rows with a number, time    *)
(* with its segments, network with "list" or "malformed".  These three     *)
(* belong to the reserved scheme; a pair of any other type stands for an   *)
(* identity the core does not recognise, and "" for a text that has none.  *)
(*                                                                         *)
(* A check returns the set of reasons the code may give, pairs of a code   *)
(* and the key it names: {} when the check passes, several where Go's map  *)
(* iteration order decides which is met first.                             *)
(***************************************************************************)
EXTENDS ClcInterval, Sequences, FiniteSets

CONSTANTS
    IJsonMax,       \* ijsonMaxInteger, in halves
    Day,            \* the seconds of a day
    MaxWindows      \* maxTimeWindows

ASSUME ConstraintAssumption == {IJsonMax, Day, MaxWindows} \subseteq Nat

Err(code) == {<<code, "">>}
At(code, key) == <<code, key>>

(* The first check that fails decides. *)
a ?? b == IF a # {} THEN a ELSE b
AnyOf(checks) == UNION checks
Unless(cond, code) == IF cond THEN {} ELSE Err(code)

(* Of a sequence of checks, the first that fails. *)
FirstOf(checks) ==
    LET failing == {i \in DOMAIN checks : checks[i] # {}}
    IN  IF failing = {} THEN {}
        ELSE checks[CHOOSE i \in failing : \A j \in failing : i <= j]

(* A segment that ends at 00:00 ends at the next midnight. *)
endOf(seg) == IF seg[2] = 0 THEN Day ELSE seg[2]

validTimeWindow(segs) ==
    /\ Len(segs) \in 1..MaxWindows
    /\ \A i \in DOMAIN segs : segs[i][1] < endOf(segs[i]) /\ segs[i] # <<0, 0>>
    /\ \A i \in 2..Len(segs) : endOf(segs[i - 1]) <= segs[i][1]

ValidateConstraint(c) ==
    CASE c[1] = "max_rows" ->
           Unless(c[2] \in 0..IJsonMax /\ Integral(c[2]), "invalid_constraint")
      [] c[1] = "time" -> Unless(validTimeWindow(c[2]), "invalid_constraint")
      [] c[1] = "network" -> Unless(c[2] = "list", "invalid_constraint")
      [] OTHER -> Err("unknown_constraint")

(* Only max_rows has an evaluator in the core. *)
coreEvaluatesConstraint(c) == c[1] = "max_rows"

(* evalCoreTimeWindow: whether the clock decides the constraint, and how. *)
ClockDecides(c) == c[1] = "time" /\ ValidateConstraint(c) = {}
InWindow(c, now) ==
    LET sod == now % Day
    IN  \E i \in DOMAIN c[2] : c[2][i][1] <= sod /\ sod < endOf(c[2][i])
================================================================================
