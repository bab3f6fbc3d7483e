------------------------------- MODULE ClcDomains -------------------------------
(***************************************************************************)
(* Declared parameter domains, semantics/domains.go.  A declaration is a   *)
(* function from parameter names to [name, unit].  The texts of the string *)
(* domains are uninterpreted: DecimalOf, LabelsOf and PathOf give the      *)
(* reading of those that parse, a number, the labels of a DNS name (the    *)
(* top-level one first) and the segments of a clean absolute path.         *)
(***************************************************************************)
EXTENDS ClcGrant

CONSTANTS DecimalOf, LabelsOf, PathOf

StringDomains == {"decimal-string", "subdomain", "path-prefix"}

Reading(domain) == CASE domain = "decimal-string" -> DecimalOf
                     [] domain = "subdomain" -> LabelsOf
                     [] domain = "path-prefix" -> PathOf

stringDomainCovers(domain, p, c) ==
    LET of == Reading(domain)
    IN  Unless(/\ Kind(p) = "str" /\ Kind(c) = "str"
               /\ {p[2], c[2]} \subseteq DOMAIN of, "invalid_params_binding")
        ?? Unless(IF domain = "decimal-string" THEN of[c[2]] <= of[p[2]]
                  ELSE IsPrefix(of[p[2]], of[c[2]]), "params_exceed_grant")

neutralize(params, names) ==
    [k \in DOMAIN params |-> IF k \in names THEN <<"str", "domain-covered">> ELSE params[k]]

(* The value of a quantity; scales run from 0 down, to whole tens. *)
quantityCheck(v, unit) ==
    Unless(/\ Kind(v) = "obj" /\ {"value", "unit"} \subseteq DOMAIN v[2]
           /\ Kind(v[2]["value"]) = "num" /\ Kind(v[2]["unit"]) = "str"
           /\ v[2]["unit"][2] # "",
           "invalid_params_binding")
    ?? Unless(v[2]["unit"][2] = unit, "unit_mismatch")
    ?? Unless("scale" \in DOMAIN v[2] =>
                 Kind(v[2]["scale"]) = "num" /\ Integral(v[2]["scale"][2]),
              "invalid_params_binding")
quantityNumber(v) ==
    LET scale == IF "scale" \in DOMAIN v[2] THEN v[2]["scale"][2] \div 2 ELSE 0
    IN  <<"num", v[2]["value"][2] * 10 ^ (-scale)>>

(* <<reasons, params>> *)
NormalizeForDomains(params, dm) ==
    LET keys == DOMAIN params \cap DOMAIN dm
        quantities == {k \in keys : dm[k].name = "quantity"}
        known == StringDomains \cup {"bound", "enum", "exact", "quantity"}
        bad == AnyOf({Unless(dm[k].name \in known, "unsupported_domain") : k \in keys})
               \cup AnyOf({quantityCheck(params[k], dm[k].unit) : k \in quantities})
    IN  <<bad, [k \in DOMAIN params |->
                   IF bad = {} /\ k \in quantities THEN quantityNumber(params[k]) ELSE params[k]]>>

declaredBoundConflict(g, dm) == DOMAIN g.bounds \cap DOMAIN dm # {}

(* The string-shaped parameters that both sides carry. *)
Compared(p, c, dm) ==
    {k \in DOMAIN p \cap DOMAIN c \cap DOMAIN dm : dm[k].name \in StringDomains}
CoverReasons(p, c, dm) ==
    [k \in Compared(p, c, dm) |-> stringDomainCovers(dm[k].name, p[k], c[k])]

EntailsWithDomains(g, op, dm) ==
    LET names == Compared(g.params, op.params, dm)
        gp == NormalizeForDomains(neutralize(g.params, names), dm)
        opp == NormalizeForDomains(neutralize(op.params, names), dm)
    IN  AnyOf(Range(CoverReasons(g.params, op.params, dm)))
        ?? gp[1] ?? opp[1]
        ?? Entails([g EXCEPT !.params = gp[2]], [op EXCEPT !.params = opp[2]])

(* One grant of AuthorizeSetWithDomains.  The accumulator holds the deny   *)
(* reasons, the operation's params so far, which are neutralized for this  *)
(* grant and for all that follow, and the grants that stay usable.         *)
applyDomains(acc, g, dm) ==
    LET reasons == CoverReasons(g.params, acc.params, dm)
        covered == {k \in DOMAIN reasons : reasons[k] = {}}
        gp == NormalizeForDomains(neutralize(g.params, covered), dm)
        conflict == IF declaredBoundConflict(g, dm) THEN Err("invalid_params_binding") ELSE {}
        usable == covered = DOMAIN reasons
        bad == conflict
               ?? Unless(Err("invalid_params_binding") \notin Range(reasons), "invalid_params_binding")
               ?? IF usable THEN gp[1] ELSE {}
    IN  IF acc.bad # {} THEN acc
        ELSE [bad |-> bad,
              params |-> neutralize(acc.params, covered),
              norm |-> IF usable THEN Append(acc.norm, [g EXCEPT !.params = gp[2]]) ELSE acc.norm]

AuthorizeSetWithDomains(grants, op, dm) ==
    LET turn(acc, g) == applyDomains(acc, g, dm)
        end == FoldLeft(turn, [bad |-> {}, params |-> op.params, norm |-> <<>>], grants)
        opp == NormalizeForDomains(end.params, dm)
        bad == end.bad
               ?? Unless(end.norm # <<>> \/ grants = <<>>, "params_exceed_grant")
               ?? opp[1]
    IN  IF bad # {} THEN Refused(bad)
        ELSE AuthorizeSet(end.norm, [op EXCEPT !.params = opp[2]])

ContainsWithDomains(parent, child, pd, cd) ==
    LET both == [k \in DOMAIN pd \cap DOMAIN cd |-> pd[k]]
        names == Compared(parent.params, child.params, both)
        pp == NormalizeForDomains(neutralize(parent.params, names), pd)
        cp == NormalizeForDomains(neutralize(child.params, names), cd)
    IN  Unless(/\ ~declaredBoundConflict(parent, pd) /\ ~declaredBoundConflict(child, cd)
               /\ \A k \in DOMAIN both : pd[k].name = cd[k].name
               /\ Range(CoverReasons(parent.params, child.params, both)) \subseteq {{}}
               /\ pp[1] = {} /\ cp[1] = {}, "params_not_narrower")
        ?? ContainsGrant([parent EXCEPT !.params = pp[2]], [child EXCEPT !.params = cp[2]])
================================================================================
