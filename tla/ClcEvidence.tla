------------------------------ MODULE ClcEvidence ------------------------------
(***************************************************************************)
(* The evidence side of package semantics: requirement.go (the relying     *)
(* party's bar, its bounded expression grammar and its evaluation),        *)
(* evidence.go (the constraints on the facts of a role) and the challenge  *)
(* an unfilled bar gives rise to (challenge.go).                           *)
(*                                                                         *)
(* An expression is the sequence of its tokens, "?" standing for a         *)
(* character outside the grammar.  A requirement is [version, id, text,    *)
(* constraints], each constraint [role, constraint]; an evidence           *)
(* constraint is a pair <<type, value>>.  A fact is [type, subject,        *)
(* issued, verified], with subject "" and instant 0 when it has none.      *)
(***************************************************************************)
EXTENDS ClcDecision, SequencesExt

CONSTANTS
    MaxExpression,      \* maxRequirementExpressionBytes, in tokens
    MaxNodes,           \* maxRequirementNodes
    MaxDepth,           \* maxRequirementDepth
    MaxEvidenceAge      \* maxEvidenceAgeSeconds

ASSUME GrammarAssumption == {MaxExpression, MaxNodes, MaxDepth, MaxEvidenceAge} \subseteq Nat

RequirementVersion == "CLC-REQUIREMENT-v1"

--------------------------------------------------------------------------------
(* The parser.  Its state is [bad, expr, pos, nodes]: the reasons it has   *)
(* stopped for, the tree so far, the next token, the operators seen.       *)

requirementOperator(tok) ==
    CASE tok \in {"AND", "&&"} -> "AND" [] tok \in {"OR", "||"} -> "OR" [] OTHER -> ""

Leaf(ident) == [op |-> "", ident |-> ident]
Node(tok, left, right) == [op |-> requirementOperator(tok), left |-> left, right |-> right]
Stopped(code) == [bad |-> Err(code), expr |-> Leaf(""), pos |-> 0, nodes |-> 0]
Unparsed == "requirement_expression"

(* The closing parenthesis of a term. *)
Closed(text, inner) ==
    IF inner.bad # {} THEN inner
    ELSE IF inner.pos > Len(text) \/ text[inner.pos] # ")" THEN Stopped(Unparsed)
    ELSE [inner EXCEPT !.pos = @ + 1]

RECURSIVE parseExpr(_, _, _, _), parseRest(_, _, _), joined(_, _, _, _)

parseTerm(text, pos, nodes, depth) ==
    IF pos > Len(text) THEN Stopped(Unparsed)
    ELSE IF text[pos] = "(" THEN Closed(text, parseExpr(text, pos + 1, nodes, depth + 1))
    ELSE IF text[pos] = ")" \/ requirementOperator(text[pos]) # "" THEN Stopped(Unparsed)
    ELSE [bad |-> {}, expr |-> Leaf(text[pos]), pos |-> pos + 1, nodes |-> nodes]

parseExpr(text, pos, nodes, depth) ==
    IF depth > MaxDepth THEN Stopped("requirement_shape")
    ELSE parseRest(text, parseTerm(text, pos, nodes, depth), depth)

(* The loop over the operators that follow a term. *)
parseRest(text, left, depth) ==
    IF left.bad # {} \/ left.pos > Len(text) THEN left
    ELSE IF requirementOperator(text[left.pos]) = "" THEN left
    ELSE joined(text, left, parseTerm(text, left.pos + 1, left.nodes, depth), depth)

joined(text, left, right, depth) ==
    IF right.bad # {} THEN right
    ELSE IF right.nodes + 1 > MaxNodes THEN Stopped("requirement_shape")
    ELSE parseRest(text, [right EXCEPT !.expr = Node(text[left.pos], left.expr, right.expr),
                                       !.nodes = @ + 1], depth)

(* All the tokens must be used. *)
wholeText(text, parsed) ==
    IF parsed.bad = {} /\ parsed.pos # Len(text) + 1 THEN Stopped(Unparsed) ELSE parsed

parseRequirementExpression(text) ==
    IF text = <<>> \/ "?" \in ToSet(text) THEN Stopped(Unparsed)
    ELSE wholeText(text, parseExpr(text, 1, 0, 0))

RECURSIVE eval(_, _)
eval(e, present) ==
    CASE e.op = "" -> e.ident \in present
      [] e.op = "AND" -> eval(e.left, present) /\ eval(e.right, present)
      [] OTHER -> eval(e.left, present) \/ eval(e.right, present)

RECURSIVE roles(_)
roles(e) == IF e.op = "" THEN {e.ident} ELSE roles(e.left) \cup roles(e.right)

--------------------------------------------------------------------------------
(* Evidence constraints. *)

ValidateEvidenceConstraint(c) ==
    Unless(CASE c[1] = "freshness" -> c[2] \in 0..MaxEvidenceAge
             [] c[1] = "quorum" -> c[2] \in Nat \ {0, 1}
             [] c[1] = "exclusion" -> c[2] \in {"initiator", "executor"}
             [] c[1] = "consumption" -> c[2] = "once"
             [] OTHER -> FALSE, "invalid_evidence_constraint")

EvidenceFactsOfRole(facts, role) == SelectSeq(facts, LAMBDA f : f.type = role)
eligible(facts) == SelectSeq(facts, LAMBDA f : f.verified)
distinctSubjects(facts) == {f.subject : f \in ToSet(eligible(facts))} \ {""}

Evaluated(c, verdict, reason) == [constraint |-> c, verdict |-> verdict, reason |-> reason]

(* What the first fact that is not fresh fails for. *)
notFresh(f, now, maxAge) ==
    IF f.issued = 0 THEN "no_issuance_time"
    ELSE IF f.issued > now THEN "future_issued"
    ELSE IF now - f.issued > maxAge THEN "stale" ELSE ""
freshness(c, facts, now) ==
    LET reasons == SelectSeq([i \in DOMAIN facts |-> notFresh(facts[i], now, c[2])],
                             LAMBDA r : r # "")
    IN  CASE reasons # <<>> -> Evaluated(c, "violated", reasons[1])
          [] facts = <<>> -> Evaluated(c, "violated", "no_eligible_fact")
          [] OTHER -> Evaluated(c, "satisfied", "")

exclusion(c, facts, excluded) ==
    CASE excluded = "" -> Evaluated(c, "unknown", "identity_not_supplied")
      [] excluded \in distinctSubjects(facts) -> Evaluated(c, "violated", "is_approver")
      [] OTHER -> Evaluated(c, "satisfied", "")

EvaluateEvidenceConstraint(c, facts, ctx) ==
    CASE c[1] = "freshness" -> freshness(c, eligible(facts), ctx.now)
      [] c[1] = "quorum" ->
           IF Cardinality(distinctSubjects(facts)) < c[2] THEN Evaluated(c, "violated", "quorum")
           ELSE Evaluated(c, "satisfied", "")
      [] c[1] = "exclusion" -> exclusion(c, facts, ctx[c[2]])
      [] OTHER -> Evaluated(c, "unknown", "not_core_evaluated")

--------------------------------------------------------------------------------
(* Requirements. *)

(* Requirement.Validate; ParseRequirement adds only what the text decides. *)
ValidateRequirement(req) ==
    Unless(req.version = RequirementVersion, "requirement_version")
    ?? Unless(req.id # "" /\ Len(req.text) <= MaxExpression, "requirement_shape")
    ?? parseRequirementExpression(req.text).bad
    ?? FirstOf([i \in DOMAIN req.constraints |->
          Unless(req.constraints[i].role # "", "requirement_shape")
          ?? ValidateEvidenceConstraint(req.constraints[i].constraint)
          ?? Unless(\A j \in 1..(i - 1) : req.constraints[j] # req.constraints[i],
                    "requirement_shape")])

Present(facts) == {f.type : f \in ToSet(eligible(facts))}

(* RequirementResult of a valid requirement; the digest is the requirement. *)
Outcome(req, expr, evaluations, present) ==
    LET filled == eval(expr, present)
        found == {e.verdict : e \in ToSet(evaluations)}
    IN  [digest |-> req, expression |-> filled, constraints |-> evaluations,
         missing |-> IF filled THEN {} ELSE roles(expr) \ present,
         verdict |-> IF ~filled \/ "violated" \in found THEN "violated"
                     ELSE IF "unknown" \in found THEN "unknown" ELSE "satisfied"]

EvaluateRequirement(req, facts, ctx) ==
    Outcome(req, parseRequirementExpression(req.text).expr,
            [i \in DOMAIN req.constraints |->
               EvaluateEvidenceConstraint(req.constraints[i].constraint,
                  EvidenceFactsOfRole(facts, req.constraints[i].role), ctx)],
            Present(facts))

(* <<reasons, challenge>>: a required item is a missing role or a          *)
(* constraint that is not satisfied.                                       *)
BuildChallengeFromRequirement(req, result, now, ttl, notBefore) ==
    LET asked == {<<"role", r>> : r \in result.missing}
                 \cup {e.constraint : e \in {x \in ToSet(result.constraints) :
                                               x.verdict # "satisfied"}}
        c == [required |-> asked, expires |-> now + ttl, notBefore |-> notBefore]
    IN  <<ValidateRequirement(req)
          ?? Unless(result.verdict # "satisfied" /\ asked # {}, "challenge_not_outstanding")
          ?? validChallenge(c), c>>
================================================================================
