----------------------------- MODULE MCRuleGateway -----------------------------
(* Clients: "zhang" has conditions and a flow whose branch reads what an    *)
(* operation returned and a later one overwrites, "li" has a flow of        *)
(* nothing but operations, "deep" is nested beyond the static bound, "far"  *)
(* has a condition beyond the depth limit, "wide" names two tables, "not2"  *)
(* has a malformed condition, and "nobody" has no rule.                     *)
EXTENDS RuleGateway, TLC

\* A condition with its operator, items and fact, n conditions deep.
MCCond(op, items, fact, n) == [op |-> op, items |-> items, fact |-> fact, size |-> n]

MCCondOf ==
    [all |-> MCCond("and", <<"get", "some">>, None, 4),
     get |-> MCCond("compare", <<>>, "method", 1),
     some |-> MCCond("or", <<"noagent", "known">>, None, 3),
     noagent |-> MCCond("is-null", <<>>, "agent", 1),
     known |-> MCCond("not", <<"blocked">>, None, 2),
     blocked |-> MCCond("compare", <<>>, "agent", 1),
     n1 |-> MCCond("not", <<"n2">>, None, 5),
     n2 |-> MCCond("not", <<"n3">>, None, 4),
     n3 |-> MCCond("not", <<"known">>, None, 3),
     found |-> MCCond("compare", <<>>, "result", 1),
     not2 |-> MCCond("not", <<"get", "get">>, None, 2)]

MCOp(sets, from, to) ==
    [kind |-> "op", cond |-> None, then |-> <<>>, else |-> <<>>, steps |-> <<>>, sets |-> sets,
     from |-> from, to |-> to]
MCIf(cond, then, else, from, to) ==
    [MCOp(None, from, to) EXCEPT !.kind = "if", !.cond = cond, !.then = then, !.else = else]
MCSeq(list, from, to) == [MCOp(None, from, to) EXCEPT !.kind = "seq", !.steps = list]

MCStepOf ==
    [look |-> MCOp("result", 0, 0),
     choose |-> MCIf("found", <<"both">>, <<"log">>, 1, 5),
     both |-> MCSeq(<<"a", "b">>, 2, 4),
     a |-> MCOp(None, 3, 3), b |-> MCOp(None, 4, 4), log |-> MCOp("result", 5, 5),
     d1 |-> MCSeq(<<"d2">>, 0, 4),
     d2 |-> MCSeq(<<"d3">>, 1, 4),
     d3 |-> MCSeq(<<"d4">>, 2, 4),
     d4 |-> MCSeq(<<"d5">>, 3, 4),
     d5 |-> MCSeq(<<>>, 4, 4)]

MCRule(cond, hasFlow, flow, tables) ==
    [cond |-> cond, hasFlow |-> hasFlow, flow |-> flow, tables |-> tables, renders |-> TRUE]

MCRules ==
    [zhang |-> MCRule("all", TRUE, <<"look", "choose">>, <<"t1">>),
     li |-> MCRule(None, TRUE, <<"a", "b", "log">>, <<"t2">>),
     deep |-> MCRule(None, TRUE, <<"d1">>, <<"t1">>),
     far |-> MCRule("n1", FALSE, <<>>, <<"t1">>),
     wide |-> MCRule("get", FALSE, <<>>, <<"t1", "t2">>),
     not2 |-> MCRule("not2", FALSE, <<>>, <<"t1">>)]

MCFacts == [method : {"true", "false"}, agent : Values, result : {"missing"}]

\* The two rules of the concurrent runs, whose operations are fewer.
MCStepOfTwo == [MCStepOf EXCEPT !.log.sets = None]

MCRulesTwo ==
    [zhang |-> MCRule("known", TRUE, <<"look", "choose">>, <<"t1">>),
     li |-> MCRule(None, TRUE, <<"a", "b">>, <<"t2">>)]

MCFactsTwo == [agent : {"false", "true"}, result : {"missing"}]

MCSymmetry == Permutations(Requests)
================================================================================
