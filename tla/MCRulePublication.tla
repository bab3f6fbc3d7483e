-------------------------- MODULE MCRulePublication --------------------------
(* Two scheme directories, two versions whose numeric and lexical orders   *)
(* differ, and two publishers: one whose certificate is granted everything *)
(* the rules do, one that is granted less.                                 *)
EXTENDS RulePublication, TLC

A == "std/a-v1"
B == "std/b-v1"
V2 == <<1, 2>>
V10 == <<1, 10>>

Null == [op |-> "eq", value |-> "null", path |-> TRUE]
Rule(s, cap, level, constraints, conditions) ==
    [formatted |-> TRUE, scheme |-> s, cap |-> cap, level |-> level, constraints |-> constraints,
     conditions |-> conditions, flow |-> {[kind |-> "op", condition |-> {}]}]
MaxRows(n) == <<[scheme |-> "constraint", id |-> "max-rows", value |-> <<n>>]>>

Small == Rule(A, "query", <<1>>, MaxRows(5), {[op |-> "gt", value |-> "number", path |-> TRUE]})
Large == Rule(A, "query", <<2>>, MaxRows(5), {})
Other == Rule(B, "send", <<>>, <<>>, {})
Broken == Rule(B, "send", <<>>, <<>>, {Null})

MCSchemeOrder == <<A, B>>
MCVersions == {V2, V10}
MCCapabilities == (<<A, "query">> :> 2) @@ (<<B, "send">> :> 1)
MCRequired == {<<A, "query">>}
MCClaims == {<<Small>>, <<Large, Other>>}
MCStart == {V2, V10}
MCHandwritten == {<<<<A, V10>>, Large>>, <<<<B, V2>>, Broken>>, <<<<B, V2>>, Small>>}
Grant(s, cap, level) == [scheme |-> s, cap |-> cap, level |-> level]
MCAic == ("wide" :> <<[capabilities |-> {Grant(A, "*", <<2>>), Grant(B, "send", <<>>)},
                      constraints |-> <<[id |-> "max-rows", value |-> <<9>>]>>]>>)
         @@ ("narrow" :> <<[capabilities |-> {Grant(A, "query", <<1>>)},
                            constraints |-> <<[id |-> "max-rows", value |-> <<>>]>>]>>)

(* "empty": gen-rule fills the tree while one publisher works.  "shared":  *)
(* two publishers over one file.  "reload": an edited tree is published    *)
(* again under a gateway that loads twice.                                 *)
MCScenarios ==
    {[sources |-> <<>>, configured |-> {B}, publishers |-> {"wide"},
      generate |-> 2, edit |-> 0, publish |-> 1, load |-> 1, crash |-> 1],
     [sources |-> (<<A, V2>> :> Small), configured |-> {}, publishers |-> {"wide", "narrow"},
      generate |-> 0, edit |-> 1, publish |-> 2, load |-> 1, crash |-> 0],
     [sources |-> (<<A, V2>> :> Small), configured |-> {}, publishers |-> {"wide"},
      generate |-> 0, edit |-> 1, publish |-> 2, load |-> 2, crash |-> 1]}
==============================================================================
