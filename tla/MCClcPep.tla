-------------------------------- MODULE MCClcPep --------------------------------
(* One scheme, nested identifiers, and values of every kind: 6 is the      *)
(* number 3, 3 the number 1.5.                                             *)
EXTENDS ClcPep

S == "varwof/db-v1"
N(n) == <<"num", n>>
T(s) == <<"str", s>>
ArrOf(s) == <<"arr", s>>
ObjOf(f) == <<"obj", f>>
G(id, params, bounds, constraints) ==
    [id |-> id, params |-> params, bounds |-> bounds, constraints |-> constraints]
O(id, params) == [id |-> id, params |-> params]
Qa == <<S, "q", "a">>
QAny == <<S, "q", "*">>
Office == <<"time", <<<<1, 2>>, <<3, 0>>>>>>
Network == <<"network", "list">>

MCSchemes == {S}
MCBadWildcards == {"a*"}
MCRevision == <<1, 19>>
MCGrants == {
    G(QAny, Empty, Empty, <<Network>>),
    G(QAny, "t" :> ArrOf(<<T("a"), T("b"), N(4)>>), Empty, <<>>),
    G(Qa, "t" :> T("a"), Empty, <<Office>>),
    G(Qa, "t" :> N(4), Empty, <<>>),
    G(Qa, "t" :> ArrOf(<<T("b"), N(4)>>), Empty, <<<<"max_rows", 4>>>>),
    G(Qa, "t" :> T("a") @@ "max_rows" :> N(8), Empty, <<<<"max_rows", 4>>, Office>>),
    G(QAny, Empty, "t" :> ("min" :> 0 @@ "max" :> 8 @@ "step" :> 2), <<>>),
    G(Qa, Empty, "t" :> ("min" :> 2 @@ "step" :> 4 @@ "optional" :> TRUE), <<>>),
    G(Qa, Empty, "t" :> ("enum" :> <<N(4), T("a")>> @@ "max_items" :> 2), <<>>),
    G(Qa, Empty, "o" :> ("nested" :> ("x" :> ("max" :> 6) @@
                                      "y" :> ("enum" :> <<T("a")>> @@ "optional" :> TRUE))), <<>>),
    G(Qa, Empty, "o" :> ("nested" :> ("x" :> ("max" :> 4) @@ "y" :> ("enum" :> <<T("a"), T("b")>>))),
      <<>>),
    G(Qa, "o" :> ObjOf("x" :> N(4) @@ "y" :> ArrOf(<<T("a"), T("b")>>)), Empty, <<>>),
    G(Qa, "t" :> ArrOf(<<>>), Empty, <<>>),
    G(QAny, "d" :> T("2"), Empty, <<>>),
    G(Qa, "d" :> T("1.50"), Empty, <<>>),
    G(Qa, "p" :> T("/srv") @@ "w" :> ObjOf("value" :> N(10) @@ "unit" :> T("g")), Empty, <<>>),
    G(<<"">>, Empty, Empty, <<<<"vendor", "x">>>>),
    G(<<>>, Empty, Empty, <<>>)}
MCOps == {
    O(Qa, Empty), O(<<S, "q", "b">>, "t" :> T("a")), O(<<S, "q">>, Empty), O(<<>>, Empty),
    O(Qa, "t" :> T("a")), O(Qa, "t" :> ArrOf(<<T("a"), T("b")>>)),
    O(Qa, "t" :> N(4)), O(Qa, "t" :> N(3)), O(Qa, "t" :> N(6)), O(Qa, "t" :> <<"null">>),
    O(Qa, "t" :> T("a") @@ "max_rows" :> N(4)), O(Qa, "t" :> T("a") @@ "max_rows" :> N(3)),
    O(Qa, "o" :> ObjOf("x" :> N(4) @@ "y" :> T("a"))), O(Qa, "o" :> ObjOf("x" :> N(6))),
    O(Qa, "t" :> T("a") @@ "u" :> T("a") @@ "v" :> T("a")),
    O(Qa, "d" :> T("1.5")), O(Qa, "d" :> T("3")),
    O(Qa, "p" :> T("/srv/x") @@ "w" :> ObjOf("value" :> N(2) @@ "unit" :> T("g") @@ "scale" :> N(0)))}
MCRequests == {
    O(Qa, "t" :> T("a") @@ "max_rows" :> N(4)), O(Qa, "t" :> N(4)),
    O(Qa, "t" :> T("a") @@ "u" :> T("a") @@ "v" :> T("a")), O(Qa, Empty)}
MCTexts == {
    <<"raw", <<<<"t", T("a")>>>>>>,
    <<"raw", <<<<"t", T("a")>>, <<"t", N(4)>>>>>>,
    <<"raw", <<<<"o", <<"raw", <<<<"x", N(4)>>, <<"x", N(6)>>, <<"y", T("a")>>>>>>>>>>>>,
    <<"raw", <<<<"t", N(40)>>>>>>, T("a")}
MCTextId == Qa
MCDomains == "d" :> [name |-> "decimal-string", unit |-> ""]
             @@ "p" :> [name |-> "path-prefix", unit |-> ""]
             @@ "w" :> [name |-> "quantity", unit |-> "g"]
MCDecimalOf == "1.50" :> 3 @@ "1.5" :> 3 @@ "2" :> 4 @@ "3" :> 6
MCLabelsOf == "domain-covered" :> <<"domain-covered">>
MCPathOf == "/srv" :> <<"srv">> @@ "/srv/x" :> <<"srv", "x">>
MCDefaults == "t" :> T("a")
Src(id, refs) == [id |-> id, digest |-> DigestOf(id), references |-> {DigestOf(r) : r \in refs}]
MCChains == {
    NoSources,
    [sources |-> <<Src("aic", {"del"}), Src("del", {"root"}), Src("root", {})>>,
     links |-> <<<<DigestOf("aic"), DigestOf("del")>>, <<DigestOf("del"), DigestOf("root")>>>>],
    [sources |-> <<Src("aic", {"del"}), Src("del", {"aic"})>>,
     links |-> <<<<DigestOf("aic"), DigestOf("del")>>, <<DigestOf("del"), DigestOf("aic")>>>>],
    [sources |-> <<Src("aic", {}), Src("root", {})>>,
     links |-> <<<<DigestOf("aic"), DigestOf("root")>>>>]}
MCActionType == [type |-> "query", fields |-> <<"t">>]
MCDecisions == {
    Allow({}), Allow({Network}),
    [verdict |-> "allow", reason |-> <<"", "">>, unresolved |-> {Network}]}
MCReports == {
    {}, {<<Network, "satisfied">>}, {<<Network, "violated">>, <<Network, "satisfied">>},
    {<<Network, "maybe">>}}
MCUnderstood == {"time"}
================================================================================
