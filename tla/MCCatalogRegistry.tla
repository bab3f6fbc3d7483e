--------------------------- MODULE MCCatalogRegistry ---------------------------
(* CatalogRegistry on the artifact pool, under two policies.             *)
EXTENDS CatalogRegistry, MCCatalogPool

MCSigned ==
    {<<"c1", "old">>, <<"c1fork", "old">>, <<"c2", "narrow">>, <<"c2", "next">>,
     <<"c2unsorted", "old">>, <<"c3owner", "owner">>}

MCSignedDelta == {<<"x2", "old">>, <<"x2unsorted", "old">>, <<"x3", "narrow">>,
                  <<"x3keep", "narrow">>, <<"x3keep", "next">>}

MCPolicies == {MCPolicy("", FALSE, "", 0), MCPolicy("ops", TRUE, "healthy", 1)}

MCRotation == [current |-> {"R1"}, next |-> {"R2"}, overlapUntil |-> 1, revokedKeys |-> {"K1"}]
================================================================================
