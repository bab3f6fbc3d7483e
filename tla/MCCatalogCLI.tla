----------------------------- MODULE MCCatalogCLI ------------------------------
(* CatalogCLI on the artifact pool: a fork of generation 1, snapshot and    *)
(* delta of generation 2, and a delta to generation 3.                      *)
EXTENDS CatalogCLI, MCCatalogPool

MCSigned ==
    {<<"c1", "old">>, <<"c1fork", "old">>, <<"c2", "old">>, <<"c2unsorted", "old">>}

MCSignedDelta == {<<"x2", "old">>, <<"x3", "old">>}

MCOnePolicy == [MCPolicy("", FALSE, "", 0) EXCEPT !.observedAt = 1]

(* Two concurrent processes: a smaller pool. *)
MCSignedTwo == {<<"c1", "old">>, <<"c1fork", "old">>}

MCSignedDeltaTwo == {<<"x2", "old">>}
================================================================================
