-------------------------- MODULE MCDirectoryExchange --------------------------
(* Three published generations of the artifact pool, each with the delta    *)
(* from the one before it.                                                  *)
EXTENDS DirectoryExchange, MCCatalogPool

MCSigned == {<<"c1", "old">>, <<"c2", "old">>, <<"c3", "old">>}
MCSignedDelta == {<<"x2", "old">>, <<"x3", "old">>}

MCSig(body) == [over |-> body, signer |-> "old"]

MCPublished ==
    << [snapshot |-> "c1", snapshotSig |-> MCSig("c1"), delta |-> Nothing, deltaSig |-> Nothing],
       [snapshot |-> "c2", snapshotSig |-> MCSig("c2"), delta |-> "x2", deltaSig |-> MCSig("x2")],
       [snapshot |-> "c3", snapshotSig |-> MCSig("c3"), delta |-> "x3", deltaSig |-> MCSig("x3")] >>

MCOnePolicy == [MCPolicy("", FALSE, "", 0) EXCEPT !.observedAt = 1]
================================================================================
