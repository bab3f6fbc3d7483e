--------------------------- MODULE MCSchemeRegistry ---------------------------
(* Two ids, two definitions of the first one, and an invalid file.          *)
EXTENDS SchemeRegistry

MCA == [id |-> "a", caps |-> {"x"}, valid |-> TRUE]
MCA2 == [id |-> "a", caps |-> {"x", "y"}, valid |-> TRUE]
MCB == [id |-> "b", caps |-> {"y"}, valid |-> TRUE]
MCBad == [id |-> "b", caps |-> {}, valid |-> FALSE]

MCDefs == {MCA, MCA2, MCB, MCBad}

MCDirectories == {<<>>, <<MCA>>, <<MCBad>>, <<MCA, MCA2>>}
================================================================================
