----------------------------- MODULE SnapshotState -----------------------------
(***************************************************************************)
(* projection/lifecycle.go and state.go: the accepted snapshot state a     *)
(* deployer keeps between reports, and what one report may do to it.       *)
(*                                                                         *)
(* A state is a function from coordinates <<source, component, evidence>>  *)
(* to bindings [generation, digest].  Only the members of a check result   *)
(* that name a snapshot matter here: source, component, evidence,          *)
(* generation and digest; a digest that is "" or "malformed" is invalid.   *)
(***************************************************************************)
EXTENDS Integers, Sequences

ValidDigest(d) == d \notin {"", "malformed"}

snapshotKey(r) == <<r.source, r.component, r.evidence>>

(* snapshotBinding: whether a result declares a coordinate at all, and     *)
(* whether the coordinate it declares is whole.                            *)
Declares(r) == r.source # "" \/ r.generation # 0
WholeCoordinate(r) == r.source # "" /\ r.generation >= 1 /\ ValidDigest(r.digest)
Binding(r) == [generation |-> r.generation, digest |-> r.digest]

(* The results of rs before the i-th that bind the i-th one's coordinate,  *)
(* and what the accepted state holds for it.                               *)
Declaring(rs, k) == {i \in DOMAIN rs : Declares(rs[i]) /\ snapshotKey(rs[i]) = k}
Earlier(s, rs, i) ==
    {Binding(rs[j]) : j \in {n \in Declaring(rs, snapshotKey(rs[i])) : n < i}}
    \cup {s[k] : k \in DOMAIN s \cap {snapshotKey(rs[i])}}

(* Check on the i-th result, every earlier one having passed: then the     *)
(* binding the loop compares with is the greatest of the earlier ones, so  *)
(* comparing with all of them comes to the same.                           *)
CheckResult(s, rs, i) ==
    IF ~Declares(rs[i]) THEN ""
    ELSE IF ~WholeCoordinate(rs[i]) THEN "report_snapshot_missing"
    ELSE IF \E b \in Earlier(s, rs, i) : rs[i].generation < b.generation
    THEN "report_snapshot_rollback"
    ELSE IF \E b \in Earlier(s, rs, i) :
              rs[i].generation = b.generation /\ rs[i].digest # b.digest
    THEN "report_snapshot_fork"
    ELSE ""

(* Check accepts the results, and the state it returns: the last binding   *)
(* declared for each coordinate, over the bindings accepted before.        *)
Accepts(s, rs) == \A i \in DOMAIN rs : CheckResult(s, rs, i) = ""

LastOf(S) == CHOOSE i \in S : \A j \in S : j <= i
Keys(rs) == {snapshotKey(rs[i]) : i \in {n \in DOMAIN rs : Declares(rs[n])}}
NextState(s, rs) ==
    [k \in DOMAIN s \cup Keys(rs) |->
        IF Declaring(rs, k) # {} THEN Binding(rs[LastOf(Declaring(rs, k))]) ELSE s[k]]

(* b may follow a: newer, or the same snapshot again. *)
Follows(a, b) ==
    \/ a.generation < b.generation
    \/ a.generation = b.generation /\ a.digest = b.digest

(* A state that holds, for every coordinate s holds, a binding that may    *)
(* follow the one s has.                                                   *)
Forward(s, t) == DOMAIN s \subseteq DOMAIN t /\ \A k \in DOMAIN s : Follows(s[k], t[k])
================================================================================
