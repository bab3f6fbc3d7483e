---------------------------- MODULE RuleTraceProofs ----------------------------
(***************************************************************************)
(* What the rest of a request's instructions will do, if no error stops    *)
(* them: the first half of the proof that a rule is executed as written.   *)
(*                                                                         *)
(* Holds and StepTrace are recursive functions.  That they solve their     *)
(* equations is shown by induction on the size of a condition and on the   *)
(* length of a step's text, both of which TextAssumption makes decrease.   *)
(*                                                                         *)
(* Runs(t, q, v, o) says of the instructions t of a request q, v being the *)
(* value last returned and o the operations executed, that the values of   *)
(* conditions reach the checks they are meant for, and that o followed by  *)
(* the operations of t is what the flow prescribes, whatever the           *)
(* conditions that are not evaluated yet will see.  RunsOn is its law: t   *)
(* may have its first instruction replaced by instructions that fit.       *)
(***************************************************************************)
EXTENDS RuleGatewayProofs, WellFoundedInduction

(* The time limits of the provers, in seconds: Zenon is tried, then SMT. *)
USE ZenonT(10), SMTT(30)

(* Induction on a rank: what holds of an element when it holds of those of *)
(* lower rank holds of all.                                                *)
LEMMA ByRank ==
    ASSUME NEW D, NEW rank, \A c \in D : rank[c] \in Nat, NEW S,
           \A c \in D : (\A d \in D : rank[d] < rank[c] => d \in S) => c \in S
    PROVE  \A c \in D : c \in S
  <1> DEFINE T == {rank[c] : c \in D \ S}
  <1>1. SUFFICES ASSUME T # {} PROVE FALSE
    OBVIOUS
  <1>2. T \subseteq Nat
    BY ZenonT(30)
  <1>3. PICK n \in T : \A m \in T : ~(<<m, n>> \in OpToRel(<, Nat))
    <2> HIDE DEF T
    <2> QED
      BY <1>1, <1>2, NatLessThanWellFounded, WFMin, ZenonT(30)
  <1>4. PICK c \in D \ S : n = rank[c]
    BY ZenonT(30)
  <1>5. ASSUME NEW d \in D, rank[d] < rank[c] PROVE d \in S
    <2>1. <<rank[d], n>> \in OpToRel(<, Nat)
      BY <1>4, <1>5 DEF OpToRel
    <2>2. rank[d] \notin T
      BY <1>3, <2>1, ZenonT(30)
    <2> QED
      BY <2>2, ZenonT(30)
  <1> QED
    BY <1>4, <1>5, ZenonT(30)

(* The functions that satisfy h = F[h] below a rank. *)
Solves(h, F, D, V, rank, n) ==
    h \in [D -> V] /\ \A c \in D : rank[c] < n => h[c] = F[h][c]

(* F[h][c] depends on h below the rank of c only. *)
LocalTo(F, D, V, rank) ==
    \A g, h \in [D -> V] : \A c \in D :
        (\A d \in D : rank[d] < rank[c] => g[d] = h[d]) => F[g][c] = F[h][c]

(* An equation that determines a function by recursion on a rank. *)
Recursion(F, D, V, rank) ==
    /\ \A c \in D : rank[c] \in Nat
    /\ F \in [[D -> V] -> [D -> V]] /\ [D -> V] # {}
    /\ LocalTo(F, D, V, rank)

(* Functions that solve the same equation below a rank agree there. *)
LEMMA SolutionsAgree ==
    ASSUME NEW F, NEW D, NEW V, NEW rank, \A c \in D : rank[c] \in Nat, LocalTo(F, D, V, rank),
           NEW n \in Nat, NEW g, NEW h, Solves(g, F, D, V, rank, n), Solves(h, F, D, V, rank, n)
    PROVE  \A c \in D : rank[c] < n => g[c] = h[c]
  <1> DEFINE S == {c \in D : rank[c] < n => g[c] = h[c]}
  <1>1. ASSUME NEW c \in D, \A d \in D : rank[d] < rank[c] => d \in S PROVE c \in S
    <2> SUFFICES ASSUME rank[c] < n PROVE g[c] = h[c]
      BY ZenonT(30)
    <2>1. ASSUME NEW d \in D, rank[d] < rank[c] PROVE g[d] = h[d]
      <3>1. rank[d] < n
        <4>1. rank[d] \in Nat /\ rank[c] \in Nat
          BY ZenonT(30)
        <4> QED
          BY <2>1, <4>1
      <3> QED
        BY <1>1, <2>1, <3>1, ZenonT(30)
    <2>2. F[g][c] = F[h][c]
      BY <2>1, ZenonT(30) DEF LocalTo, Solves
    <2> QED
      BY <2>2, ZenonT(30) DEF Solves
  <1>2. \A c \in D : c \in S
    <2> HIDE DEF S
    <2> QED
      BY <1>1, ByRank, ZenonT(30)
  <1> QED
    BY <1>2, ZenonT(30)

(* The equation has a solution below every rank ... *)
LEMMA SolvedBelow ==
    ASSUME NEW F, NEW D, NEW V, NEW rank, \A c \in D : rank[c] \in Nat, LocalTo(F, D, V, rank),
           F \in [[D -> V] -> [D -> V]], [D -> V] # {}
    PROVE  \A n \in Nat : \E h : Solves(h, F, D, V, rank, n)
  <1> DEFINE S == {n \in Nat : \E h : Solves(h, F, D, V, rank, n)}
             id == [n \in Nat |-> n]
  <1>1. ASSUME NEW n \in Nat, \A m \in Nat : id[m] < id[n] => m \in S PROVE n \in S
    <2>1. CASE n = 0
      <3>1. PICK h \in [D -> V] : TRUE
        OBVIOUS
      <3>2. \A c \in D : ~(rank[c] < 0)
        OBVIOUS
      <3>3. Solves(h, F, D, V, rank, n)
        BY <2>1, <3>1, <3>2, ZenonT(30) DEF Solves
      <3> QED
        BY <3>3, ZenonT(30)
    <2>2. CASE n # 0
      <3>1. n - 1 \in Nat /\ id[n - 1] < id[n]
        BY <2>2
      <3>2. PICK h : Solves(h, F, D, V, rank, n - 1)
        BY <1>1, <3>1, ZenonT(30)
      <3>3. h \in [D -> V] /\ F[h] \in [D -> V]
        BY <3>2 DEF Solves
      <3>4. ASSUME NEW c \in D, rank[c] < n PROVE F[h][c] = F[F[h]][c]
        <4>1. ASSUME NEW d \in D, rank[d] < rank[c] PROVE h[d] = F[h][d]
          <5>1. rank[d] < n - 1
            <6>1. rank[d] \in Nat /\ rank[c] \in Nat
              BY ZenonT(30)
            <6> QED
              BY <3>4, <4>1, <6>1
          <5> QED
            BY <3>2, <5>1, ZenonT(30) DEF Solves
        <4> QED
          BY <3>3, <4>1, ZenonT(30) DEF LocalTo
      <3>5. Solves(F[h], F, D, V, rank, n)
        BY <3>3, <3>4, ZenonT(30) DEF Solves
      <3> QED
        BY <3>5, ZenonT(30)
    <2> QED
      BY <2>1, <2>2, ZenonT(30)
  <1>2. \A n \in Nat : id[n] \in Nat
    OBVIOUS
  <1>3. \A n \in Nat : n \in S
    <2> HIDE DEF S, id
    <2> QED
      BY <1>1, <1>2, ByRank, ZenonT(30)
  <1> QED
    BY <1>3, ZenonT(30)

(* ... and hence a solution. *)
LEMMA Solved ==
    ASSUME NEW F, NEW D, NEW V, NEW rank, Recursion(F, D, V, rank)
    PROVE  \E h \in [D -> V] : h = F[h]
  <1> DEFINE H(n) == CHOOSE h : Solves(h, F, D, V, rank, n)
             f == [c \in D |-> H(rank[c] + 1)[c]]
  <1> USE DEF Recursion
  <1>1. ASSUME NEW n \in Nat PROVE Solves(H(n), F, D, V, rank, n)
    <2>1. \E h : Solves(h, F, D, V, rank, n)
      BY SolvedBelow, ZenonT(30)
    <2> QED
      BY <2>1, ZenonT(30)
  <1> HIDE DEF H
  <1>2. ASSUME NEW c \in D PROVE rank[c] \in Nat /\ rank[c] + 1 \in Nat /\ rank[c] < rank[c] + 1
    OBVIOUS
  <1>3. f \in [D -> V]
    <2>1. ASSUME NEW c \in D PROVE H(rank[c] + 1)[c] \in V
      BY <1>1, <1>2 DEF Solves
    <2> QED
      BY <2>1, ZenonT(30)
  <1>4. ASSUME NEW c \in D PROVE f[c] = F[f][c]
    <2> DEFINE g == H(rank[c] + 1)
    <2>1. Solves(g, F, D, V, rank, rank[c] + 1)
      BY <1>1, <1>2, ZenonT(30)
    <2>2. ASSUME NEW d \in D, rank[d] < rank[c] PROVE f[d] = g[d]
      <3> DEFINE k == H(rank[d] + 1)
      <3>1. Solves(k, F, D, V, rank, rank[d] + 1)
        BY <1>1, <1>2, ZenonT(30)
      <3>2. ASSUME NEW e \in D, rank[e] < rank[d] + 1 PROVE rank[e] < rank[c] + 1
        <4>1. rank[e] \in Nat /\ rank[d] \in Nat /\ rank[c] \in Nat
          BY <1>2, ZenonT(30)
        <4> QED
          BY <2>2, <3>2, <4>1
      <3>3. Solves(g, F, D, V, rank, rank[d] + 1)
        BY <2>1, <3>2, ZenonT(30) DEF Solves
      <3>4. k[d] = g[d]
        <4> DEFINE n == rank[d] + 1
        <4>1. n \in Nat /\ rank[d] < n
          BY <1>2
        <4>2. Solves(k, F, D, V, rank, n) /\ Solves(g, F, D, V, rank, n)
          BY <3>1, <3>3
        <4> HIDE DEF g, k, n
        <4>3. \A e \in D : rank[e] < n => k[e] = g[e]
          BY <4>1, <4>2, SolutionsAgree
        <4> QED
          BY <4>1, <4>3, ZenonT(30)
      <3> QED
        BY <3>4, ZenonT(30)
    <2>3. F[f][c] = F[g][c]
      BY <1>3, <2>1, <2>2, ZenonT(30) DEF LocalTo, Solves
    <2>4. g[c] = F[g][c]
      BY <1>2, <2>1, ZenonT(30) DEF Solves
    <2> QED
      BY <2>3, <2>4, ZenonT(30)
  <1>5. F[f] \in [D -> V]
    BY <1>3, ZenonT(30)
  <1>6. f = F[f]
    <2> HIDE DEF f
    <2> QED
      BY <1>3, <1>4, <1>5
  <1> QED
    BY <1>3, <1>6, ZenonT(30)

--------------------------------------------------------------------------------
(* The items of a condition, and the steps of one, are parts of its text. *)
LEMMA ItemsAreShorter ==
    ASSUME NEW c \in DOMAIN CondOf
    PROVE  /\ CondOf[c].size \in Nat /\ CondOf[c].items \in Seq(DOMAIN CondOf)
           /\ \A i \in DOMAIN CondOf[c].items :
                 /\ CondOf[c].items[i] \in DOMAIN CondOf
                 /\ CondOf[CondOf[c].items[i]].size < CondOf[c].size
  <1>1. /\ CondOf[c].size \in Nat /\ CondOf[c].items \in Seq(DOMAIN CondOf)
        /\ \A i \in DOMAIN CondOf[c].items : CondOf[CondOf[c].items[i]].size < CondOf[c].size
    BY TextAssumption, ZenonT(30)
  <1> DEFINE items == CondOf[c].items
  <1>2. items \in Seq(DOMAIN CondOf)
    BY <1>1
  <1> HIDE DEF items
  <1>3. \A i \in DOMAIN items : items[i] \in DOMAIN CondOf
    BY <1>2
  <1> QED
    BY <1>1, <1>3, ZenonT(30) DEF items

(* One level of what a condition means. *)
HoldsBy(h, facts, c) ==
    CASE CondOf[c].op = "and" -> \A i \in DOMAIN CondOf[c].items : h[CondOf[c].items[i]]
      [] CondOf[c].op = "or" -> \E i \in DOMAIN CondOf[c].items : h[CondOf[c].items[i]]
      [] CondOf[c].op = "not" -> \A i \in DOMAIN CondOf[c].items : ~h[CondOf[c].items[i]]
      [] CondOf[c].op = "is-null" -> facts[CondOf[c].fact] \in {"null", "missing"}
      [] OTHER -> facts[CondOf[c].fact] = "true"

(* HoldsBy is a solution of the equations of Holds. *)
LEMMA HoldsByIs ==
    ASSUME NEW g, NEW h, NEW facts, NEW c \in DOMAIN CondOf,
           \A i \in DOMAIN CondOf[c].items : g[CondOf[c].items[i]] = h[CondOf[c].items[i]]
    PROVE  HoldsBy(g, facts, c) = HoldsBy(h, facts, c)
  <1> DEFINE items == CondOf[c].items
  <1>1. (\A i \in DOMAIN items : g[items[i]]) <=> \A i \in DOMAIN items : h[items[i]]
    BY ZenonT(30)
  <1>2. (\E i \in DOMAIN items : g[items[i]]) <=> \E i \in DOMAIN items : h[items[i]]
    BY ZenonT(30)
  <1>3. (\A i \in DOMAIN items : ~g[items[i]]) <=> \A i \in DOMAIN items : ~h[items[i]]
    BY ZenonT(30)
  <1> QED
    BY <1>1, <1>2, <1>3 DEF HoldsBy

(* Its values are Booleans. *)
LEMMA HoldsByBoolean ==
    ASSUME NEW h, NEW facts, NEW c PROVE HoldsBy(h, facts, c) \in BOOLEAN
  <1>1. CASE CondOf[c].op = "and"
    BY <1>1, ZenonT(30) DEF HoldsBy
  <1>2. CASE CondOf[c].op = "or"
    BY <1>2, ZenonT(30) DEF HoldsBy
  <1>3. CASE CondOf[c].op = "not"
    BY <1>3, ZenonT(30) DEF HoldsBy
  <1>4. CASE CondOf[c].op = "is-null"
    BY <1>4 DEF HoldsBy
  <1>5. CASE CondOf[c].op \notin {"and", "or", "not", "is-null"}
    BY <1>5 DEF HoldsBy
  <1> QED
    BY <1>1, <1>2, <1>3, <1>4, <1>5, ZenonT(30)

(* So Holds, which is chosen among the solutions, is one. *)
LEMMA HoldsExists ==
    ASSUME NEW facts
    PROVE  \E h : h = [c \in DOMAIN CondOf |-> HoldsBy(h, facts, c)]
  <1> DEFINE D == DOMAIN CondOf
             rank == [c \in D |-> CondOf[c].size]
             F == [h \in [D -> BOOLEAN] |-> [c \in D |-> HoldsBy(h, facts, c)]]
  <1>1. \A c \in D : rank[c] \in Nat
    BY ItemsAreShorter, ZenonT(30)
  <1>2. F \in [[D -> BOOLEAN] -> [D -> BOOLEAN]]
    BY HoldsByBoolean, ZenonT(30)
  <1>3. ASSUME NEW g \in [D -> BOOLEAN], NEW h \in [D -> BOOLEAN], NEW c \in D,
               \A d \in D : rank[d] < rank[c] => g[d] = h[d]
        PROVE  F[g][c] = F[h][c]
    <2>1. \A i \in DOMAIN CondOf[c].items :
            CondOf[c].items[i] \in D /\ rank[CondOf[c].items[i]] < rank[c]
      BY ItemsAreShorter, ZenonT(30)
    <2>2. HoldsBy(g, facts, c) = HoldsBy(h, facts, c)
      BY <1>3, <2>1, HoldsByIs, ZenonT(30)
    <2> QED
      BY <2>2, ZenonT(30)
  <1>4. LocalTo(F, D, BOOLEAN, rank)
    BY <1>3, ZenonT(30) DEF LocalTo
  <1>5. [D -> BOOLEAN] # {}
    <2>1. [c \in D |-> TRUE] \in [D -> BOOLEAN]
      OBVIOUS
    <2> QED
      BY <2>1, ZenonT(30)
  <1>6. PICK h \in [D -> BOOLEAN] : h = F[h]
    <2> HIDE DEF D, F, rank
    <2>1. Recursion(F, D, BOOLEAN, rank)
      BY <1>1, <1>2, <1>4, <1>5, ZenonT(30) DEF Recursion
    <2> QED
      BY <2>1, Solved, ZenonT(30)
  <1>7. h = [c \in D |-> HoldsBy(h, facts, c)]
    BY <1>6, ZenonT(30)
  <1> QED
    BY <1>7, ZenonT(30)

(* What a condition means, level by level. *)
LEMMA HoldsIs ==
    ASSUME NEW facts
    PROVE  /\ Holds(facts) \in [DOMAIN CondOf -> BOOLEAN]
           /\ \A c \in DOMAIN CondOf : Holds(facts)[c] = HoldsBy(Holds(facts), facts, c)
  <1>1. Holds(facts) = CHOOSE h : h = [c \in DOMAIN CondOf |-> HoldsBy(h, facts, c)]
    BY ZenonT(30) DEF Holds, HoldsBy
  <1>2. Holds(facts) = [c \in DOMAIN CondOf |-> HoldsBy(Holds(facts), facts, c)]
    BY <1>1, HoldsExists, ZenonT(30)
  <1>3. \A c \in DOMAIN CondOf : HoldsBy(Holds(facts), facts, c) \in BOOLEAN
    BY HoldsByBoolean, ZenonT(30)
  <1> QED
    BY <1>2, <1>3

--------------------------------------------------------------------------------
(* Concat(list) is the first of a chain of sums, the last of which is empty. *)
Sums(f, list) ==
    /\ Len(list) \in Nat
    /\ f[Len(list) + 1] = <<>>
    /\ \A i \in 1 .. Len(list) : f[i] = list[i] \o f[i + 1]

(* The sums of a list are determined by its elements. *)
LEMMA SumsAgree ==
    ASSUME NEW list, NEW f, NEW g, Sums(f, list), Sums(g, list)
    PROVE  f[1] = g[1]
  <1> DEFINE n == Len(list)
             D == 1 .. n + 1
             rank == [i \in D |-> n + 1 - i]
             S == {i \in D : f[i] = g[i]}
  <1>0. n \in Nat
    BY DEF Sums
  <1>1. ASSUME NEW i \in D, \A d \in D : rank[d] < rank[i] => d \in S PROVE i \in S
    <2>1. CASE i = n + 1
      BY <2>1, ZenonT(30) DEF Sums
    <2>2. CASE i # n + 1
      <3>1. i \in 1 .. n /\ i + 1 \in D /\ rank[i + 1] < rank[i]
        BY <1>0, <2>2
      <3>2. f[i + 1] = g[i + 1]
        BY <1>1, <3>1, ZenonT(30)
      <3> QED
        BY <3>1, <3>2, ZenonT(30) DEF Sums
    <2> QED
      BY <2>1, <2>2, ZenonT(30)
  <1>2. \A i \in D : rank[i] \in Nat
    BY <1>0
  <1>3. \A i \in D : i \in S
    <2> HIDE DEF D, rank, S
    <2> QED
      BY <1>1, <1>2, ByRank, ZenonT(30)
  <1>4. 1 \in D
    BY <1>0
  <1> QED
    BY <1>3, <1>4, ZenonT(30)

(* Concat is one of them. *)
LEMMA ConcatSums ==
    ASSUME NEW A, NEW list \in Seq(Seq(A))
    PROVE  \E f : /\ Concat(list) = f[1] /\ Sums(f, list)
                  /\ \A i \in 1 .. Len(list) + 1 : f[i] \in Seq(A)
  <1> DEFINE n == Len(list)
             D == 1 .. n + 1
             V == Seq(A)
             rank == [i \in D |-> n + 1 - i]
             F == [h \in [D -> V] |-> [i \in D |-> IF i > n THEN <<>> ELSE list[i] \o h[i + 1]]]
  <1>0. n \in Nat /\ \A i \in 1 .. n : list[i] \in V
    OBVIOUS
  <1> HIDE DEF n
  <1>1. \A i \in D : rank[i] \in Nat
    BY <1>0
  <1>2. F \in [[D -> V] -> [D -> V]]
    <2>1. ASSUME NEW h \in [D -> V], NEW i \in D
          PROVE  (IF i > n THEN <<>> ELSE list[i] \o h[i + 1]) \in V
      <3>1. i > n \/ (i \in 1 .. n /\ i + 1 \in D)
        BY <1>0
      <3>2. i \in 1 .. n /\ i + 1 \in D => list[i] \in Seq(A) /\ h[i + 1] \in Seq(A)
        BY <1>0, ZenonT(30)
      <3>3. <<>> \in Seq(A)
        OBVIOUS
      <3> QED
        BY <3>1, <3>2, <3>3
    <2> QED
      BY <2>1, ZenonT(30)
  <1>3. ASSUME NEW g \in [D -> V], NEW h \in [D -> V], NEW i \in D,
               \A d \in D : rank[d] < rank[i] => g[d] = h[d]
        PROVE  F[g][i] = F[h][i]
    <2>1. i > n \/ (i + 1 \in D /\ rank[i + 1] < rank[i])
      BY <1>0
    <2>2. i > n \/ g[i + 1] = h[i + 1]
      BY <1>3, <2>1, ZenonT(30)
    <2> QED
      BY <2>2, ZenonT(30)
  <1>4. LocalTo(F, D, V, rank)
    BY <1>3, ZenonT(30) DEF LocalTo
  <1>5. [D -> V] # {}
    <2>1. <<>> \in V
      OBVIOUS
    <2> HIDE DEF D, V
    <2>2. [i \in D |-> <<>>] \in [D -> V]
      BY <2>1
    <2> QED
      BY <2>2, ZenonT(30)
  <1>6. PICK q : q \in [D -> V] /\ q = F[q]
    <2> HIDE DEF D, F, V, rank
    <2>1. Recursion(F, D, V, rank)
      BY <1>1, <1>2, <1>4, <1>5, ZenonT(30) DEF Recursion
    <2> QED
      BY <2>1, Solved
  <1>7. q = [i \in D |-> IF i > n THEN <<>> ELSE list[i] \o q[i + 1]]
    BY <1>6, ZenonT(30)
  <1>8. PICK r : /\ r = [i \in D |-> IF i > n THEN <<>> ELSE list[i] \o r[i + 1]]
                 /\ Concat(list) = r[1]
    BY <1>7, ZenonT(30) DEF Concat, n
  <1>10. Sums(r, list) /\ Sums(q, list)
    <2>1. n + 1 \in D /\ n + 1 > n /\ \A i \in 1 .. n : i \in D /\ ~(i > n)
      BY <1>0
    <2>2. /\ r[n + 1] = <<>> /\ \A i \in 1 .. n : r[i] = list[i] \o r[i + 1]
          /\ q[n + 1] = <<>> /\ \A i \in 1 .. n : q[i] = list[i] \o q[i + 1]
      BY <1>7, <1>8, <2>1, ZenonT(30)
    <2> QED
      BY <1>0, <2>2, ZenonT(30) DEF Sums, n
  <1>11. r[1] = q[1]
    BY <1>10, SumsAgree
  <1> QED
    BY <1>6, <1>8, <1>10, <1>11, ZenonT(30) DEF n

(* Concat of a list is its first sequence followed by Concat of the rest. *)
LEMMA ConcatIs ==
    ASSUME NEW A, NEW list \in Seq(Seq(A))
    PROVE  /\ Concat(list) \in Seq(A)
           /\ list = <<>> => Concat(list) = <<>>
           /\ list # <<>> => Concat(list) = Head(list) \o Concat(Tail(list))
  <1>1. PICK f : /\ Concat(list) = f[1] /\ Sums(f, list)
                 /\ \A i \in 1 .. Len(list) + 1 : f[i] \in Seq(A)
    BY ConcatSums, ZenonT(30)
  <1>2. Concat(list) \in Seq(A)
    <2>1. 1 \in 1 .. Len(list) + 1
      OBVIOUS
    <2> QED
      BY <1>1, <2>1, ZenonT(30)
  <1>3. ASSUME list = <<>> PROVE Concat(list) = <<>>
    BY <1>1, <1>3 DEF Sums
  <1>4. ASSUME list # <<>> PROVE Concat(list) = Head(list) \o Concat(Tail(list))
    <2> DEFINE t == Tail(list)
               n == Len(list)
               g == [i \in 1 .. n |-> f[i + 1]]
    <2>1. /\ t \in Seq(Seq(A)) /\ n \in Nat \ {0} /\ Len(t) = n - 1 /\ Head(list) = list[1]
          /\ \A i \in 1 .. n - 1 : t[i] = list[i + 1]
      BY <1>4
    <2>2. PICK k : Concat(t) = k[1] /\ Sums(k, t)
      BY <2>1, ConcatSums, ZenonT(30)
    <2> HIDE DEF t, n
    <2>3. /\ f[n + 1] = <<>>
          /\ \A i \in 1 .. n : f[i] = list[i] \o f[i + 1]
      BY <1>1, ZenonT(30) DEF Sums, n
    <2>4. Sums(g, t)
      <3>1. g[Len(t) + 1] = <<>>
        BY <2>1, <2>3
      <3>2. ASSUME NEW i \in 1 .. Len(t) PROVE g[i] = t[i] \o g[i + 1]
        <4>1. i \in 1 .. n - 1 /\ i + 1 \in 1 .. n /\ i \in 1 .. n
          BY <2>1
        <4>2. f[i + 1] = list[i + 1] \o f[i + 1 + 1]
          BY <2>3, <4>1, ZenonT(30)
        <4> QED
          BY <2>1, <4>1, <4>2, ZenonT(30)
      <3>3. Len(t) \in Nat
        BY <2>1
      <3> QED
        BY <3>1, <3>2, <3>3, ZenonT(30) DEF Sums
    <2>5. g[1] = f[1 + 1] /\ f[1] = list[1] \o f[1 + 1] /\ Len(t) \in Nat
      <3>1. 1 \in 1 .. n /\ Len(t) \in Nat
        BY <2>1
      <3> QED
        BY <2>3, <3>1, ZenonT(30)
    <2> HIDE DEF g
    <2>6. g[1] = k[1]
      BY <2>2, <2>4, <2>5, SumsAgree
    <2> QED
      BY <1>1, <2>1, <2>2, <2>5, <2>6, ZenonT(30) DEF t
  <1> QED
    BY <1>2, <1>3, <1>4, ZenonT(30)

--------------------------------------------------------------------------------
(* The steps of a rule are parts of its text, in order. *)
LEMMA PartsAreInside ==
    ASSUME NEW s \in DOMAIN StepOf
    PROVE  /\ StepOf[s].from \in Nat /\ StepOf[s].to \in Nat /\ StepOf[s].from <= StepOf[s].to
           /\ StepOf[s].kind = "if" => /\ StepOf[s].cond \in DOMAIN CondOf
                                       /\ Inside(StepOf[s].then, s) /\ Inside(StepOf[s].else, s)
           /\ StepOf[s].kind = "seq" => Inside(StepOf[s].steps, s)
  BY TextAssumption, ZenonT(30)

(* The steps that a step selects stand inside it. *)
LEMMA BodyIsInside ==
    ASSUME NEW s \in DOMAIN StepOf, NEW seen, StepOf[s].kind # "op"
    PROVE  Inside(Body(s, seen), s)
  <1>1. Inside(<<>>, s)
    BY DEF Inside, Listed
  <1>2. CASE StepOf[s].kind = "if"
    BY <1>2, PartsAreInside, ZenonT(30) DEF Body
  <1>3. CASE StepOf[s].kind = "seq"
    BY <1>3, PartsAreInside DEF Body
  <1>4. CASE StepOf[s].kind \notin {"if", "seq"}
    BY <1>1, <1>4 DEF Body
  <1> QED
    BY <1>2, <1>3, <1>4, ZenonT(30)

(* One level of the operations of a step. *)
TraceBy(t, seen, s) ==
    IF StepOf[s].kind = "op" THEN <<s>>
    ELSE Concat([i \in DOMAIN Body(s, seen) |-> t[Body(s, seen)[i]]])

Length(s) == StepOf[s].to - StepOf[s].from

(* Each of them is shorter than the step. *)
LEMMA PartsAreShorter ==
    ASSUME NEW s \in DOMAIN StepOf, NEW seen, StepOf[s].kind # "op"
    PROVE  /\ Body(s, seen) \in Seq(DOMAIN StepOf)
           /\ \A i \in DOMAIN Body(s, seen) :
                Body(s, seen)[i] \in DOMAIN StepOf /\ Length(Body(s, seen)[i]) < Length(s)
  <1> DEFINE l == Body(s, seen)
  <1>1. Inside(l, s)
    BY BodyIsInside
  <1> HIDE DEF l
  <1>2. l \in Seq(DOMAIN StepOf)
    BY <1>1 DEF Inside, Listed
  <1>3. ASSUME NEW i \in DOMAIN l PROVE l[i] \in DOMAIN StepOf /\ Length(l[i]) < Length(s)
    <2>1. l[i] \in DOMAIN StepOf
      BY <1>2
    <2>2. StepOf[s].from < StepOf[l[i]].from /\ StepOf[l[i]].to <= StepOf[s].to
      BY <1>1, ZenonT(30) DEF Inside
    <2>3. /\ StepOf[s].from \in Nat /\ StepOf[s].to \in Nat
          /\ StepOf[l[i]].from \in Nat /\ StepOf[l[i]].to \in Nat
      BY <2>1, PartsAreInside, ZenonT(30)
    <2> QED
      BY <2>1, <2>2, <2>3 DEF Length
  <1> QED
    BY <1>2, <1>3, ZenonT(30) DEF l

(* TraceBy is a solution of the equations of StepTrace. *)
LEMMA TraceByIs ==
    ASSUME NEW s \in DOMAIN StepOf, NEW seen, NEW t,
           \A d \in DOMAIN StepOf : Length(d) < Length(s) => t[d] \in Seq(DOMAIN StepOf)
    PROVE  /\ TraceBy(t, seen, s) \in Seq(DOMAIN StepOf)
           /\ StepOf[s].kind # "op" =>
                [i \in DOMAIN Body(s, seen) |-> t[Body(s, seen)[i]]] \in Seq(Seq(DOMAIN StepOf))
  <1>1. CASE StepOf[s].kind = "op"
    BY <1>1 DEF TraceBy
  <1>2. CASE StepOf[s].kind # "op"
    <2> DEFINE l == Body(s, seen)
               c == [i \in DOMAIN l |-> t[l[i]]]
    <2>1. /\ l \in Seq(DOMAIN StepOf)
          /\ \A i \in DOMAIN l : l[i] \in DOMAIN StepOf /\ Length(l[i]) < Length(s)
      BY <1>2, PartsAreShorter, ZenonT(30)
    <2>2. \A i \in DOMAIN l : t[l[i]] \in Seq(DOMAIN StepOf)
      BY <2>1, ZenonT(30)
    <2> HIDE DEF l
    <2>3. c \in Seq(Seq(DOMAIN StepOf))
      <3> DEFINE V == Seq(DOMAIN StepOf)
      <3>1. \A i \in DOMAIN l : t[l[i]] \in V
        BY <2>2
      <3> HIDE DEF V
      <3>2. c \in Seq(V)
        BY <2>1, <3>1
      <3> QED
        BY <3>2 DEF V
    <2> HIDE DEF c
    <2>4. Concat(c) \in Seq(DOMAIN StepOf)
      BY <2>3, ConcatIs, ZenonT(30)
    <2> QED
      BY <1>2, <2>3, <2>4, ZenonT(30) DEF TraceBy, c, l
  <1> QED
    BY <1>1, <1>2, ZenonT(30)

(* So StepTrace, which is chosen among the solutions, is one. *)
LEMMA StepTraceExists ==
    ASSUME NEW seen
    PROVE  \E t \in [DOMAIN StepOf -> Seq(DOMAIN StepOf)] :
             t = [s \in DOMAIN StepOf |-> TraceBy(t, seen, s)]
  <1> DEFINE D == DOMAIN StepOf
             V == Seq(D)
             rank == [s \in D |-> Length(s)]
             F == [h \in [D -> V] |-> [s \in D |-> TraceBy(h, seen, s)]]
  <1>1. \A s \in D : rank[s] \in Nat
    <2> SUFFICES ASSUME NEW s \in D PROVE Length(s) \in Nat
      BY ZenonT(30)
    <2>1. StepOf[s].from \in Nat /\ StepOf[s].to \in Nat /\ StepOf[s].from <= StepOf[s].to
      BY PartsAreInside, ZenonT(30)
    <2> QED
      BY <2>1 DEF Length
  <1>2. F \in [[D -> V] -> [D -> V]]
    <2>1. ASSUME NEW h \in [D -> V], NEW s \in D PROVE TraceBy(h, seen, s) \in V
      <3>1. \A d \in D : Length(d) < Length(s) => h[d] \in Seq(D)
        BY ZenonT(30)
      <3> QED
        BY <3>1, TraceByIs, ZenonT(30)
    <2> QED
      BY <2>1, ZenonT(30)
  <1>3. ASSUME NEW g \in [D -> V], NEW h \in [D -> V], NEW s \in D,
               \A d \in D : rank[d] < rank[s] => g[d] = h[d]
        PROVE  F[g][s] = F[h][s]
    <2>1. CASE StepOf[s].kind = "op"
      BY <2>1, ZenonT(30) DEF TraceBy
    <2>2. CASE StepOf[s].kind # "op"
      <3> DEFINE l == Body(s, seen)
      <3>1. \A i \in DOMAIN l : l[i] \in D /\ rank[l[i]] < rank[s]
        BY <2>2, PartsAreShorter, ZenonT(30)
      <3>2. \A i \in DOMAIN l : g[l[i]] = h[l[i]]
        BY <1>3, <3>1, ZenonT(30)
      <3>3. [i \in DOMAIN l |-> g[l[i]]] = [i \in DOMAIN l |-> h[l[i]]]
        BY <3>2, ZenonT(30)
      <3>4. TraceBy(g, seen, s) = TraceBy(h, seen, s)
        BY <2>2, <3>3, ZenonT(30) DEF TraceBy
      <3> QED
        BY <3>4, ZenonT(30)
    <2> QED
      BY <2>1, <2>2, ZenonT(30)
  <1>4. LocalTo(F, D, V, rank)
    BY <1>3, ZenonT(30) DEF LocalTo
  <1>5. [D -> V] # {}
    <2>1. <<>> \in V
      OBVIOUS
    <2> HIDE DEF D, V
    <2>2. [s \in D |-> <<>>] \in [D -> V]
      BY <2>1
    <2> QED
      BY <2>2, ZenonT(30)
  <1>6. PICK t : t \in [D -> V] /\ t = F[t]
    <2> HIDE DEF D, F, V, rank
    <2>1. Recursion(F, D, V, rank)
      BY <1>1, <1>2, <1>4, <1>5, ZenonT(30) DEF Recursion
    <2> QED
      BY <2>1, Solved
  <1>7. t = [s \in D |-> TraceBy(t, seen, s)]
    BY <1>6, ZenonT(30)
  <1> QED
    BY <1>6, <1>7, ZenonT(30)

(* t solves the equation of StepTrace. *)
IsTrace(t, seen) == t = [s \in DOMAIN StepOf |-> TraceBy(t, seen, s)]

(* The solution is the only one: the one that StepTrace chooses. *)
LEMMA StepTraceUnique ==
    ASSUME NEW seen, NEW t \in [DOMAIN StepOf -> Seq(DOMAIN StepOf)], NEW u,
           IsTrace(t, seen), IsTrace(u, seen)
    PROVE  \A s \in DOMAIN StepOf : u[s] = t[s]
  <1> DEFINE D == DOMAIN StepOf
             rank == [s \in D |-> Length(s)]
             S == {s \in D : u[s] = t[s]}
  <1>1. \A s \in D : rank[s] \in Nat
    <2> SUFFICES ASSUME NEW s \in D PROVE Length(s) \in Nat
      BY ZenonT(30)
    <2>1. StepOf[s].from \in Nat /\ StepOf[s].to \in Nat /\ StepOf[s].from <= StepOf[s].to
      BY PartsAreInside, ZenonT(30)
    <2> QED
      BY <2>1 DEF Length
  <1>2. ASSUME NEW s \in D, \A d \in D : rank[d] < rank[s] => d \in S PROVE s \in S
    <2>0. t[s] = TraceBy(t, seen, s) /\ u[s] = TraceBy(u, seen, s)
      BY ZenonT(30) DEF IsTrace
    <2>1. CASE StepOf[s].kind = "op"
      BY <2>0, <2>1, ZenonT(30) DEF TraceBy
    <2>2. CASE StepOf[s].kind # "op"
      <3> DEFINE l == Body(s, seen)
      <3>1. \A i \in DOMAIN l : l[i] \in D /\ rank[l[i]] < rank[s]
        BY <2>2, PartsAreShorter, ZenonT(30)
      <3>2. \A i \in DOMAIN l : u[l[i]] = t[l[i]]
        BY <1>2, <3>1, ZenonT(30)
      <3>3. [i \in DOMAIN l |-> u[l[i]]] = [i \in DOMAIN l |-> t[l[i]]]
        BY <3>2, ZenonT(30)
      <3> QED
        BY <2>0, <2>2, <3>3, ZenonT(30) DEF TraceBy
    <2> QED
      BY <2>1, <2>2, ZenonT(30)
  <1>3. \A s \in D : s \in S
    <2> HIDE DEF D, S, rank
    <2> QED
      BY <1>1, <1>2, ByRank, ZenonT(30)
  <1> QED
    BY <1>3, ZenonT(30)

(* What StepTrace gives for each kind of step. *)
LEMMA StepTraceIs ==
    ASSUME NEW seen
    PROVE  /\ StepTrace(seen) \in [DOMAIN StepOf -> Seq(DOMAIN StepOf)]
           /\ \A s \in DOMAIN StepOf :
                 StepTrace(seen)[s] = IF StepOf[s].kind = "op" THEN <<s>>
                                      ELSE Trace(Body(s, seen), seen)
  <1> DEFINE u == StepTrace(seen)
  <1>1. u = CHOOSE t : t = [s \in DOMAIN StepOf |-> TraceBy(t, seen, s)]
    BY ZenonT(30) DEF StepTrace, TraceBy
  <1>2. PICK t \in [DOMAIN StepOf -> Seq(DOMAIN StepOf)] :
               t = [s \in DOMAIN StepOf |-> TraceBy(t, seen, s)]
    BY StepTraceExists, ZenonT(30)
  <1>3. u = [s \in DOMAIN StepOf |-> TraceBy(u, seen, s)]
    BY <1>1, <1>2, ZenonT(30)
  <1>4. \A s \in DOMAIN StepOf : u[s] = TraceBy(u, seen, s)
    BY <1>3, ZenonT(30)
  <1>5. \A s \in DOMAIN StepOf : u[s] = t[s]
    <2> HIDE DEF u
    <2>1. IsTrace(t, seen) /\ IsTrace(u, seen)
      BY <1>2, <1>3, ZenonT(30) DEF IsTrace
    <2> QED
      BY <1>2, <2>1, StepTraceUnique, ZenonT(30)
  <1>6. u \in [DOMAIN StepOf -> Seq(DOMAIN StepOf)]
    BY <1>2, <1>3, <1>5, ZenonT(30)
  <1> QED
    BY <1>4, <1>6, ZenonT(30) DEF TraceBy, Trace

(* The operations of a list of steps: of its first, then of the others. *)
LEMMA TraceIs ==
    ASSUME NEW seen, NEW l \in Seq(DOMAIN StepOf)
    PROVE  /\ Trace(l, seen) \in Seq(DOMAIN StepOf)
           /\ l = <<>> => Trace(l, seen) = <<>>
           /\ l # <<>> => Trace(l, seen) = StepTrace(seen)[Head(l)] \o Trace(Tail(l), seen)
  <1> DEFINE A == DOMAIN StepOf
             V == Seq(A)
             u == StepTrace(seen)
             c == [i \in DOMAIN l |-> u[l[i]]]
             d == [i \in DOMAIN Tail(l) |-> u[Tail(l)[i]]]
  <1>1. u \in [A -> V]
    BY StepTraceIs, ZenonT(30)
  <1>0. l \in Seq(A)
    OBVIOUS
  <1>2. c \in Seq(V)
    <2> HIDE DEF A, V, u
    <2> QED
      BY <1>0, <1>1
  <1>3. l = <<>> => c = <<>>
    BY <1>2
  <1>4. l # <<>> => c # <<>> /\ Head(c) = u[Head(l)] /\ Tail(c) = d
    <2> SUFFICES ASSUME l # <<>> PROVE c # <<>> /\ Head(c) = u[Head(l)] /\ Tail(c) = d
      OBVIOUS
    <2> HIDE DEF A, V, u
    <2>1. /\ Len(l) \in Nat /\ Len(l) >= 1 /\ DOMAIN l = 1 .. Len(l) /\ Head(l) = l[1]
          /\ Tail(l) \in Seq(A) /\ Len(Tail(l)) = Len(l) - 1
          /\ \A i \in 1 .. Len(l) - 1 : Tail(l)[i] = l[i + 1]
      BY <1>0
    <2>2. Len(c) = Len(l) /\ c # <<>>
      BY <1>2, <2>1
    <2>3. /\ Head(c) = c[1] /\ Tail(c) \in Seq(V) /\ Len(Tail(c)) = Len(l) - 1
          /\ \A i \in 1 .. Len(l) - 1 : Tail(c)[i] = c[i + 1]
      BY <1>2, <2>1, <2>2
    <2>4. d \in Seq(V) /\ Len(d) = Len(l) - 1
      BY <1>1, <2>1
    <2>5. \A i \in 1 .. Len(l) - 1 : Tail(c)[i] = d[i]
      <3> SUFFICES ASSUME NEW i \in 1 .. Len(l) - 1 PROVE Tail(c)[i] = d[i]
        OBVIOUS
      <3>1. i \in DOMAIN Tail(l) /\ i + 1 \in DOMAIN l
        BY <2>1
      <3> QED
        BY <2>1, <2>3, <3>1
    <2>6. Tail(c) = d
      <3> HIDE DEF c, d
      <3> QED
        BY <2>1, <2>3, <2>4, <2>5
    <2> QED
      BY <2>1, <2>2, <2>3, <2>6
  <1>5. Trace(l, seen) = Concat(c) /\ Trace(Tail(l), seen) = Concat(d)
    BY ZenonT(30) DEF Trace
  <1>6. /\ Concat(c) \in Seq(A)
        /\ c = <<>> => Concat(c) = <<>>
        /\ c # <<>> => Concat(c) = Head(c) \o Concat(Tail(c))
    <2> HIDE DEF c, A
    <2> QED
      BY <1>2, ConcatIs, ZenonT(30)
  <1> HIDE DEF c, d, u
  <1> QED
    BY <1>3, <1>4, <1>5, <1>6, ZenonT(30) DEF u

--------------------------------------------------------------------------------
(* Where the instructions of a \o Tail(s) come from, and what becomes of   *)
(* values that stand between them.                                         *)
LEMMA Splice ==
    ASSUME NEW s, IsSeq(s), s # <<>>, NEW a, IsSeq(a)
    PROVE  LET t == a \o Tail(s) IN
           /\ IsSeq(t) /\ Len(s) \in Nat /\ Len(t) \in Nat /\ Len(a) \in Nat
           /\ DOMAIN s = 1 .. Len(s) /\ DOMAIN t = 1 .. Len(t) /\ DOMAIN a = 1 .. Len(a)
           /\ Len(t) = Len(a) + (Len(s) - 1) /\ Len(s) >= 1 /\ Head(s) = s[1]
           /\ \A i \in DOMAIN t :
                \/ i \in DOMAIN a /\ t[i] = a[i]
                \/ i > Len(a) /\ i - Len(a) + 1 \in DOMAIN s /\ t[i] = s[i - Len(a) + 1]
  <1> DEFINE b == Tail(s)
             t == a \o b
             n == Len(a)
             m == Len(s) - 1
  <1>1. /\ IsSeq(b) /\ m \in Nat /\ DOMAIN s = 1 .. m + 1 /\ Len(s) = m + 1
        /\ Len(b) = m /\ \A i \in 1 .. m : b[i] = s[i + 1]
        /\ Head(s) = s[1]
    BY TailIsSeq, ZenonT(30)
  <1> HIDE DEF b, m
  <1>2. /\ IsSeq(t) /\ n \in Nat /\ DOMAIN a = 1 .. n /\ DOMAIN t = 1 .. n + m
        /\ \A i \in 1 .. n : t[i] = a[i]
        /\ \A i \in 1 .. m : t[n + i] = b[i]
    BY <1>1, ConcatIsSeq
  <1> HIDE DEF t, n
  <1>3. Len(t) = n + m
    <2>1. Len(t) \in Nat /\ DOMAIN t = 1 .. Len(t)
      BY <1>2 DEF IsSeq
    <2> QED
      BY <1>1, <1>2, <2>1
  <1>4. ASSUME NEW i \in DOMAIN t
        PROVE  \/ i \in DOMAIN a /\ t[i] = a[i]
               \/ i > n /\ i - n + 1 \in DOMAIN s /\ t[i] = s[i - n + 1]
    <2>1. CASE i <= n
      BY <1>1, <1>2, <2>1
    <2>2. CASE i > n
      <3>1. i - n \in 1 .. m /\ n + (i - n) = i
        BY <1>1, <1>2, <2>2
      <3>2. t[n + (i - n)] = s[(i - n) + 1]
        BY <1>1, <1>2, <3>1
      <3> QED
        BY <1>1, <1>2, <2>2, <3>1, <3>2
    <2> QED
      BY <1>1, <1>2, <2>1, <2>2
  <1>5. Len(s) \in Nat /\ Len(s) >= 1 /\ Len(t) \in Nat /\ Len(t) = n + (Len(s) - 1)
        /\ DOMAIN s = 1 .. Len(s) /\ DOMAIN t = 1 .. Len(t)
    BY <1>1, <1>2, <1>3
  <1> QED
    BY <1>1, <1>2, <1>4, <1>5 DEF t, b, n

(* Pairs of them, in order. *)
LEMMA SplicePairs ==
    ASSUME NEW s, IsSeq(s), s # <<>>, NEW a, IsSeq(a)
    PROVE  LET t == a \o Tail(s) IN \A i, j \in DOMAIN t : i < j =>
             \/ i \in DOMAIN a /\ j \in DOMAIN a /\ t[i] = a[i] /\ t[j] = a[j]
             \/ \E l \in DOMAIN s : i \in DOMAIN a /\ 1 < l /\ t[i] = a[i] /\ t[j] = s[l]
             \/ \E k, l \in DOMAIN s : k < l /\ t[i] = s[k] /\ t[j] = s[l]
  <1> DEFINE t == a \o Tail(s)
             n == Len(a)
  <1>1. /\ n \in Nat /\ DOMAIN a = 1 .. n /\ DOMAIN t = 1 .. Len(t) /\ Len(t) \in Nat
        /\ \A i \in DOMAIN t :
             \/ i \in DOMAIN a /\ t[i] = a[i]
             \/ i > n /\ i - n + 1 \in DOMAIN s /\ t[i] = s[i - n + 1]
    BY Splice
  <1> HIDE DEF t, n
  <1> SUFFICES ASSUME NEW i \in DOMAIN t, NEW j \in DOMAIN t, i < j
               PROVE  \/ i \in DOMAIN a /\ j \in DOMAIN a /\ t[i] = a[i] /\ t[j] = a[j]
                      \/ \E l \in DOMAIN s : i \in DOMAIN a /\ 1 < l /\ t[i] = a[i] /\ t[j] = s[l]
                      \/ \E k, l \in DOMAIN s : k < l /\ t[i] = s[k] /\ t[j] = s[l]
    BY DEF t
  <1>2. i \in Nat /\ j \in Nat
    BY <1>1
  <1>3. CASE j \in DOMAIN a /\ t[j] = a[j]
    <2>1. i \in DOMAIN a
      BY <1>1, <1>2, <1>3
    <2>2. ~(i > n)
      BY <1>1, <2>1
    <2> QED
      BY <1>1, <1>3, <2>1, <2>2
  <1>4. CASE j > n /\ j - n + 1 \in DOMAIN s /\ t[j] = s[j - n + 1]
    <2>1. 1 < j - n + 1 /\ i - n + 1 < j - n + 1
      BY <1>1, <1>2, <1>4
    <2> QED
      BY <1>1, <1>4, <2>1
  <1> QED
    BY <1>1, <1>3, <1>4

(* Values z between the instructions of t = a \o Tail(s): those between the *)
(* ones of a, then those between the ones of s.                             *)
Spliced(t, z, s, x, a, y) ==
    /\ z[1] = y[1] /\ z[Len(t) + 1] = x[Len(s) + 1]
    /\ \A i \in DOMAIN t :
         \/ i \in DOMAIN a /\ t[i] = a[i] /\ z[i] = y[i] /\ z[i + 1] = y[i + 1]
         \/ \E k \in DOMAIN s : 1 < k /\ t[i] = s[k] /\ z[i] = x[k] /\ z[i + 1] = x[k + 1]

(* Values between the instructions of a, and those after the first of s. *)
LEMMA SpliceValues ==
    ASSUME NEW s, IsSeq(s), s # <<>>, NEW a, IsSeq(a), NEW x, NEW y, y[Len(a) + 1] = x[2]
    PROVE  \E z : Spliced(a \o Tail(s), z, s, x, a, y)
  <1> DEFINE t == a \o Tail(s)
             n == Len(a)
             D == 1 .. Len(t) + 1
             z == [i \in D |-> IF i <= n THEN y[i] ELSE x[i - n + 1]]
  <1>1. /\ n \in Nat /\ DOMAIN a = 1 .. n /\ DOMAIN t = 1 .. Len(t) /\ Len(t) \in Nat
        /\ Len(s) \in Nat /\ Len(s) >= 1 /\ Len(t) = n + (Len(s) - 1)
        /\ \A i \in DOMAIN t :
             \/ i \in DOMAIN a /\ t[i] = a[i]
             \/ i > n /\ i - n + 1 \in DOMAIN s /\ t[i] = s[i - n + 1]
    BY Splice, SMTT(30)
  <1>0. y[n + 1] = x[2]
    OBVIOUS
  <1> HIDE DEF t, n
  <1>2. \A i \in D : (i <= n => z[i] = y[i]) /\ (~(i <= n) => z[i] = x[i - n + 1])
    <2> HIDE DEF D
    <2> QED
      BY ZenonT(30)
  <1>3. \A i \in 1 .. Len(t) + 1 : (i <= n => z[i] = y[i]) /\ (~(i <= n) => z[i] = x[i - n + 1])
    BY <1>2, ZenonT(30)
  <1> HIDE DEF z
  <1>4. \A i \in 1 .. n + 1 : z[i] = y[i]
    <2>1. n + 1 \in 1 .. Len(t) + 1 /\ ~(n + 1 <= n) /\ n + 1 - n + 1 = 2
      BY <1>1
    <2>2. z[n + 1] = y[n + 1]
      BY <1>0, <1>1, <1>3, <2>1
    <2> SUFFICES ASSUME NEW i \in 1 .. n + 1, i # n + 1 PROVE z[i] = y[i]
      BY <2>2
    <2>3. i <= n /\ i \in 1 .. Len(t) + 1
      BY <1>1
    <2> QED
      BY <1>3, <2>3, ZenonT(30)
  <1>5. z[1] = y[1]
    <2>1. 1 \in 1 .. n + 1
      BY <1>1
    <2> QED
      BY <1>4, <2>1, ZenonT(30)
  <1>6. z[Len(t) + 1] = x[Len(s) + 1]
    <2>1. Len(t) + 1 \in 1 .. Len(t) + 1 /\ ~(Len(t) + 1 <= n) /\ Len(t) + 1 - n + 1 = Len(s) + 1
      BY <1>1
    <2> QED
      BY <1>1, <1>3, <2>1
  <1>7. ASSUME NEW i \in DOMAIN t
        PROVE  \/ i \in DOMAIN a /\ t[i] = a[i] /\ z[i] = y[i] /\ z[i + 1] = y[i + 1]
               \/ \E k \in DOMAIN s : 1 < k /\ t[i] = s[k] /\ z[i] = x[k] /\ z[i + 1] = x[k + 1]
    <2>1. CASE i \in DOMAIN a /\ t[i] = a[i]
      <3>1. i \in 1 .. n + 1 /\ i + 1 \in 1 .. n + 1
        BY <1>1, <2>1
      <3> QED
        BY <1>4, <2>1, <3>1, ZenonT(30)
    <2>2. CASE i > n /\ i - n + 1 \in DOMAIN s /\ t[i] = s[i - n + 1]
      <3>1. /\ i \in 1 .. Len(t) + 1 /\ i + 1 \in 1 .. Len(t) + 1
            /\ ~(i <= n) /\ ~(i + 1 <= n) /\ 1 < i - n + 1 /\ i + 1 - n + 1 = i - n + 1 + 1
        BY <1>1, <2>2
      <3>2. z[i] = x[i - n + 1] /\ z[i + 1] = x[i - n + 1 + 1]
        BY <1>1, <1>3, <3>1
      <3> QED
        BY <2>2, <3>1, <3>2, ZenonT(30)
    <2> QED
      BY <1>1, <2>1, <2>2, ZenonT(30)
  <1>8. Spliced(t, z, s, x, a, y)
    BY <1>5, <1>6, <1>7, ZenonT(30) DEF Spliced
  <1> QED
    BY <1>8, ZenonT(30) DEF t

--------------------------------------------------------------------------------
Enters(i, do) == i.do = "enter" /\ i.body[1].do = do

(* The instructions that use or produce the value of a condition, and      *)
(* those that come after all of its evaluation.                            *)
IsEarly(i) == i.do \in {"eval", "items", "negate", "branch", "require"} \/ Enters(i, "eval")
IsLate(i) == i.do \in {"run", "steps", "branch", "require", "allow"} \/ Enters(i, "steps")

(* The steps an instruction is about to run. *)
Span(i) ==
    IF i.do \in {"run", "branch"} THEN {i.step}
    ELSE IF i.do = "steps" THEN Range(i.steps)
    ELSE IF Enters(i, "steps") THEN Range(i.body[1].steps)
    ELSE {}

(* What an instruction refers to is part of the rule. *)
Shaped(i) ==
    /\ i.do # "refuse"
    /\ i.do = "eval" => i.c \in DOMAIN CondOf
    /\ Enters(i, "eval") => i.body[1].c \in DOMAIN CondOf
    /\ i.do = "items" => i.op \in {"and", "or"} /\ i.items \in Seq(DOMAIN CondOf)
    /\ i.do = "steps" => Listed(i.steps)
    /\ Enters(i, "steps") => Listed(i.body[1].steps)
    /\ i.do \in {"run", "branch"} => i.step \in DOMAIN StepOf
    /\ i.do = "branch" => StepOf[i.step].kind = "if"

After(i, j) ==
    /\ IsLate(i) => ~IsEarly(j)
    /\ \A x \in Span(i), y \in Span(j) : StepOf[x].to < StepOf[y].from

(* The instructions of a request stand in the order of the rule's text. *)
Orderly(t) ==
    /\ \A k \in DOMAIN t : Shaped(t[k]) /\ (t[k].do = "allow" => k = Len(t))
    /\ \A k, l \in DOMAIN t : k < l => After(t[k], t[l])

(* The conditions of the rule hold of what the request brought. *)
Permitted(q) == LET c == Rules[q.cn].cond IN c = None \/ Holds(q.brought)[c]

Request(q) ==
    /\ DOMAIN q = {"cn", "table", "brought", "facts", "seen"}
    /\ q.cn \in Plugins /\ DOMAIN q.seen = DOMAIN StepOf

(* The value v returned before an instruction and the one after it, w. *)
Link(i, q, v, w) ==
    /\ i.do \in {"step", "exit"} => w = v
    /\ i.do = "negate" => w = ~v
    /\ i.do = "items" =>
         w = IF i.op = "and" THEN v /\ \A k \in DOMAIN i.items : Holds(q.facts)[i.items[k]]
             ELSE v \/ \E k \in DOMAIN i.items : Holds(q.facts)[i.items[k]]
    /\ i.do = "eval" => w = Holds(q.facts)[i.c]
    /\ Enters(i, "eval") => w = Holds(q.facts)[i.body[1].c]
    /\ i.do = "require" => v = Holds(q.brought)[Rules[q.cn].cond]
    /\ i.do = "branch" => v = Holds(q.seen[i.step])[StepOf[i.step].cond]

Valued(t, q, b) == \A k \in DOMAIN t : Link(t[k], q, b[k], b[k + 1])

(* The operations an instruction stands for, given what conditions see. *)
Operations(i, g) ==
    IF i.do \in {"run", "branch"} THEN StepTrace(g)[i.step]
    ELSE IF i.do = "steps" THEN Trace(i.steps, g)
    ELSE IF Enters(i, "steps") THEN Trace(i.body[1].steps, g)
    ELSE <<>>

Chained(t, g, w) ==
    \A k \in DOMAIN t : /\ w[k] \in Seq(DOMAIN StepOf) /\ w[k + 1] \in Seq(DOMAIN StepOf)
                        /\ w[k] = Operations(t[k], g) \o w[k + 1]

Goal(q, g) == IF Rules[q.cn].hasFlow THEN Trace(Rules[q.cn].flow, g) ELSE <<>>

(* What was executed and what is left make up the operations of the flow. *)
Traces(t, q, o, g) ==
    \E w : Chained(t, g, w) /\ w[Len(t) + 1] = <<>> /\ o \o w[1] = Goal(q, g)

(* The steps that were begun come before those that are pending. *)
Begun(d, i) ==
    \A y \in Span(i) : StepOf[d].from < StepOf[y].from \/ (i.do = "branch" /\ d = y)

Passed(t, S, o) ==
    \A k \in DOMAIN t :
        /\ t[k].do = "branch" => t[k].step \in S
        /\ \A d \in S \cup Range(o) : Begun(d, t[k])

Agrees(g, q, S) == \A s \in S : g[s] = q.seen[s]

Increasing(o) ==
    /\ o \in Seq(DOMAIN StepOf)
    /\ \A i, j \in DOMAIN o : i < j => StepOf[o[i]].from < StepOf[o[j]].from

(* A request that no error has stopped. *)
Runs(t, q, v, o) ==
    /\ v \in BOOLEAN /\ Request(q) /\ Orderly(t)
    /\ Permitted(q) \/ \E k \in DOMAIN t : t[k].do = "require"
    /\ \E b : b[1] = v /\ Valued(t, q, b)
    /\ \E S \in SUBSET DOMAIN StepOf : Passed(t, S, o) /\ \A g : Agrees(g, q, S) => Traces(t, q, o, g)

--------------------------------------------------------------------------------
(* The instructions a may stand in the place of h: they are parts of it,   *)
(* in order, ...                                                           *)
Within(x, h) ==
    \E y \in Span(h) :
        /\ StepOf[y].from <= StepOf[x].from /\ StepOf[x].to <= StepOf[y].to
        /\ h.do = "branch" => StepOf[y].from < StepOf[x].from

Refines(a, h) ==
    /\ \A k \in DOMAIN a : /\ Shaped(a[k]) /\ a[k].do # "allow" /\ (IsLate(a[k]) => IsLate(h))
                           /\ \A x \in Span(a[k]) : Within(x, h)
    /\ \A k, l \in DOMAIN a : k < l => After(a[k], a[l])

(* ... their values lead from u to what h made of v, if that is used, ... *)
Returns(a, h, q, v, u) ==
    \A e : Link(h, q, v, e) =>
        \E y : y[1] = u /\ (y[Len(a) + 1] = e \/ IsLate(h)) /\ Valued(a, q, y)

(* ... the steps D of h are begun, ... *)
Begins(a, h, D) ==
    /\ D \subseteq Span(h)
    /\ \A k \in DOMAIN a : /\ a[k].do = "branch" => a[k].step \in D
                           /\ \A d \in D : Begun(d, a[k])

(* ... and what they and p execute is what h and o did. *)
Executes(a, h, q, o, p, D) ==
    /\ Range(p) \subseteq Range(o) \cup D
    /\ \A g, e : /\ e \in Seq(DOMAIN StepOf) /\ Agrees(g, q, D)
                 /\ h.do = "branch" => g[h.step] = q.seen[h.step]
                 /\ Operations(h, g) \in Seq(DOMAIN StepOf)
         => \E y : /\ y[Len(a) + 1] = e /\ Chained(a, g, y)
                   /\ p \o y[1] = o \o (Operations(h, g) \o e)

(* An instruction refers to steps of the rule. *)
LEMMA SpanIs == ASSUME NEW i, Shaped(i) PROVE Span(i) \subseteq DOMAIN StepOf
  <1>1. \A l : Listed(l) => Range(l) \subseteq DOMAIN StepOf
    BY DEF Listed, Range
  <1>2. CASE i.do \in {"run", "branch"}
    BY <1>2, ZenonT(30) DEF Span, Shaped
  <1>3. CASE i.do = "steps"
    BY <1>1, <1>3 DEF Span, Shaped
  <1>4. CASE Enters(i, "steps")
    <2>1. i.do = "enter"
      BY <1>4, ZenonT(30) DEF Enters
    <2> QED
      BY <1>1, <1>4, <2>1 DEF Span, Shaped
  <1>5. CASE i.do \notin {"run", "branch", "steps"} /\ ~Enters(i, "steps")
    BY <1>5 DEF Span
  <1> QED
    BY <1>2, <1>3, <1>4, <1>5, ZenonT(30)

(* Where a step of the rule begins and ends. *)
LEMMA TextIs ==
    ASSUME NEW s \in DOMAIN StepOf
    PROVE  StepOf[s].from \in Nat /\ StepOf[s].to \in Nat /\ StepOf[s].from <= StepOf[s].to
  BY PartsAreInside, ZenonT(30)

(* What comes after h comes after its parts. *)
LEMMA PartsComeFirst ==
    ASSUME NEW h, Shaped(h), NEW i, Shaped(i), NEW j, Shaped(j), After(h, j),
           IsLate(i) => IsLate(h), \A x \in Span(i) : Within(x, h)
    PROVE  After(i, j)
  <1>1. IsLate(i) => ~IsEarly(j)
    BY ZenonT(30) DEF After
  <1>2. ASSUME NEW x \in Span(i), NEW y \in Span(j) PROVE StepOf[x].to < StepOf[y].from
    <2>1. PICK z \in Span(h) : StepOf[x].to <= StepOf[z].to
      BY ZenonT(30) DEF Within
    <2>2. StepOf[z].to < StepOf[y].from
      BY ZenonT(30) DEF After
    <2>3. x \in DOMAIN StepOf /\ y \in DOMAIN StepOf /\ z \in DOMAIN StepOf
      BY SpanIs, ZenonT(30)
    <2>4. StepOf[x].to \in Nat /\ StepOf[z].to \in Nat /\ StepOf[y].from \in Nat
      BY <2>3, TextIs, ZenonT(30)
    <2> QED
      BY <2>1, <2>2, <2>4
  <1> QED
    BY <1>1, <1>2, ZenonT(30) DEF After

(* The instructions that stand in the place of the first keep the order. *)
LEMMA OrderKept ==
    ASSUME NEW s, IsSeq(s), s # <<>>, Orderly(s), NEW a, IsSeq(a), Refines(a, Head(s))
    PROVE  Orderly(a \o Tail(s))
  <1> DEFINE t == a \o Tail(s)
             n == Len(a)
  <1>1. /\ n \in Nat /\ DOMAIN a = 1 .. n /\ DOMAIN t = 1 .. Len(t) /\ Len(t) \in Nat
        /\ Len(s) \in Nat /\ Len(s) >= 1 /\ Len(t) = n + (Len(s) - 1)
        /\ Head(s) = s[1] /\ DOMAIN s = 1 .. Len(s)
        /\ \A i \in DOMAIN t :
             \/ i \in DOMAIN a /\ t[i] = a[i]
             \/ i > n /\ i - n + 1 \in DOMAIN s /\ t[i] = s[i - n + 1]
    BY Splice
  <1>2. \A i, j \in DOMAIN t : i < j =>
             \/ i \in DOMAIN a /\ j \in DOMAIN a /\ t[i] = a[i] /\ t[j] = a[j]
             \/ \E l \in DOMAIN s : i \in DOMAIN a /\ 1 < l /\ t[i] = a[i] /\ t[j] = s[l]
             \/ \E k, l \in DOMAIN s : k < l /\ t[i] = s[k] /\ t[j] = s[l]
    BY SplicePairs
  <1> HIDE DEF t, n
  <1>3. 1 \in DOMAIN s
    BY <1>1
  <1>4. ASSUME NEW i \in DOMAIN t PROVE Shaped(t[i]) /\ (t[i].do = "allow" => i = Len(t))
    <2>1. CASE i \in DOMAIN a /\ t[i] = a[i]
      BY <2>1, ZenonT(30) DEF Refines
    <2>2. CASE i > n /\ i - n + 1 \in DOMAIN s /\ t[i] = s[i - n + 1]
      <3>1. Shaped(t[i]) /\ (t[i].do = "allow" => i - n + 1 = Len(s))
        BY <2>2, ZenonT(30) DEF Orderly
      <3>2. i - n + 1 = Len(s) => i = Len(t)
        BY <1>1
      <3> QED
        BY <3>1, <3>2, ZenonT(30)
    <2> QED
      BY <1>1, <2>1, <2>2, ZenonT(30)
  <1>5. ASSUME NEW i \in DOMAIN t, NEW j \in DOMAIN t, i < j PROVE After(t[i], t[j])
    <2>1. CASE i \in DOMAIN a /\ j \in DOMAIN a /\ t[i] = a[i] /\ t[j] = a[j]
      BY <1>5, <2>1, ZenonT(30) DEF Refines
    <2>2. ASSUME NEW l \in DOMAIN s, i \in DOMAIN a, 1 < l, t[i] = a[i], t[j] = s[l]
          PROVE  After(t[i], t[j])
      <3>1. Shaped(s[1]) /\ Shaped(s[l]) /\ After(s[1], s[l])
        BY <1>3, <2>2, ZenonT(30) DEF Orderly
      <3>2. Shaped(a[i]) /\ (IsLate(a[i]) => IsLate(s[1])) /\ \A x \in Span(a[i]) : Within(x, s[1])
        BY <1>1, <2>2, ZenonT(30) DEF Refines
      <3>3. After(a[i], s[l])
        BY <3>1, <3>2, PartsComeFirst, ZenonT(30)
      <3> QED
        BY <2>2, <3>3, ZenonT(30)
    <2>3. ASSUME NEW k \in DOMAIN s, NEW l \in DOMAIN s, k < l, t[i] = s[k], t[j] = s[l]
          PROVE  After(t[i], t[j])
      BY <2>3, ZenonT(30) DEF Orderly
    <2> QED
      BY <1>2, <1>5, <2>1, <2>2, <2>3, ZenonT(30)
  <1>6. Orderly(t)
    BY <1>4, <1>5, ZenonT(30) DEF Orderly
  <1> QED
    BY <1>6, ZenonT(30) DEF t

(* A program with a at its head is about a, or about what was left. *)
LEMMA SpliceIs ==
    ASSUME NEW s, IsSeq(s), s # <<>>, NEW a, IsSeq(a)
    PROVE  LET t == a \o Tail(s) IN
           /\ 1 \in DOMAIN s /\ Head(s) = s[1] /\ 1 + 1 = 2
           /\ \A k \in DOMAIN s : k # 1 => \E i \in DOMAIN t : t[i] = s[k]
           /\ \A i \in DOMAIN t : \/ i \in DOMAIN a /\ t[i] = a[i]
                                  \/ \E k \in DOMAIN s : 1 < k /\ t[i] = s[k]
  <1> DEFINE b == Tail(s)
             t == a \o b
             n == Len(a)
             m == Len(s) - 1
  <1>1. /\ IsSeq(b) /\ m \in Nat /\ DOMAIN s = 1 .. m + 1 /\ Len(s) = m + 1
        /\ Len(b) = m /\ \A i \in 1 .. m : b[i] = s[i + 1]
        /\ Head(s) = s[1]
    BY TailIsSeq, ZenonT(30)
  <1> HIDE DEF b, m
  <1>2. /\ IsSeq(t) /\ n \in Nat /\ DOMAIN a = 1 .. n /\ DOMAIN t = 1 .. n + m
        /\ \A i \in 1 .. n : t[i] = a[i]
        /\ \A i \in 1 .. m : t[n + i] = b[i]
    BY <1>1, ConcatIsSeq
  <1> HIDE DEF t, n
  <1>3. ASSUME NEW k \in DOMAIN s, k # 1 PROVE \E i \in DOMAIN t : t[i] = s[k]
    <2>1. k - 1 \in 1 .. m /\ k - 1 + 1 = k
      BY <1>1, <1>3
    <2>2. b[k - 1] = s[k - 1 + 1] /\ t[n + (k - 1)] = b[k - 1] /\ n + (k - 1) \in DOMAIN t
      BY <1>1, <1>2, <2>1
    <2>3. t[n + (k - 1)] = s[k]
      BY <2>1, <2>2
    <2> QED
      BY <2>2, <2>3, ZenonT(30)
  <1>4. ASSUME NEW i \in DOMAIN t
        PROVE  \/ i \in DOMAIN a /\ t[i] = a[i]
               \/ \E k \in DOMAIN s : 1 < k /\ t[i] = s[k]
    <2>1. CASE i <= n
      BY <1>1, <1>2, <2>1
    <2>2. CASE i > n
      <3>1. i - n \in 1 .. m /\ n + (i - n) = i /\ 1 < i - n + 1 /\ i - n + 1 \in DOMAIN s
        BY <1>1, <1>2, <2>2
      <3>2. t[n + (i - n)] = b[i - n] /\ b[i - n] = s[i - n + 1]
        BY <1>1, <1>2, <3>1, ZenonT(30)
      <3> QED
        BY <3>1, <3>2, ZenonT(30)
    <2> QED
      BY <1>1, <1>2, <2>1, <2>2
  <1>5. 1 \in DOMAIN s /\ 1 + 1 = 2
    BY <1>1
  <1> QED
    BY <1>1, <1>3, <1>4, <1>5, ZenonT(30) DEF t, b

(* Nothing after the conditions uses their value. *)
LEMMA FrontIs ==
    ASSUME NEW s, IsSeq(s), s # <<>>, NEW a, IsSeq(a), NEW i \in DOMAIN a
    PROVE  i \in DOMAIN (a \o Tail(s)) /\ (a \o Tail(s))[i] = a[i]
  <1> DEFINE b == Tail(s)
             t == a \o b
  <1>1. IsSeq(b)
    BY TailIsSeq, ZenonT(30)
  <1> HIDE DEF b
  <1>2. /\ Len(a) \in Nat /\ Len(b) \in Nat
        /\ DOMAIN a = 1 .. Len(a) /\ DOMAIN t = 1 .. Len(a) + Len(b)
        /\ \A k \in 1 .. Len(a) : t[k] = a[k]
    BY <1>1, ConcatIsSeq, ZenonT(30)
  <1> HIDE DEF t
  <1>3. i \in DOMAIN t /\ t[i] = a[i]
    BY <1>2
  <1> QED
    BY <1>3, ZenonT(30) DEF t, b

(* An instruction that is not early returns what it finds. *)
LEMMA LateLink == ASSUME NEW i, ~IsEarly(i), NEW q, NEW e PROVE Link(i, q, e, e)
  BY ZenonT(30) DEF IsEarly, Link

(* The values returned between the instructions fit together again. *)
LEMMA ValuesKept ==
    ASSUME NEW s, IsSeq(s), s # <<>>, Orderly(s), NEW q, NEW b, Valued(s, q, b), NEW a, IsSeq(a),
           NEW u, Returns(a, Head(s), q, b[1], u)
    PROVE  \E z : z[1] = u /\ Valued(a \o Tail(s), q, z)
  <1> DEFINE t == a \o Tail(s)
  <1>1. 1 \in DOMAIN s /\ Head(s) = s[1] /\ 1 + 1 = 2
    BY SpliceIs
  <1>2. Link(s[1], q, b[1], b[1 + 1])
    BY <1>1, ZenonT(30) DEF Valued
  <1>3. Link(Head(s), q, b[1], b[2])
    BY <1>1, <1>2, ZenonT(30)
  <1>4. PICK y : y[1] = u /\ (y[Len(a) + 1] = b[2] \/ IsLate(Head(s))) /\ Valued(a, q, y)
    BY <1>3, ZenonT(30) DEF Returns
  <1>5. \E x : y[Len(a) + 1] = x[2] /\ \A k \in DOMAIN s : 1 < k => Link(s[k], q, x[k], x[k + 1])
    <2>1. CASE y[Len(a) + 1] = b[2]
      BY <2>1, ZenonT(30) DEF Valued
    <2>2. CASE IsLate(s[1])
      <3> DEFINE e == y[Len(a) + 1]
                 x == [k \in Nat |-> e]
      <3>1. \A k \in DOMAIN s : k \in Nat /\ k + 1 \in Nat
        BY DEF IsSeq
      <3>2. \A k \in DOMAIN s : 1 < k => ~IsEarly(s[k])
        BY <1>1, <2>2, ZenonT(30) DEF Orderly, After
      <3>3. \A k \in DOMAIN s : 1 < k => Link(s[k], q, e, e)
        BY <3>2, LateLink, ZenonT(30)
      <3>4. \A k \in Nat : x[k] = e
        BY ZenonT(30)
      <3> HIDE DEF x
      <3>5. \A k \in DOMAIN s : 1 < k => Link(s[k], q, x[k], x[k + 1])
        BY <3>1, <3>3, <3>4, ZenonT(30)
      <3>6. x[2] = e
        BY <3>4
      <3> QED
        BY <3>5, <3>6, ZenonT(30)
    <2> QED
      BY <1>1, <1>4, <2>1, <2>2, ZenonT(30)
  <1>6. PICK x : y[Len(a) + 1] = x[2] /\ \A k \in DOMAIN s : 1 < k => Link(s[k], q, x[k], x[k + 1])
    BY <1>5, ZenonT(30)
  <1>7. PICK z : Spliced(t, z, s, x, a, y)
    BY <1>6, SpliceValues, ZenonT(30)
  <1>8. ASSUME NEW i \in DOMAIN t PROVE Link(t[i], q, z[i], z[i + 1])
    <2>1. CASE i \in DOMAIN a /\ t[i] = a[i] /\ z[i] = y[i] /\ z[i + 1] = y[i + 1]
      BY <1>4, <2>1, ZenonT(30) DEF Valued
    <2>2. ASSUME NEW k \in DOMAIN s, 1 < k, t[i] = s[k], z[i] = x[k], z[i + 1] = x[k + 1]
          PROVE  Link(t[i], q, z[i], z[i + 1])
      BY <1>6, <2>2, ZenonT(30)
    <2> QED
      BY <1>7, <2>1, <2>2, ZenonT(30) DEF Spliced
  <1>9. z[1] = u
    BY <1>4, <1>7, ZenonT(30) DEF Spliced
  <1> QED
    BY <1>8, <1>9, ZenonT(30) DEF Valued

(* The steps of h are begun. *)
LEMMA PassedKept ==
    ASSUME NEW s, IsSeq(s), s # <<>>, Orderly(s), NEW a, IsSeq(a), Refines(a, Head(s)),
           NEW S, S \subseteq DOMAIN StepOf, NEW o, Range(o) \subseteq DOMAIN StepOf, Passed(s, S, o),
           NEW D, Begins(a, Head(s), D), NEW p, Range(p) \subseteq Range(o) \cup D
    PROVE  S \cup D \subseteq DOMAIN StepOf /\ Passed(a \o Tail(s), S \cup D, p)
  <1> DEFINE t == a \o Tail(s)
             h == s[1]
  <1>1. /\ 1 \in DOMAIN s /\ Head(s) = h
        /\ \A i \in DOMAIN t : \/ i \in DOMAIN a /\ t[i] = a[i]
                               \/ \E k \in DOMAIN s : 1 < k /\ t[i] = s[k]
    BY SpliceIs
  <1> HIDE DEF t
  <1>2. Shaped(h) /\ Span(h) \subseteq DOMAIN StepOf
    BY <1>1, SpanIs, ZenonT(30) DEF Orderly
  <1>3. D \subseteq Span(h)
    BY <1>1, ZenonT(30) DEF Begins
  <1>4. S \cup D \subseteq DOMAIN StepOf
    BY <1>2, <1>3
  <1>5. ASSUME NEW i \in DOMAIN a
        PROVE  /\ a[i].do = "branch" => a[i].step \in S \cup D
               /\ \A d \in S \cup D \cup Range(p) : Begun(d, a[i])
    <2>1. a[i].do = "branch" => a[i].step \in D
      BY ZenonT(30) DEF Begins
    <2>2. ASSUME NEW d \in D PROVE Begun(d, a[i])
      BY ZenonT(30) DEF Begins
    <2>3. ASSUME NEW d \in S \cup Range(o), NEW x \in Span(a[i]) PROVE StepOf[d].from < StepOf[x].from
      <3>1. PICK y \in Span(h) : /\ StepOf[y].from <= StepOf[x].from
                                 /\ h.do = "branch" => StepOf[y].from < StepOf[x].from
        BY <1>1, ZenonT(30) DEF Refines, Within
      <3>2. StepOf[d].from < StepOf[y].from \/ (h.do = "branch" /\ d = y)
        BY <1>1, SMTT(30) DEF Passed, Begun
      <3>3. Shaped(a[i])
        BY ZenonT(30) DEF Refines
      <3>4. x \in DOMAIN StepOf /\ y \in DOMAIN StepOf /\ d \in DOMAIN StepOf
        BY <1>2, <3>3, SpanIs
      <3>5. StepOf[x].from \in Nat /\ StepOf[y].from \in Nat /\ StepOf[d].from \in Nat
        BY <3>4, TextIs, ZenonT(30)
      <3> QED
        BY <3>1, <3>2, <3>5
    <2>4. \A d \in S \cup Range(o) : Begun(d, a[i])
      BY <2>3, ZenonT(30) DEF Begun
    <2> QED
      BY <2>1, <2>2, <2>4, ZenonT(30)
  <1>6. ASSUME NEW k \in DOMAIN s, 1 < k
        PROVE  /\ s[k].do = "branch" => s[k].step \in S \cup D
               /\ \A d \in S \cup D \cup Range(p) : Begun(d, s[k])
    <2>1. After(h, s[k]) /\ Shaped(s[k])
      BY <1>1, <1>6, ZenonT(30) DEF Orderly
    <2>2. ASSUME NEW d \in D, NEW y \in Span(s[k]) PROVE StepOf[d].from < StepOf[y].from
      <3>1. StepOf[d].to < StepOf[y].from
        BY <1>3, <2>1, ZenonT(30) DEF After
      <3>2. d \in DOMAIN StepOf /\ y \in DOMAIN StepOf
        BY <1>2, <1>3, <2>1, SpanIs
      <3>3. StepOf[d].from \in Nat /\ StepOf[d].to \in Nat /\ StepOf[d].from <= StepOf[d].to
        BY <3>2, TextIs, ZenonT(30)
      <3>4. StepOf[y].from \in Nat
        BY <3>2, TextIs, ZenonT(30)
      <3> QED
        BY <3>1, <3>3, <3>4
    <2>3. \A d \in D : Begun(d, s[k])
      BY <2>2, ZenonT(30) DEF Begun
    <2>4. /\ s[k].do = "branch" => s[k].step \in S
          /\ \A d \in S \cup Range(o) : Begun(d, s[k])
      BY ZenonT(30) DEF Passed
    <2> QED
      BY <2>3, <2>4, ZenonT(30)
  <1>7. ASSUME NEW i \in DOMAIN t
        PROVE  /\ t[i].do = "branch" => t[i].step \in S \cup D
               /\ \A d \in S \cup D \cup Range(p) : Begun(d, t[i])
    <2>1. CASE i \in DOMAIN a /\ t[i] = a[i]
      BY <1>5, <2>1, ZenonT(30)
    <2>2. ASSUME NEW k \in DOMAIN s, 1 < k, t[i] = s[k]
          PROVE  /\ t[i].do = "branch" => t[i].step \in S \cup D
                 /\ \A d \in S \cup D \cup Range(p) : Begun(d, t[i])
      BY <1>6, <2>2, ZenonT(30)
    <2> QED
      BY <1>1, <2>1, <2>2, ZenonT(30)
  <1>8. Passed(t, S \cup D, p)
    BY <1>7, ZenonT(30) DEF Passed
  <1> QED
    BY <1>4, <1>8, ZenonT(30) DEF t

(* The operations of an instruction are steps of the rule. *)
LEMMA OperationsIs ==
    ASSUME NEW i, Shaped(i), NEW g PROVE Operations(i, g) \in Seq(DOMAIN StepOf)
  <1>1. CASE i.do \in {"run", "branch"}
    <2>1. i.step \in DOMAIN StepOf /\ Operations(i, g) = StepTrace(g)[i.step]
      BY <1>1, ZenonT(30) DEF Shaped, Operations
    <2> QED
      BY <2>1, StepTraceIs, ZenonT(30)
  <1>2. CASE i.do = "steps"
    <2>1. i.steps \in Seq(DOMAIN StepOf) /\ Operations(i, g) = Trace(i.steps, g)
      BY <1>2 DEF Shaped, Listed, Operations
    <2> QED
      BY <2>1, TraceIs, ZenonT(30)
  <1>3. CASE Enters(i, "steps")
    <2>0. i.do = "enter"
      BY <1>3, ZenonT(30) DEF Enters
    <2>1. i.body[1].steps \in Seq(DOMAIN StepOf) /\ Operations(i, g) = Trace(i.body[1].steps, g)
      BY <1>3, <2>0 DEF Shaped, Listed, Operations
    <2> QED
      BY <2>1, TraceIs, ZenonT(30)
  <1>4. CASE i.do \notin {"run", "branch", "steps"} /\ ~Enters(i, "steps")
    <2>1. Operations(i, g) = <<>>
      BY <1>4, ZenonT(30) DEF Operations
    <2> QED
      BY <2>1
  <1> QED
    BY <1>1, <1>2, <1>3, <1>4, ZenonT(30)

(* The operations done and left to do still make up the flow. *)
LEMMA TracesKept ==
    ASSUME NEW s, IsSeq(s), s # <<>>, Orderly(s), NEW a, IsSeq(a), NEW q, NEW o, NEW p, NEW D,
           Executes(a, Head(s), q, o, p, D), NEW g, Agrees(g, q, D), Traces(s, q, o, g),
           Head(s).do = "branch" => g[Head(s).step] = q.seen[Head(s).step]
    PROVE  Traces(a \o Tail(s), q, p, g)
  <1> DEFINE t == a \o Tail(s)
             V == Seq(DOMAIN StepOf)
  <1>1. 1 \in DOMAIN s /\ Head(s) = s[1] /\ 1 + 1 = 2
    BY SpliceIs
  <1>2. PICK w : Chained(s, g, w) /\ w[Len(s) + 1] = <<>> /\ o \o w[1] = Goal(q, g)
    BY ZenonT(30) DEF Traces
  <1>3. w[1 + 1] \in V /\ w[1] = Operations(s[1], g) \o w[1 + 1]
    BY <1>1, <1>2, ZenonT(30) DEF Chained
  <1>4. w[2] \in V /\ w[1] = Operations(Head(s), g) \o w[2]
    BY <1>1, <1>3, ZenonT(30)
  <1>5. Operations(Head(s), g) \in V
    BY <1>1, OperationsIs, ZenonT(30) DEF Orderly
  <1>6. PICK y : /\ y[Len(a) + 1] = w[2] /\ Chained(a, g, y)
                 /\ p \o y[1] = o \o (Operations(Head(s), g) \o w[2])
    BY <1>4, <1>5, ZenonT(30) DEF Executes
  <1>7. PICK z : Spliced(t, z, s, w, a, y)
    BY <1>6, SpliceValues, ZenonT(30)
  <1>8. ASSUME NEW i \in DOMAIN t
        PROVE  z[i] \in V /\ z[i + 1] \in V /\ z[i] = Operations(t[i], g) \o z[i + 1]
    <2>1. CASE i \in DOMAIN a /\ t[i] = a[i] /\ z[i] = y[i] /\ z[i + 1] = y[i + 1]
      BY <1>6, <2>1, ZenonT(30) DEF Chained
    <2>2. ASSUME NEW k \in DOMAIN s, t[i] = s[k], z[i] = w[k], z[i + 1] = w[k + 1]
          PROVE  z[i] \in V /\ z[i + 1] \in V /\ z[i] = Operations(t[i], g) \o z[i + 1]
      BY <1>2, <2>2, ZenonT(30) DEF Chained
    <2> QED
      BY <1>7, <2>1, <2>2, ZenonT(30) DEF Spliced
  <1>9. z[1] = y[1] /\ z[Len(t) + 1] = <<>>
    BY <1>2, <1>7, ZenonT(30) DEF Spliced
  <1>10. p \o z[1] = Goal(q, g)
    BY <1>2, <1>4, <1>6, <1>9, ZenonT(30)
  <1>11. Chained(t, g, z)
    BY <1>8, ZenonT(30) DEF Chained
  <1> QED
    BY <1>9, <1>10, <1>11, ZenonT(30) DEF Traces

(* A request runs on when a stands in the place of its first instruction. *)
Serving(s, q, v, o) == IsSeq(s) /\ s # <<>> /\ Runs(s, q, v, o) /\ o \in Seq(DOMAIN StepOf)

Fits(a, h, q, v, u, o, p, D) ==
    /\ IsSeq(a) /\ Refines(a, h) /\ u \in BOOLEAN /\ Returns(a, h, q, v, u)
    /\ Begins(a, h, D) /\ Executes(a, h, q, o, p, D)
    /\ h.do = "require" => Permitted(q) \/ \E k \in DOMAIN a : a[k].do = "require"

(* A request whose first instruction is replaced by others that fit. *)
LEMMA RunsOn ==
    ASSUME NEW s, NEW q, NEW v, NEW o, Serving(s, q, v, o),
           NEW a, NEW u, NEW p, NEW D, Fits(a, Head(s), q, v, u, o, p, D)
    PROVE  Runs(a \o Tail(s), q, u, p)
  <1> DEFINE t == a \o Tail(s)
  <1>0. /\ IsSeq(s) /\ s # <<>> /\ Runs(s, q, v, o) /\ Range(o) \subseteq DOMAIN StepOf
        /\ IsSeq(a) /\ Refines(a, Head(s)) /\ u \in BOOLEAN /\ Returns(a, Head(s), q, v, u)
        /\ Begins(a, Head(s), D) /\ Executes(a, Head(s), q, o, p, D)
    BY DEF Serving, Fits, Range
  <1>1. Orderly(t)
    BY <1>0, OrderKept, ZenonT(30) DEF Runs
  <1>2. \E z : z[1] = u /\ Valued(t, q, z)
    <2>1. PICK b : b[1] = v /\ Valued(s, q, b)
      BY <1>0, ZenonT(30) DEF Runs
    <2>2. Returns(a, Head(s), q, b[1], u) /\ Orderly(s)
      BY <1>0, <2>1, ZenonT(30) DEF Runs
    <2> QED
      BY <1>0, <2>1, <2>2, ValuesKept, SMTT(30)
  <1>3. Permitted(q) \/ \E k \in DOMAIN t : t[k].do = "require"
    <2>1. ASSUME NEW k \in DOMAIN s, s[k].do = "require", ~Permitted(q)
          PROVE  \E i \in DOMAIN t : t[i].do = "require"
      <3>0. Head(s).do = "require" => Permitted(q) \/ \E i \in DOMAIN a : a[i].do = "require"
        BY ZenonT(30) DEF Fits
      <3>1. Head(s) = s[1]
        BY <1>0, SpliceIs
      <3>2. CASE k = 1
        <4>1. PICK i \in DOMAIN a : a[i].do = "require"
          BY <3>0, <2>1, <3>1, <3>2, ZenonT(30)
        <4>2. IsSeq(s) /\ s # <<>> /\ IsSeq(a)
          BY <1>0, ZenonT(30)
        <4>3. i \in DOMAIN t /\ t[i] = a[i]
          BY <4>2, FrontIs, ZenonT(30)
        <4> QED
          BY <4>1, <4>3, ZenonT(30)
      <3>3. CASE k # 1
        <4>1. \E i \in DOMAIN t : t[i] = s[k]
          BY <1>0, <3>3, SpliceIs
        <4> QED
          BY <2>1, <4>1, ZenonT(30)
      <3> QED
        BY <3>2, <3>3
    <2> QED
      BY <1>0, <2>1, ZenonT(30) DEF Runs
  <1>4. \E T \in SUBSET DOMAIN StepOf : Passed(t, T, p) /\ \A g : Agrees(g, q, T) => Traces(t, q, p, g)
    <2>1. PICK S \in SUBSET DOMAIN StepOf :
            Passed(s, S, o) /\ \A g : Agrees(g, q, S) => Traces(s, q, o, g)
      BY <1>0, ZenonT(30) DEF Runs
    <2>2. S \cup D \subseteq DOMAIN StepOf /\ Passed(t, S \cup D, p)
      BY <1>0, <2>1, PassedKept, ZenonT(30) DEF Runs, Executes
    <2>3. ASSUME NEW g, Agrees(g, q, S \cup D) PROVE Traces(t, q, p, g)
      <3>1. Agrees(g, q, S) /\ Agrees(g, q, D)
        BY <2>3, ZenonT(30) DEF Agrees
      <3>2. 1 \in DOMAIN s /\ Head(s) = s[1]
        BY <1>0, SpliceIs
      <3>3. Head(s).do = "branch" => Head(s).step \in S
        BY <2>1, <3>2, ZenonT(30) DEF Passed
      <3>4. Head(s).do = "branch" => g[Head(s).step] = q.seen[Head(s).step]
        BY <3>1, <3>3, ZenonT(30) DEF Agrees
      <3>5. Orderly(s) /\ Traces(s, q, o, g)
        BY <1>0, <2>1, <3>1, ZenonT(30) DEF Runs
      <3> QED
        BY <1>0, <3>1, <3>4, <3>5, TracesKept, ZenonT(30)
    <2> QED
      BY <2>2, <2>3, ZenonT(30)
  <1>5. Request(q)
    BY <1>0, ZenonT(30) DEF Runs
  <1> QED
    BY <1>0, <1>1, <1>2, <1>3, <1>4, <1>5, ZenonT(30) DEF Runs

--------------------------------------------------------------------------------
(* Short programs. *)
LEMMA ShortSeqs ==
    /\ IsSeq(<<>>) /\ Len(<<>>) = 0 /\ DOMAIN <<>> = {}
    /\ \A x : IsSeq(<<x>>) /\ Len(<<x>>) = 1 /\ DOMAIN <<x>> = {1} /\ <<x>>[1] = x
    /\ \A x, y : /\ IsSeq(<<x, y>>) /\ Len(<<x, y>>) = 2 /\ DOMAIN <<x, y>> = {1, 2}
                 /\ <<x, y>>[1] = x /\ <<x, y>>[2] = y
    /\ \A x, y, z : /\ IsSeq(<<x, y, z>>) /\ Len(<<x, y, z>>) = 3 /\ DOMAIN <<x, y, z>> = {1, 2, 3}
                    /\ <<x, y, z>>[1] = x /\ <<x, y, z>>[2] = y /\ <<x, y, z>>[3] = z
  <1>1. IsSeq(<<>>) /\ Len(<<>>) = 0 /\ DOMAIN <<>> = {}
    BY DEF IsSeq, Range
  <1>2. ASSUME NEW x PROVE IsSeq(<<x>>) /\ Len(<<x>>) = 1 /\ DOMAIN <<x>> = {1} /\ <<x>>[1] = x
    BY DEF IsSeq, Range
  <1>3. ASSUME NEW x, NEW y
        PROVE  /\ IsSeq(<<x, y>>) /\ Len(<<x, y>>) = 2 /\ DOMAIN <<x, y>> = {1, 2}
               /\ <<x, y>>[1] = x /\ <<x, y>>[2] = y
    <2>1. <<x, y>> \in Seq({x, y})
      OBVIOUS
    <2>2. IsSeq(<<x, y>>)
      BY <2>1, SeqIsSeq, ZenonT(30)
    <2> QED
      BY <2>2
  <1>4. ASSUME NEW x, NEW y, NEW z
        PROVE  /\ IsSeq(<<x, y, z>>) /\ Len(<<x, y, z>>) = 3 /\ DOMAIN <<x, y, z>> = {1, 2, 3}
               /\ <<x, y, z>>[1] = x /\ <<x, y, z>>[2] = y /\ <<x, y, z>>[3] = z
    <2>1. <<x, y, z>> \in Seq({x, y, z})
      OBVIOUS
    <2>2. IsSeq(<<x, y, z>>)
      BY <2>1, SeqIsSeq, ZenonT(30)
    <2> QED
      BY <2>2
  <1> QED
    BY <1>1, <1>2, <1>3, <1>4, ZenonT(30)

(* The values between the instructions of a program of n, 1 <= n <= 3. *)
LEMMA ShortChains ==
    /\ \A e : <<e>>[0 + 1] = e /\ <<e>>[1] = e
    /\ \A e, f : <<e, f>>[1 + 1] = f /\ <<e, f>>[1] = e
    /\ \A e, f, g : <<e, f, g>>[2 + 1] = g /\ <<e, f, g>>[1] = e /\ <<e, f, g>>[1 + 1] = f
    /\ \A e, f, g, h : /\ <<e, f, g, h>>[3 + 1] = h /\ <<e, f, g, h>>[1] = e
                       /\ <<e, f, g, h>>[1 + 1] = f /\ <<e, f, g, h>>[2 + 1] = g
                       /\ <<e, f, g, h>>[2] = f /\ <<e, f, g, h>>[3] = g
  OBVIOUS

(* A request whose first instruction is done. *)
LEMMA RunsPop ==
    ASSUME NEW s, NEW q, NEW v, NEW o, Serving(s, q, v, o),
           NEW u \in BOOLEAN, IsLate(Head(s)) \/ \A e : Link(Head(s), q, v, e) => e = u,
           NEW D, D \subseteq Span(Head(s)), NEW p, Range(p) \subseteq Range(o) \cup D,
           \A g, e : e \in Seq(DOMAIN StepOf) => p \o e = o \o (Operations(Head(s), g) \o e),
           Head(s).do = "require" => Permitted(q)
    PROVE  Runs(Tail(s), q, u, p)
  <1> DEFINE h == Head(s)
  <1>1. IsSeq(<<>>) /\ Len(<<>>) = 0 /\ DOMAIN <<>> = {}
    BY ShortSeqs, ZenonT(30)
  <1>2. Refines(<<>>, h) /\ Begins(<<>>, h, D)
    BY <1>1, ZenonT(30) DEF Refines, Begins
  <1>3. Returns(<<>>, h, q, v, u)
    <2> SUFFICES ASSUME NEW e, Link(h, q, v, e)
                 PROVE  \E y : y[1] = u /\ (y[Len(<<>>) + 1] = e \/ IsLate(h)) /\ Valued(<<>>, q, y)
      BY ZenonT(30) DEF Returns
    <2>1. <<u>>[1] = u /\ <<u>>[Len(<<>>) + 1] = u
      BY <1>1, ShortChains
    <2>2. Valued(<<>>, q, <<u>>)
      BY <1>1, ZenonT(30) DEF Valued
    <2>3. IsLate(h) \/ e = u
      BY ZenonT(30)
    <2> QED
      BY <2>1, <2>2, <2>3, ZenonT(30)
  <1>4. Executes(<<>>, h, q, o, p, D)
    <2>1. ASSUME NEW g, NEW e \in Seq(DOMAIN StepOf)
          PROVE  \E y : /\ y[Len(<<>>) + 1] = e /\ Chained(<<>>, g, y)
                        /\ p \o y[1] = o \o (Operations(h, g) \o e)
      <3>1. <<e>>[1] = e /\ <<e>>[Len(<<>>) + 1] = e
        BY <1>1, ShortChains
      <3>2. Chained(<<>>, g, <<e>>)
        BY <1>1, ZenonT(30) DEF Chained
      <3>3. p \o <<e>>[1] = o \o (Operations(h, g) \o e)
        BY <3>1, ZenonT(30)
      <3> QED
        BY <3>1, <3>2, <3>3, ZenonT(30)
    <2> QED
      BY <2>1, ZenonT(30) DEF Executes
  <1>5. Fits(<<>>, h, q, v, u, o, p, D)
    BY <1>1, <1>2, <1>3, <1>4, ZenonT(30) DEF Fits
  <1>6. Runs(<<>> \o Tail(s), q, u, p)
    BY <1>5, RunsOn, ZenonT(30)
  <1> QED
    BY <1>6, PopIsTail, ZenonT(30) DEF Serving

(* One that calls for another instruction, ... *)
LEMMA RunsOne ==
    ASSUME NEW s, NEW q, NEW v, NEW o, Serving(s, q, v, o),
           Head(s).do # "require",
           NEW x, Shaped(x), x.do \notin {"allow", "branch"}, IsLate(x) => IsLate(Head(s)),
           \A z \in Span(x) : Within(z, Head(s)),
           NEW u \in BOOLEAN, \A e : Link(Head(s), q, v, e) => Link(x, q, u, e),
           \A g : (Head(s).do = "branch" => g[Head(s).step] = q.seen[Head(s).step])
                    => Operations(x, g) = Operations(Head(s), g)
    PROVE  Runs(<<x>> \o Tail(s), q, u, o)
  <1> DEFINE h == Head(s)
             a == <<x>>
  <1>1. IsSeq(a) /\ Len(a) = 1 /\ DOMAIN a = {1} /\ a[1] = x
    BY ShortSeqs, ZenonT(30)
  <1> HIDE DEF a, h
  <1>2. Refines(a, h) /\ Begins(a, h, {})
    <2>1. ASSUME NEW k \in DOMAIN a, NEW l \in DOMAIN a PROVE ~(k < l)
      BY <1>1
    <2> QED
      BY <1>1, <2>1, ZenonT(30) DEF Refines, Begins, h
  <1>3. Returns(a, h, q, v, u)
    <2> SUFFICES ASSUME NEW e, Link(h, q, v, e)
                 PROVE  \E y : y[1] = u /\ (y[Len(a) + 1] = e \/ IsLate(h)) /\ Valued(a, q, y)
      BY ZenonT(30) DEF Returns
    <2> DEFINE y == <<u, e>>
    <2>1. y[1] = u /\ y[Len(a) + 1] = e /\ y[1 + 1] = e
      BY <1>1, ShortChains
    <2> HIDE DEF y
    <2>2. Valued(a, q, y)
      BY <1>1, <2>1, ZenonT(30) DEF Valued, h
    <2> QED
      BY <2>1, <2>2, ZenonT(30)
  <1>4. Executes(a, h, q, o, o, {})
    <2>1. ASSUME NEW g, NEW e \in Seq(DOMAIN StepOf), Operations(h, g) \in Seq(DOMAIN StepOf),
                 h.do = "branch" => g[h.step] = q.seen[h.step]
          PROVE  \E y : /\ y[Len(a) + 1] = e /\ Chained(a, g, y)
                        /\ o \o y[1] = o \o (Operations(h, g) \o e)
      <3> DEFINE f == Operations(h, g) \o e
                 y == <<f, e>>
      <3>1. f \in Seq(DOMAIN StepOf)
        BY <2>1
      <3>2. y[1] = f /\ y[Len(a) + 1] = e /\ y[1 + 1] = e
        BY <1>1, ShortChains
      <3>3. f = Operations(x, g) \o e
        BY <2>1, ZenonT(30) DEF h
      <3> HIDE DEF y
      <3>4. Chained(a, g, y)
        BY <1>1, <2>1, <3>1, <3>2, <3>3, ZenonT(30) DEF Chained
      <3> QED
        BY <3>2, <3>4, ZenonT(30)
    <2> QED
      BY <2>1, ZenonT(30) DEF Executes
  <1>5. Fits(a, Head(s), q, v, u, o, o, {})
    BY <1>1, <1>2, <1>3, <1>4, ZenonT(30) DEF Fits, h
  <1> QED
    BY <1>5, RunsOn, ZenonT(30) DEF a

(* ... for one and the end of its frame, ... *)
LEMMA RunsFrame ==
    ASSUME NEW s, NEW q, NEW v, NEW o, Serving(s, q, v, o),
           Head(s).do = "enter",
           NEW x, Shaped(x), x.do \notin {"allow", "branch"}, IsLate(x) => IsLate(Head(s)),
           Span(x) = Span(Head(s)), NEW f,
           \A e : Link(Head(s), q, v, e) => Link(x, q, v, e),
           \A g : Operations(x, g) = Operations(Head(s), g)
    PROVE  Runs(<<x, Exit(f)>> \o Tail(s), q, v, o)
  <1> DEFINE h == Head(s)
             c == Exit(f)
             a == <<x, c>>
  <1>1. IsSeq(a) /\ Len(a) = 2 /\ DOMAIN a = {1, 2} /\ a[1] = x /\ a[2] = c
    BY ShortSeqs, ZenonT(30)
  <1>2. c.do = "exit"
    BY DEF Exit
  <1>3. /\ Shaped(c) /\ Span(c) = {} /\ ~IsLate(c) /\ ~IsEarly(c)
        /\ \A g : Operations(c, g) = <<>>
    BY <1>2, ZenonT(30) DEF Shaped, Span, IsLate, IsEarly, Operations, Enters
  <1>4. \A e : Link(c, q, e, e)
    BY <1>3, LateLink, ZenonT(30)
  <1> HIDE DEF a, h, c
  <1>5. Refines(a, h) /\ Begins(a, h, {})
    <2>1. ASSUME NEW k \in DOMAIN a, NEW l \in DOMAIN a, k < l PROVE k = 1 /\ l = 2
      BY <1>1, <2>1
    <2>2. After(x, c)
      BY <1>3, ZenonT(30) DEF After
    <2>3. \A z \in Span(x) : Within(z, h)
      <3> SUFFICES ASSUME NEW z \in Span(x) PROVE Within(z, h)
        BY ZenonT(30)
      <3>1. z \in DOMAIN StepOf /\ z \in Span(h)
        BY SpanIs, ZenonT(30) DEF h
      <3>2. StepOf[z].from <= StepOf[z].from /\ StepOf[z].to <= StepOf[z].to
        BY <3>1, TextIs
      <3>3. h.do # "branch"
        BY DEF h
      <3> QED
        BY <3>1, <3>2, <3>3, ZenonT(30) DEF Within
    <2>4. Shaped(x) /\ x.do # "allow" /\ (IsLate(x) => IsLate(h))
      BY ZenonT(30) DEF h
    <2>5. c.do # "allow" /\ c.do # "branch"
      BY <1>2
    <2> QED
      BY <1>1, <1>3, <2>1, <2>2, <2>3, <2>4, <2>5, ZenonT(30) DEF Refines, Begins
  <1>6. Returns(a, h, q, v, v)
    <2> SUFFICES ASSUME NEW e, Link(h, q, v, e)
                 PROVE  \E y : y[1] = v /\ (y[Len(a) + 1] = e \/ IsLate(h)) /\ Valued(a, q, y)
      BY ZenonT(30) DEF Returns
    <2> DEFINE y == <<v, e, e>>
    <2>1. y[1] = v /\ y[Len(a) + 1] = e /\ y[1 + 1] = e /\ y[2] = e /\ y[2 + 1] = e
      BY <1>1, ShortChains
    <2> HIDE DEF y
    <2>2. Link(x, q, v, e)
      BY ZenonT(30) DEF h
    <2>3. Valued(a, q, y)
      BY <1>1, <1>4, <2>1, <2>2, ZenonT(30) DEF Valued
    <2> QED
      BY <2>1, <2>3, ZenonT(30)
  <1>7. Executes(a, h, q, o, o, {})
    <2>1. ASSUME NEW g, NEW e \in Seq(DOMAIN StepOf), Operations(h, g) \in Seq(DOMAIN StepOf)
          PROVE  \E y : /\ y[Len(a) + 1] = e /\ Chained(a, g, y)
                        /\ o \o y[1] = o \o (Operations(h, g) \o e)
      <3> DEFINE d == Operations(h, g) \o e
                 y == <<d, e, e>>
      <3>1. d \in Seq(DOMAIN StepOf) /\ e = <<>> \o e
        BY <2>1
      <3>2. y[1] = d /\ y[Len(a) + 1] = e /\ y[1 + 1] = e /\ y[2] = e /\ y[2 + 1] = e
        BY <1>1, ShortChains
      <3>3. d = Operations(x, g) \o e /\ e = Operations(c, g) \o e
        BY <1>3, <3>1, ZenonT(30) DEF h
      <3> HIDE DEF y, d
      <3>4. Chained(a, g, y)
        BY <1>1, <2>1, <3>1, <3>2, <3>3, ZenonT(30) DEF Chained
      <3> QED
        BY <3>2, <3>4, ZenonT(30) DEF d
    <2> QED
      BY <2>1, ZenonT(30) DEF Executes
  <1>8. v \in BOOLEAN /\ (h.do = "require" => Permitted(q))
    BY DEF Serving, Runs, h
  <1>9. Fits(a, Head(s), q, v, v, o, o, {})
    BY <1>1, <1>5, <1>6, <1>7, <1>8, ZenonT(30) DEF Fits, h
  <1> QED
    BY <1>9, RunsOn, ZenonT(30) DEF a, c

(* Short sequences, and the values along them, by their elements. *)
Triple(a, x, y, z) ==
    IsSeq(a) /\ Len(a) = 3 /\ DOMAIN a = {1, 2, 3} /\ a[1] = x /\ a[2] = y /\ a[3] = z

Four(y, e, f, g, h) ==
    /\ y[1] = e /\ y[1 + 1] = f /\ y[2 + 1] = g /\ y[3 + 1] = h
    /\ y[2] = f /\ y[3] = g /\ y[4] = h

(* Sequences of three, ... *)
LEMMA TripleIs == \A x, y, z : Triple(<<x, y, z>>, x, y, z)
  <1> SUFFICES ASSUME NEW x, NEW y, NEW z PROVE Triple(<<x, y, z>>, x, y, z)
    BY ZenonT(30)
  <1>1. <<x, y, z>> \in Seq({x, y, z})
    OBVIOUS
  <1>2. IsSeq(<<x, y, z>>)
    BY <1>1, SeqIsSeq, ZenonT(30)
  <1> QED
    BY <1>2 DEF Triple

(* ... and of four. *)
LEMMA FourIs == \A e, f, g, h : Four(<<e, f, g, h>>, e, f, g, h)
  BY DEF Four

(* A list of nodes, its head and its tail. *)
LEMMA HeadTail ==
    ASSUME NEW S, NEW l \in Seq(S), l # <<>>
    PROVE  /\ Len(l) \in Nat /\ Len(l) >= 1 /\ DOMAIN l = 1 .. Len(l) /\ Head(l) = l[1]
           /\ Tail(l) \in Seq(S) /\ DOMAIN Tail(l) = 1 .. Len(l) - 1
           /\ \A i \in 1 .. Len(l) - 1 : Tail(l)[i] = l[i + 1]
  OBVIOUS

(* What the calls of Budget.Step and EvalCondition stand for. *)
LEMMA StepInstruction ==
    /\ Step.do = "step" /\ Shaped(Step) /\ Span(Step) = {} /\ ~IsLate(Step) /\ ~IsEarly(Step)
    /\ \A g : Operations(Step, g) = <<>>
    /\ \A q, e : Link(Step, q, e, e)
  <1>1. Step.do = "step"
    BY DEF Step
  <1>2. /\ Shaped(Step) /\ Span(Step) = {} /\ ~IsLate(Step) /\ ~IsEarly(Step)
        /\ \A g : Operations(Step, g) = <<>>
    BY <1>1, ZenonT(30) DEF Shaped, Span, IsLate, IsEarly, Operations, Enters
  <1> QED
    BY <1>1, <1>2, LateLink, ZenonT(30)

CondFrame(c, depth) == Enter(depth, <<[do |-> "eval", c |-> c, depth |-> depth]>>)

(* The call that evaluates a condition returns whether it holds. *)
LEMMA CondInstruction ==
    ASSUME NEW c \in DOMAIN CondOf, NEW d
    PROVE  LET x == CondFrame(c, d) IN
           /\ x.do = "enter" /\ Shaped(x) /\ Span(x) = {} /\ ~IsLate(x)
           /\ \A g : Operations(x, g) = <<>>
           /\ \A q, e : Link(x, q, e, Holds(q.facts)[c])
  <1> DEFINE x == CondFrame(c, d)
  <1>1. x.do = "enter" /\ x.body[1].do = "eval" /\ x.body[1].c = c
    BY DEF CondFrame, Enter
  <1> HIDE DEF x
  <1>2. x.do = "enter" /\ Enters(x, "eval") /\ ~Enters(x, "steps")
    BY <1>1 DEF Enters
  <1>3. Shaped(x) /\ Span(x) = {} /\ ~IsLate(x) /\ \A g : Operations(x, g) = <<>>
    BY <1>1, <1>2, ZenonT(30) DEF Shaped, Span, IsLate, Operations
  <1>4. \A q, e : Link(x, q, e, Holds(q.facts)[c])
    BY <1>1, <1>2, ZenonT(30) DEF Link
  <1> QED
    BY <1>2, <1>3, <1>4, ZenonT(30) DEF x

(* ... for a condition and an instruction that uses its value, ... *)
LEMMA RunsCond ==
    ASSUME NEW s, NEW q, NEW v, NEW o, Serving(s, q, v, o), NEW u \in BOOLEAN,
           NEW c \in DOMAIN CondOf, NEW depth,
           NEW z, Shaped(z), z.do # "allow", Head(s).do = "require" => z.do = "require", IsLate(z) => IsLate(Head(s)),
           \A d \in Span(z) : Within(d, Head(s)),
           \A e : Link(Head(s), q, v, e) => Link(z, q, Holds(q.facts)[c], e),
           \A g : Operations(z, g) = Operations(Head(s), g),
           NEW D, D \subseteq Span(Head(s)), \A d \in D : Begun(d, z), z.do = "branch" => z.step \in D
    PROVE  Runs(<<Step, CondFrame(c, depth), z>> \o Tail(s), q, u, o)
  <1> DEFINE h == Head(s)
             x == CondFrame(c, depth)
             w == Holds(q.facts)[c]
             a == <<Step, x, z>>
  <1>1. IsSeq(a) /\ Len(a) = 3 /\ DOMAIN a = {1, 2, 3} /\ a[1] = Step /\ a[2] = x /\ a[3] = z
    BY TripleIs, ZenonT(30) DEF Triple
  <1>2. /\ x.do = "enter" /\ Shaped(x) /\ Span(x) = {} /\ ~IsLate(x)
        /\ \A g : Operations(x, g) = <<>>
        /\ \A e : Link(x, q, e, w)
    BY CondInstruction, ZenonT(30)
  <1> HIDE DEF a, h, x, w
  <1>3. Refines(a, h)
    <2>1. ASSUME NEW k \in DOMAIN a, NEW l \in DOMAIN a, k < l PROVE k = 1 \/ k = 2
      BY <1>1, <2>1
    <2>2. \A y : After(Step, y) /\ After(x, y)
      BY <1>2, StepInstruction, ZenonT(30) DEF After
    <2>3. Step.do # "allow" /\ x.do # "allow"
      BY <1>2, StepInstruction
    <2>4. /\ Shaped(z) /\ z.do # "allow" /\ (IsLate(z) => IsLate(h))
          /\ \A d \in Span(z) : Within(d, h)
      BY ZenonT(30) DEF h
    <2> QED
      BY <1>1, <1>2, <2>1, <2>2, <2>3, <2>4, StepInstruction, ZenonT(30) DEF Refines
  <1>4. Begins(a, h, D)
    <2>1. Step.do # "branch" /\ x.do # "branch"
      BY <1>2, StepInstruction
    <2>2. \A d : Begun(d, Step) /\ Begun(d, x)
      BY <1>2, StepInstruction, ZenonT(30) DEF Begun
    <2> QED
      BY <1>1, <2>1, <2>2, ZenonT(30) DEF Begins, h
  <1>5. Returns(a, h, q, v, u)
    <2> SUFFICES ASSUME NEW e, Link(h, q, v, e)
                 PROVE  \E y : y[1] = u /\ (y[Len(a) + 1] = e \/ IsLate(h)) /\ Valued(a, q, y)
      BY ZenonT(30) DEF Returns
    <2> DEFINE y == <<u, u, w, e>>
    <2>0. Four(y, u, u, w, e)
      BY FourIs, ZenonT(30)
    <2> HIDE DEF y
    <2>1. /\ y[1] = u /\ y[Len(a) + 1] = e /\ y[1 + 1] = u /\ y[2 + 1] = w /\ y[3 + 1] = e
          /\ y[2] = u /\ y[3] = w
      BY <1>1, <2>0, ZenonT(30) DEF Four
    <2>2. Link(z, q, w, e) /\ Link(x, q, u, w) /\ Link(Step, q, u, u)
      BY <1>2, StepInstruction, ZenonT(30) DEF h, w
    <2>3. Valued(a, q, y)
      BY <1>1, <2>1, <2>2, ZenonT(30) DEF Valued
    <2> QED
      BY <2>1, <2>3, ZenonT(30)
  <1>6. Executes(a, h, q, o, o, D)
    <2>1. ASSUME NEW g, NEW e \in Seq(DOMAIN StepOf), Operations(h, g) \in Seq(DOMAIN StepOf)
          PROVE  \E y : /\ y[Len(a) + 1] = e /\ Chained(a, g, y)
                        /\ o \o y[1] = o \o (Operations(h, g) \o e)
      <3> DEFINE f == Operations(h, g) \o e
                 y == <<f, f, f, e>>
      <3>1. f \in Seq(DOMAIN StepOf) /\ f = <<>> \o f
        BY <2>1
      <3>0. Four(y, f, f, f, e)
        BY FourIs, ZenonT(30)
      <3> HIDE DEF y
      <3>2. /\ y[1] = f /\ y[Len(a) + 1] = e /\ y[1 + 1] = f /\ y[2 + 1] = f /\ y[3 + 1] = e
            /\ y[2] = f /\ y[3] = f
        BY <1>1, <3>0, ZenonT(30) DEF Four
      <3>3. f = Operations(z, g) \o e
        BY ZenonT(30) DEF h
      <3>4. f = Operations(Step, g) \o f /\ f = Operations(x, g) \o f
        BY <1>2, <3>1, StepInstruction, ZenonT(30)
      <3> HIDE DEF f
      <3>5. Chained(a, g, y)
        BY <1>1, <2>1, <3>1, <3>2, <3>3, <3>4, ZenonT(30) DEF Chained
      <3> QED
        BY <3>2, <3>5, ZenonT(30) DEF f
    <2> QED
      BY <2>1, ZenonT(30) DEF Executes
  <1>7. h.do = "require" => \E k \in DOMAIN a : a[k].do = "require"
    BY <1>1, ZenonT(30) DEF h
  <1>8. Fits(a, Head(s), q, v, u, o, o, D)
    BY <1>1, <1>3, <1>4, <1>5, <1>6, <1>7, ZenonT(30) DEF Fits, h
  <1> QED
    BY <1>8, RunsOn, ZenonT(30) DEF a, x

(* ... or for the first of its steps, and the others. *)
LEMMA RunsSteps ==
    ASSUME NEW s, NEW q, NEW v, NEW o, Serving(s, q, v, o), Head(s).do = "steps",
           Head(s).steps # <<>>, Listed(Head(s).steps),
           NEW x, x.do = "run", x.step = Head(Head(s).steps),
           NEW z, z.do = "steps", z.steps = Tail(Head(s).steps)
    PROVE  Runs(<<Step, x, z>> \o Tail(s), q, v, o)
  <1> DEFINE h == Head(s)
             l == h.steps
             a == <<Step, x, z>>
  <1>1. IsSeq(a) /\ Len(a) = 3 /\ DOMAIN a = {1, 2, 3} /\ a[1] = Step /\ a[2] = x /\ a[3] = z
    BY TripleIs, SMTT(30) DEF Triple
  <1>2. /\ h.do = "steps" /\ l # <<>> /\ Listed(l) /\ x.step = Head(l) /\ z.steps = Tail(l)
        /\ l \in Seq(DOMAIN StepOf) /\ l = h.steps
    BY DEF Listed
  <1> HIDE DEF a, h, l
  <1>3. /\ Head(l) \in DOMAIN StepOf /\ Head(l) \in Range(l) /\ Tail(l) \in Seq(DOMAIN StepOf)
        /\ Range(Tail(l)) \subseteq Range(l)
        /\ \A y \in Range(Tail(l)) : StepOf[Head(l)].to < StepOf[y].from
        /\ Listed(Tail(l))
    <2>1. /\ Len(l) \in Nat /\ Len(l) >= 1 /\ DOMAIN l = 1 .. Len(l) /\ Head(l) = l[1]
          /\ Tail(l) \in Seq(DOMAIN StepOf) /\ DOMAIN Tail(l) = 1 .. Len(l) - 1
          /\ \A i \in 1 .. Len(l) - 1 : Tail(l)[i] = l[i + 1]
      BY <1>2, HeadTail, ZenonT(30)
    <2>2. \A i \in DOMAIN Tail(l) : i + 1 \in DOMAIN l /\ 1 < i + 1 /\ Tail(l)[i] = l[i + 1]
      BY <2>1
    <2>3. 1 \in DOMAIN l /\ Head(l) \in DOMAIN StepOf
      BY <1>2, <2>1
    <2>4. Head(l) \in Range(l) /\ Range(Tail(l)) \subseteq Range(l)
      BY <2>1, <2>2, <2>3, ZenonT(30) DEF Range
    <2>5. ASSUME NEW y \in Range(Tail(l)) PROVE StepOf[Head(l)].to < StepOf[y].from
      <3>1. PICK i \in DOMAIN Tail(l) : y = Tail(l)[i]
        BY ZenonT(30) DEF Range
      <3>2. i + 1 \in DOMAIN l /\ 1 < i + 1 /\ y = l[i + 1]
        BY <2>2, <3>1, ZenonT(30)
      <3> QED
        BY <1>2, <2>1, <2>3, <3>2, ZenonT(30) DEF Listed
    <2>6. ASSUME NEW i \in DOMAIN Tail(l), NEW j \in DOMAIN Tail(l), i < j
          PROVE  StepOf[Tail(l)[i]].to < StepOf[Tail(l)[j]].from
      <3>1. i + 1 < j + 1
        BY <2>1, <2>6
      <3> QED
        BY <1>2, <2>2, <3>1, ZenonT(30) DEF Listed
    <2>7. Listed(Tail(l))
      BY <2>1, <2>6, ZenonT(30) DEF Listed
    <2> QED
      BY <2>1, <2>3, <2>4, <2>5, <2>7, ZenonT(30)
  <1>4. /\ Shaped(x) /\ Span(x) = {Head(l)} /\ ~IsEarly(x)
        /\ \A g : Operations(x, g) = StepTrace(g)[Head(l)]
    BY <1>2, <1>3, ZenonT(30) DEF Shaped, Span, IsEarly, Enters, Operations
  <1>5. /\ Shaped(z) /\ Span(z) = Range(Tail(l)) /\ ~IsEarly(z)
        /\ \A g : Operations(z, g) = Trace(Tail(l), g)
    BY <1>2, <1>3, ZenonT(30) DEF Shaped, Span, IsEarly, Enters, Operations
  <1>6. Span(h) = Range(l) /\ IsLate(h) /\ \A g : Operations(h, g) = Trace(l, g)
    BY <1>2, ZenonT(30) DEF Span, IsLate, Operations
  <1>7. \A d \in Range(l) : Within(d, h)
    <2> SUFFICES ASSUME NEW d \in Range(l) PROVE Within(d, h)
      OBVIOUS
    <2>1. d \in DOMAIN StepOf
      BY <1>2 DEF Range
    <2>2. StepOf[d].from <= StepOf[d].from /\ StepOf[d].to <= StepOf[d].to /\ h.do # "branch"
      BY <1>2, <2>1, TextIs
    <2> QED
      BY <1>6, <2>2, ZenonT(30) DEF Within
  <1>8. Refines(a, h)
    <2>1. ASSUME NEW i \in DOMAIN a, NEW j \in DOMAIN a, i < j PROVE i = 1 \/ (i = 2 /\ j = 3)
      BY <1>1, <2>1
    <2>2. \A y : After(Step, y)
      BY StepInstruction, ZenonT(30) DEF After
    <2>3. After(x, z)
      BY <1>3, <1>4, <1>5, ZenonT(30) DEF After
    <2>4. Step.do # "allow" /\ x.do # "allow" /\ z.do # "allow"
      BY StepInstruction
    <2>5. \A d \in Span(x) \cup Span(z) : Within(d, h)
      BY <1>3, <1>4, <1>5, <1>7
    <2> QED
      BY <1>1, <1>4, <1>5, <1>6, <2>1, <2>2, <2>3, <2>4, <2>5, StepInstruction, ZenonT(30) DEF Refines
  <1>9. Begins(a, h, {})
    <2>1. Step.do # "branch" /\ x.do # "branch" /\ z.do # "branch"
      BY StepInstruction
    <2> QED
      BY <1>1, <2>1, ZenonT(30) DEF Begins
  <1>10. Returns(a, h, q, v, v)
    <2> SUFFICES \E y : y[1] = v /\ Valued(a, q, y)
      BY <1>6, ZenonT(30) DEF Returns
    <2> DEFINE y == <<v, v, v, v>>
    <2>0. Four(y, v, v, v, v)
      BY FourIs, ZenonT(30)
    <2> HIDE DEF y
    <2>1. y[1] = v /\ y[1 + 1] = v /\ y[2 + 1] = v /\ y[3 + 1] = v /\ y[2] = v /\ y[3] = v
      BY <2>0, ZenonT(30) DEF Four
    <2>2. Link(z, q, v, v) /\ Link(x, q, v, v) /\ Link(Step, q, v, v)
      BY <1>4, <1>5, StepInstruction, LateLink, ZenonT(30)
    <2>3. Valued(a, q, y)
      BY <1>1, <2>1, <2>2, ZenonT(30) DEF Valued
    <2> QED
      BY <2>1, <2>3, ZenonT(30)
  <1>11. Executes(a, h, q, o, o, {})
    <2>1. ASSUME NEW g, NEW e \in Seq(DOMAIN StepOf)
          PROVE  \E y : /\ y[Len(a) + 1] = e /\ Chained(a, g, y)
                        /\ o \o y[1] = o \o (Operations(h, g) \o e)
      <3> DEFINE A == StepTrace(g)[Head(l)]
                 B == Trace(Tail(l), g)
                 f == B \o e
                 k == A \o f
                 y == <<k, k, f, e>>
      <3>1. A \in Seq(DOMAIN StepOf) /\ B \in Seq(DOMAIN StepOf) /\ Trace(l, g) = A \o B
        BY <1>2, <1>3, StepTraceIs, TraceIs, ZenonT(30)
      <3>0. Four(y, k, k, f, e)
        BY FourIs, ZenonT(30)
      <3> HIDE DEF y
      <3>2. /\ y[1] = k /\ y[Len(a) + 1] = e /\ y[1 + 1] = k /\ y[2 + 1] = f /\ y[3 + 1] = e
            /\ y[2] = k /\ y[3] = f
        BY <1>1, <3>0, ZenonT(30) DEF Four
      <3> HIDE DEF A, B
      <3>3. f \in Seq(DOMAIN StepOf) /\ k \in Seq(DOMAIN StepOf) /\ k = <<>> \o k
        BY <3>1
      <3>4. (A \o B) \o e = A \o (B \o e)
        BY <3>1
      <3> HIDE DEF f, k
      <3>5. k = Operations(Step, g) \o k /\ k = Operations(x, g) \o f /\ f = Operations(z, g) \o e
        BY <1>4, <1>5, <3>3, StepInstruction, ZenonT(30) DEF A, B, f, k
      <3>6. Chained(a, g, y)
        BY <1>1, <3>2, <3>3, <3>5, ZenonT(30) DEF Chained
      <3>7. k = Operations(h, g) \o e
        BY <1>6, <3>1, <3>4, ZenonT(30) DEF f, k
      <3> QED
        BY <3>2, <3>6, <3>7, ZenonT(30)
    <2> QED
      BY <2>1, ZenonT(30) DEF Executes
  <1>12. v \in BOOLEAN /\ (h.do = "require" => Permitted(q))
    BY DEF Serving, Runs, h
  <1>13. Fits(a, Head(s), q, v, v, o, o, {})
    BY <1>1, <1>8, <1>9, <1>10, <1>11, <1>12, ZenonT(30) DEF Fits, h
  <1> QED
    BY <1>13, RunsOn, ZenonT(30) DEF a
================================================================================
