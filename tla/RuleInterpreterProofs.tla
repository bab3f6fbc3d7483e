------------------------- MODULE RuleInterpreterProofs -------------------------
(***************************************************************************)
(* The instructions of the interpreter keep Runs, the predicate of         *)
(* RuleTraceProofs: for each of them, what it leaves to do fits in the     *)
(* place of what it was (the lemmas After...).  Decide, the instructions   *)
(* that a request starts with, establishes it (RunsDecide).                *)
(***************************************************************************)
EXTENDS RuleTraceProofs

(* The time limits of the provers, in seconds: Zenon is tried, then SMT. *)
USE ZenonT(10), SMTT(30)

(* The elements of a list of nodes. *)
LEMMA ElementsOf == \A S : \A l \in Seq(S) : \A i \in DOMAIN l : l[i] \in S
  OBVIOUS

(* The elements of a list are its head and those of its tail. *)
LEMMA TailItems ==
    ASSUME NEW S, NEW l \in Seq(S), l # <<>>
    PROVE  /\ \A k \in DOMAIN Tail(l) : k + 1 \in DOMAIN l /\ Tail(l)[k] = l[k + 1]
           /\ \A k \in DOMAIN l : k = 1 \/ \E i \in DOMAIN Tail(l) : Tail(l)[i] = l[k]
  <1> DEFINE t == Tail(l)
             n == Len(l)
  <1>1. /\ n \in Nat /\ n >= 1 /\ DOMAIN l = 1 .. n
        /\ DOMAIN t = 1 .. n - 1 /\ \A i \in 1 .. n - 1 : t[i] = l[i + 1]
    BY HeadTail, ZenonT(30)
  <1> HIDE DEF t, n
  <1>2. \A k \in DOMAIN t : k + 1 \in DOMAIN l /\ t[k] = l[k + 1]
    BY <1>1
  <1>3. \A k \in DOMAIN l : k = 1 \/ \E i \in DOMAIN t : t[i] = l[k]
    <2> SUFFICES ASSUME NEW k \in DOMAIN l, k # 1 PROVE \E i \in DOMAIN t : t[i] = l[k]
      OBVIOUS
    <2>1. k - 1 \in DOMAIN t /\ k - 1 + 1 = k
      BY <1>1
    <2> QED
      BY <1>2, <2>1
  <1> QED
    BY <1>2, <1>3 DEF t

(* A short sequence and one more element. *)
LEMMA AppendToOne == ASSUME NEW x, NEW z PROVE Append(<<x>>, z) = <<x, z>>
  <1> DEFINE S == {x, z}
  <1>1. <<x>> \in Seq(S) /\ z \in S /\ <<x, z>> \in Seq(S)
    OBVIOUS
  <1> DEFINE a == Append(<<x>>, z)
             b == <<x, z>>
  <1>2. a \in Seq(S) /\ Len(a) = 2 /\ a[1] = x /\ a[2] = z
    BY <1>1
  <1>3. b \in Seq(S) /\ Len(b) = 2 /\ b[1] = x /\ b[2] = z
    BY <1>1
  <1> HIDE DEF a, b, S
  <1>4. \A i \in 1 .. 2 : a[i] = b[i]
    BY <1>2, <1>3
  <1>5. a = b
    BY <1>2, <1>3, <1>4
  <1> QED
    BY <1>5 DEF a, b

(* ... and to two. *)
LEMMA AppendToTwo == ASSUME NEW x, NEW y, NEW z PROVE Append(<<x, y>>, z) = <<x, y, z>>
  <1> DEFINE S == {x, y, z}
  <1>1. <<x, y>> \in Seq(S) /\ z \in S /\ <<x, y, z>> \in Seq(S)
    OBVIOUS
  <1> DEFINE a == Append(<<x, y>>, z)
             b == <<x, y, z>>
  <1>2. a \in Seq(S) /\ Len(a) = 3 /\ a[1] = x /\ a[2] = y /\ a[3] = z
    BY <1>1
  <1>3. b \in Seq(S) /\ Len(b) = 3 /\ b[1] = x /\ b[2] = y /\ b[3] = z
    BY <1>1
  <1> HIDE DEF a, b, S
  <1>4. \A i \in 1 .. 3 : a[i] = b[i]
    BY <1>2, <1>3
  <1>5. a = b
    BY <1>2, <1>3, <1>4
  <1> QED
    BY <1>5 DEF a, b

(* EvalCondition and what follows it. *)
LEMMA CondIs == \A c, d, z : Append(EvalCondition(c, d), z) = <<Step, CondFrame(c, d), z>>
  <1> SUFFICES ASSUME NEW c, NEW d, NEW z
               PROVE  Append(EvalCondition(c, d), z) = <<Step, CondFrame(c, d), z>>
    BY ZenonT(30)
  <1> QED
    BY AppendToTwo, ZenonT(30) DEF EvalCondition, CondFrame

(* What is known of the instruction a request is at. *)
LEMMA HeadIs ==
    ASSUME NEW s, NEW q, NEW v, NEW o, Serving(s, q, v, o)
    PROVE  /\ IsSeq(s) /\ s # <<>> /\ v \in BOOLEAN /\ Request(q) /\ o \in Seq(DOMAIN StepOf)
           /\ Shaped(Head(s)) /\ 1 \in DOMAIN s /\ Head(s) = s[1]
           /\ \E e : Link(Head(s), q, v, e)
  <1>1. /\ IsSeq(s) /\ s # <<>> /\ Runs(s, q, v, o) /\ o \in Seq(DOMAIN StepOf)
    BY ZenonT(30) DEF Serving
  <1>2. 1 \in DOMAIN s /\ Head(s) = s[1]
    BY <1>1, TailIsSeq, ZenonT(30)
  <1>3. PICK b : b[1] = v /\ Valued(s, q, b)
    BY <1>1, ZenonT(30) DEF Runs
  <1>4. Link(s[1], q, b[1], b[1 + 1])
    BY <1>2, <1>3, ZenonT(30) DEF Valued
  <1> QED
    BY <1>1, <1>2, <1>3, <1>4, ZenonT(30) DEF Runs, Orderly

(* An instruction without operations is done. *)
LEMMA RunsSkip ==
    ASSUME NEW s, NEW q, NEW v, NEW o, Serving(s, q, v, o),
           NEW u \in BOOLEAN, IsLate(Head(s)) \/ \A e : Link(Head(s), q, v, e) => e = u,
           \A g : Operations(Head(s), g) = <<>>,
           Head(s).do = "require" => Permitted(q)
    PROVE  Runs(Tail(s), q, u, o)
  <1>1. o \in Seq(DOMAIN StepOf)
    BY HeadIs, ZenonT(30)
  <1>2. \A e \in Seq(DOMAIN StepOf) : o \o e = o \o (<<>> \o e)
    BY <1>1
  <1>3. \A g, e : e \in Seq(DOMAIN StepOf) => o \o e = o \o (Operations(Head(s), g) \o e)
    BY <1>2, ZenonT(30)
  <1>4. {} \subseteq Span(Head(s)) /\ Range(o) \subseteq Range(o) \cup {}
    BY ZenonT(30)
  <1> QED
    BY <1>3, <1>4, RunsPop, ZenonT(30)

(* The instructions of a request, one by one. *)
LEMMA AfterCount ==
    ASSUME NEW s, NEW q, NEW v, NEW o, Serving(s, q, v, o), Head(s).do \in {"step", "exit"}
    PROVE  Runs(Tail(s), q, v, o)
  <1>1. v \in BOOLEAN
    BY HeadIs, ZenonT(30)
  <1>2. /\ \A e : Link(Head(s), q, v, e) => e = v
        /\ \A g : Operations(Head(s), g) = <<>>
        /\ Head(s).do # "require"
    BY ZenonT(30) DEF Link, Operations, Enters
  <1> QED
    BY <1>1, <1>2, RunsSkip, ZenonT(30)

(* "not" returns the opposite of its item. *)
LEMMA AfterNegate ==
    ASSUME NEW s, NEW q, NEW v, NEW o, Serving(s, q, v, o), Head(s).do = "negate",
           NEW u \in BOOLEAN, u # v
    PROVE  Runs(Tail(s), q, u, o)
  <1>1. v \in BOOLEAN
    BY HeadIs, ZenonT(30)
  <1>2. u = ~v
    BY <1>1
  <1>3. /\ \A e : Link(Head(s), q, v, e) => e = u
        /\ \A g : Operations(Head(s), g) = <<>>
        /\ Head(s).do # "require"
    BY <1>2, ZenonT(30) DEF Link, Operations, Enters
  <1> QED
    BY <1>3, RunsSkip, ZenonT(30)

(* The conditions of the rule were satisfied. *)
LEMMA AfterRequire ==
    ASSUME NEW s, NEW q, NEW v, NEW o, Serving(s, q, v, o), Head(s).do = "require", v
    PROVE  Runs(Tail(s), q, v, o)
  <1>1. v \in BOOLEAN /\ \E e : Link(Head(s), q, v, e)
    BY HeadIs, ZenonT(30)
  <1>2. v = Holds(q.brought)[Rules[q.cn].cond]
    BY <1>1, ZenonT(30) DEF Link
  <1>3. Permitted(q)
    BY <1>2, ZenonT(30) DEF Permitted
  <1>4. IsLate(Head(s)) /\ \A g : Operations(Head(s), g) = <<>>
    BY ZenonT(30) DEF IsLate, Operations, Enters
  <1> QED
    BY <1>1, <1>3, <1>4, RunsSkip, ZenonT(30)

(* A frame is opened: its body comes next, then its Exit. *)
LEMMA AfterEnter ==
    ASSUME NEW s, NEW q, NEW v, NEW o, Serving(s, q, v, o), Head(s).do = "enter", Good(Head(s)), NEW f
    PROVE  Runs(Append(Head(s).body, Exit(f)) \o Tail(s), q, v, o)
  <1> DEFINE h == Head(s)
  <1>1. PICK b : h.body = <<b>> /\ b.do \in {"eval", "steps"}
    BY ZenonT(30) DEF Good
  <1>2. h.body[1] = b /\ Append(h.body, Exit(f)) = <<b, Exit(f)>>
    <2>1. <<b>>[1] = b
      OBVIOUS
    <2> QED
      BY <1>1, <2>1, AppendToOne, ZenonT(30)
  <1>3. Shaped(h) /\ h.do = "enter"
    BY HeadIs, ZenonT(30)
  <1> HIDE DEF h
  <1>4. CASE b.do = "eval"
    <2>1. Enters(h, "eval") /\ ~Enters(h, "steps") /\ ~Enters(b, "steps") /\ ~Enters(b, "eval")
      BY <1>2, <1>3, <1>4, ZenonT(30) DEF Enters
    <2>2. Shaped(b) /\ ~IsLate(b) /\ Span(b) = Span(h)
      BY <1>2, <1>3, <1>4, <2>1, ZenonT(30) DEF Shaped, IsLate, Span
    <2>3. /\ \A e : Link(h, q, v, e) => Link(b, q, v, e)
          /\ \A g : Operations(b, g) = Operations(h, g)
      BY <1>2, <1>3, <1>4, <2>1, ZenonT(30) DEF Link, Operations
    <2>4. b.do \notin {"allow", "branch"}
      BY <1>4
    <2>5. Runs(<<b, Exit(f)>> \o Tail(s), q, v, o)
      BY <2>2, <2>3, <2>4, RunsFrame, ZenonT(30) DEF h
    <2> QED
      BY <1>2, <2>5, ZenonT(30) DEF h
  <1>5. CASE b.do = "steps"
    <2>1. Enters(h, "steps") /\ ~Enters(h, "eval") /\ ~Enters(b, "steps") /\ ~Enters(b, "eval")
      BY <1>2, <1>3, <1>5, ZenonT(30) DEF Enters
    <2>2. Shaped(b) /\ IsLate(h) /\ Span(b) = Span(h)
      BY <1>2, <1>3, <1>5, <2>1, ZenonT(30) DEF Shaped, IsLate, Span
    <2>3. /\ \A e : Link(h, q, v, e) => Link(b, q, v, e)
          /\ \A g : Operations(b, g) = Operations(h, g)
      BY <1>2, <1>3, <1>5, <2>1, ZenonT(30) DEF Link, Operations
    <2>4. b.do \notin {"allow", "branch"}
      BY <1>5
    <2>5. Runs(<<b, Exit(f)>> \o Tail(s), q, v, o)
      BY <2>2, <2>3, <2>4, RunsFrame, ZenonT(30) DEF h
    <2> QED
      BY <1>2, <2>5, ZenonT(30) DEF h
  <1> QED
    BY <1>1, <1>4, <1>5, ZenonT(30)

(* EvalCondition returns what a condition means. *)
LEMMA AfterEvalItems ==
    ASSUME NEW s, NEW q, NEW v, NEW o, Serving(s, q, v, o), Head(s).do = "eval",
           CondOf[Head(s).c].op \in {"and", "or"}, NEW depth
    PROVE  LET c == CondOf[Head(s).c] IN
           Runs(<<Items(c.op, c.items, depth)>> \o Tail(s), q, c.op = "and", o)
  <1> DEFINE h == Head(s)
             c == CondOf[h.c]
             x == Items(c.op, c.items, depth)
             u == c.op = "and"
             H == Holds(q.facts)
  <1>1. Shaped(h) /\ h.do = "eval" /\ h.c \in DOMAIN CondOf /\ c.op \in {"and", "or"}
    BY HeadIs, ZenonT(30) DEF Shaped
  <1>2. H[h.c] = HoldsBy(H, q.facts, h.c) /\ c.items \in Seq(DOMAIN CondOf)
    BY <1>1, HoldsIs, ItemsAreShorter, ZenonT(30)
  <1>3. x.do = "items" /\ x.op = c.op /\ x.items = c.items
    BY DEF Items
  <1>4. /\ c.op = "and" => HoldsBy(H, q.facts, h.c) = \A i \in DOMAIN c.items : H[c.items[i]]
        /\ c.op = "or" => HoldsBy(H, q.facts, h.c) = \E i \in DOMAIN c.items : H[c.items[i]]
    BY ZenonT(30) DEF HoldsBy
  <1> HIDE DEF h, c, x, H
  <1>5. /\ Shaped(x) /\ x.do \notin {"allow", "branch"} /\ ~IsLate(x) /\ Span(x) = {}
        /\ \A g : Operations(x, g) = Operations(h, g)
        /\ h.do # "require"
    BY <1>1, <1>2, <1>3, ZenonT(30) DEF Shaped, IsLate, Span, Operations, Enters
  <1>6. ASSUME NEW e, Link(h, q, v, e) PROVE Link(x, q, u, e)
    <2>1. e = H[h.c]
      BY <1>1, <1>6, ZenonT(30) DEF Link, H
    <2>2. CASE c.op = "and"
      <3>1. e = \A i \in DOMAIN x.items : H[x.items[i]]
        BY <1>2, <1>3, <1>4, <2>1, <2>2, ZenonT(30)
      <3>2. e = (u /\ \A i \in DOMAIN x.items : H[x.items[i]])
        BY <2>2, <3>1, ZenonT(30)
      <3> QED
        BY <1>3, <2>2, <3>2, ZenonT(30) DEF Link, Enters, H
    <2>3. CASE c.op # "and"
      <3>1. e = \E i \in DOMAIN x.items : H[x.items[i]]
        BY <1>1, <1>2, <1>3, <1>4, <2>1, <2>3, ZenonT(30)
      <3>2. e = (u \/ \E i \in DOMAIN x.items : H[x.items[i]])
        BY <2>3, <3>1, ZenonT(30)
      <3> QED
        BY <1>3, <2>3, <3>2, ZenonT(30) DEF Link, Enters, H
    <2> QED
      BY <2>2, <2>3
  <1>7. u \in BOOLEAN
    OBVIOUS
  <1> HIDE DEF u
  <1>8. Runs(<<x>> \o Tail(s), q, u, o)
    BY <1>5, <1>6, <1>7, RunsOne, ZenonT(30) DEF h
  <1> QED
    BY <1>8 DEF x, u, c, h

(* "not" calls for its item. *)
LEMMA AfterEvalNot ==
    ASSUME NEW s, NEW q, NEW v, NEW o, Serving(s, q, v, o), Head(s).do = "eval",
           CondOf[Head(s).c].op = "not", Len(CondOf[Head(s).c].items) = 1, NEW depth
    PROVE  Runs(Append(EvalCondition(CondOf[Head(s).c].items[1], depth), [do |-> "negate"]) \o Tail(s),
                q, v, o)
  <1> DEFINE h == Head(s)
             c == CondOf[h.c]
             d == c.items[1]
             z == [do |-> "negate"]
             H == Holds(q.facts)
  <1>1. Shaped(h) /\ h.do = "eval" /\ h.c \in DOMAIN CondOf /\ c.op = "not" /\ v \in BOOLEAN
    BY HeadIs, ZenonT(30) DEF Shaped
  <1>2. H[h.c] = HoldsBy(H, q.facts, h.c) /\ c.items \in Seq(DOMAIN CondOf)
    BY <1>1, HoldsIs, ItemsAreShorter, ZenonT(30)
  <1>3. HoldsBy(H, q.facts, h.c) = \A i \in DOMAIN c.items : ~H[c.items[i]]
    BY <1>1, ZenonT(30) DEF HoldsBy
  <1>4. z.do = "negate"
    OBVIOUS
  <1>5. Len(c.items) = 1
    OBVIOUS
  <1> HIDE DEF h, c, z, H
  <1>6. DOMAIN c.items = {1} /\ d \in DOMAIN CondOf
    <2> DEFINE l == c.items
    <2>1. l \in Seq(DOMAIN CondOf) /\ Len(l) = 1
      BY <1>2, <1>5
    <2> HIDE DEF l
    <2>2. DOMAIN l = {1} /\ l[1] \in DOMAIN CondOf
      BY <2>1
    <2> QED
      BY <2>2 DEF l
  <1>7. H[h.c] = ~H[d]
    BY <1>2, <1>3, <1>6, ZenonT(30)
  <1>8. /\ Shaped(z) /\ z.do # "allow" /\ ~IsLate(z) /\ Span(z) = {} /\ z.do # "branch"
        /\ \A g : Operations(z, g) = Operations(h, g)
        /\ h.do # "require"
    BY <1>1, <1>4, ZenonT(30) DEF Shaped, IsLate, Span, Operations, Enters
  <1>9. \A e : Link(h, q, v, e) => Link(z, q, H[d], e)
    BY <1>1, <1>4, <1>7, ZenonT(30) DEF Link, Enters, H
  <1>10. Runs(<<Step, CondFrame(d, depth), z>> \o Tail(s), q, v, o)
    <2>1. {} \subseteq Span(h) /\ \A y \in {} : Begun(y, z)
      BY ZenonT(30)
    <2> QED
      BY <1>1, <1>6, <1>8, <1>9, <2>1, RunsCond, ZenonT(30) DEF h, H
  <1>11. Append(EvalCondition(d, depth), z) = <<Step, CondFrame(d, depth), z>>
    BY CondIs, ZenonT(30)
  <1> QED
    BY <1>10, <1>11, ZenonT(30) DEF z, c, h

(* is-null and the comparisons return. *)
LEMMA AfterEvalFact ==
    ASSUME NEW s, NEW q, NEW v, NEW o, Serving(s, q, v, o), Head(s).do = "eval",
           CondOf[Head(s).c].op \in {"is-null", "compare"}
    PROVE  LET c == CondOf[Head(s).c] IN
           Runs(Tail(s), q, IF c.op = "is-null" THEN q.facts[c.fact] \in {"null", "missing"}
                            ELSE q.facts[c.fact] = "true", o)
  <1> DEFINE h == Head(s)
             c == CondOf[h.c]
             H == Holds(q.facts)
             n == q.facts[c.fact] \in {"null", "missing"}
             m == q.facts[c.fact] = "true"
             u == IF c.op = "is-null" THEN n ELSE m
  <1>1. Shaped(h) /\ h.do = "eval" /\ h.c \in DOMAIN CondOf /\ c.op \in {"is-null", "compare"}
    BY HeadIs, ZenonT(30) DEF Shaped
  <1>2. H[h.c] = HoldsBy(H, q.facts, h.c)
    BY <1>1, HoldsIs, ZenonT(30)
  <1>3. HoldsBy(H, q.facts, h.c) = u
    <2>1. CASE c.op = "is-null"
      BY <2>1, ZenonT(30) DEF HoldsBy
    <2>2. CASE c.op = "compare"
      BY <2>2, ZenonT(30) DEF HoldsBy
    <2> QED
      BY <1>1, <2>1, <2>2
  <1>4. n \in BOOLEAN /\ m \in BOOLEAN
    <2>1. n \in BOOLEAN
      OBVIOUS
    <2>2. m \in BOOLEAN
      OBVIOUS
    <2> QED
      BY <2>1, <2>2
  <1>5. u \in BOOLEAN
    BY <1>4, ZenonT(30)
  <1> HIDE DEF h, H, u
  <1>6. /\ \A e : Link(h, q, v, e) => e = u
        /\ \A g : Operations(h, g) = <<>>
        /\ h.do # "require"
    BY <1>1, <1>2, <1>3, ZenonT(30) DEF Link, Operations, Enters, H
  <1>7. Runs(Tail(s), q, u, o)
    BY <1>5, <1>6, RunsSkip, ZenonT(30) DEF h
  <1> QED
    BY <1>7, ZenonT(30) DEF u, h

(* One turn of the loop of "and" or "or". *)
LEMMA AfterLastItem ==
    ASSUME NEW s, NEW q, NEW v, NEW o, Serving(s, q, v, o), Head(s).do = "items",
           v # (Head(s).op = "and") \/ Head(s).items = <<>>
    PROVE  Runs(Tail(s), q, v, o)
  <1> DEFINE h == Head(s)
             A == \A k \in DOMAIN h.items : Holds(q.facts)[h.items[k]]
             E == \E k \in DOMAIN h.items : Holds(q.facts)[h.items[k]]
  <1>1. Shaped(h) /\ h.do = "items" /\ h.op \in {"and", "or"} /\ v \in BOOLEAN
    BY HeadIs, ZenonT(30) DEF Shaped
  <1>2. h.items = <<>> => A /\ ~E
    <2>1. DOMAIN <<>> = {}
      OBVIOUS
    <2> QED
      BY <2>1, ZenonT(30)
  <1>3. ASSUME NEW e, Link(h, q, v, e) PROVE e = v
    <2>1. e = IF h.op = "and" THEN v /\ A ELSE v \/ E
      BY <1>1, <1>3, ZenonT(30) DEF Link
    <2>2. v # (h.op = "and") \/ h.items = <<>>
      OBVIOUS
    <2> HIDE DEF A, E, h
    <2>3. CASE v
      BY <1>1, <1>2, <2>1, <2>2, <2>3, ZenonT(30)
    <2>4. CASE ~v
      BY <1>1, <1>2, <2>1, <2>2, <2>4, ZenonT(30)
    <2> QED
      BY <2>3, <2>4
  <1>4. (\A g : Operations(h, g) = <<>>) /\ h.do # "require"
    BY <1>1, ZenonT(30) DEF Operations, Enters
  <1> QED
    BY <1>1, <1>3, <1>4, RunsSkip, ZenonT(30)

(* The loop of "and" or "or" calls for the next item. *)
LEMMA AfterItem ==
    ASSUME NEW s, NEW q, NEW v, NEW o, Serving(s, q, v, o), Head(s).do = "items",
           v = (Head(s).op = "and"), Head(s).items # <<>>, NEW depth, NEW d
    PROVE  Runs(Append(EvalCondition(Head(Head(s).items), depth),
                       Items(Head(s).op, Tail(Head(s).items), d)) \o Tail(s), q, v, o)
  <1> DEFINE h == Head(s)
             l == h.items
             c == Head(l)
             z == Items(h.op, Tail(l), d)
             H == Holds(q.facts)
             A == \A k \in DOMAIN l : H[l[k]]
             E == \E k \in DOMAIN l : H[l[k]]
             B == \A k \in DOMAIN Tail(l) : H[Tail(l)[k]]
             F == \E k \in DOMAIN Tail(l) : H[Tail(l)[k]]
  <1>1. /\ Shaped(h) /\ h.do = "items" /\ h.op \in {"and", "or"} /\ v \in BOOLEAN
        /\ l \in Seq(DOMAIN CondOf) /\ l # <<>> /\ v = (h.op = "and")
    BY HeadIs, ZenonT(30) DEF Shaped
  <1>2. H \in [DOMAIN CondOf -> BOOLEAN]
    BY HoldsIs, ZenonT(30)
  <1>3. z.do = "items" /\ z.op = h.op /\ z.items = Tail(l)
    BY DEF Items
  <1> HIDE DEF h, l, z, H
  <1>4. /\ Len(l) \in Nat /\ Len(l) >= 1 /\ DOMAIN l = 1 .. Len(l) /\ Head(l) = l[1]
        /\ Tail(l) \in Seq(DOMAIN CondOf) /\ DOMAIN Tail(l) = 1 .. Len(l) - 1
        /\ \A i \in 1 .. Len(l) - 1 : Tail(l)[i] = l[i + 1]
    BY <1>1, HeadTail, ZenonT(30)
  <1>5. 1 \in DOMAIN l /\ c \in DOMAIN CondOf
    <2>1. 1 \in DOMAIN l
      BY <1>4
    <2> QED
      BY <1>1, <1>4, <2>1, ElementsOf, ZenonT(30)
  <1>6. /\ \A k \in DOMAIN Tail(l) : k + 1 \in DOMAIN l /\ Tail(l)[k] = l[k + 1]
        /\ \A k \in DOMAIN l : k = 1 \/ \E i \in DOMAIN Tail(l) : Tail(l)[i] = l[k]
    BY <1>1, TailItems, ZenonT(30)
  <1>8. (A <=> H[c] /\ B) /\ (E <=> H[c] \/ F)
    <2>1. A <=> H[c] /\ B
      BY <1>4, <1>5, <1>6, SMTT(30)
    <2>2. E <=> H[c] \/ F
      BY <1>4, <1>5, <1>6, SMTT(30)
    <2> QED
      BY <2>1, <2>2
  <1>9. H[c] \in BOOLEAN
    BY <1>2, <1>5
  <1>10. ASSUME NEW e, Link(h, q, v, e) PROVE Link(z, q, H[c], e)
    <2>1. e = IF h.op = "and" THEN v /\ A ELSE v \/ E
      BY <1>1, <1>10, ZenonT(30) DEF Link, l, H
    <2>2. e = IF h.op = "and" THEN H[c] /\ B ELSE H[c] \/ F
      <3> HIDE DEF A, E, B, F
      <3>1. CASE h.op = "and"
        BY <1>1, <1>8, <2>1, <3>1, ZenonT(30)
      <3>2. CASE h.op # "and"
        BY <1>1, <1>8, <2>1, <3>2, ZenonT(30)
      <3> QED
        BY <3>1, <3>2
    <2> QED
      BY <1>3, <2>2, ZenonT(30) DEF Link, Enters, H
  <1>11. /\ Shaped(z) /\ z.do # "allow" /\ ~IsLate(z) /\ Span(z) = {} /\ z.do # "branch"
         /\ \A g : Operations(z, g) = Operations(h, g)
         /\ h.do # "require"
    BY <1>1, <1>3, <1>4, ZenonT(30) DEF Shaped, IsLate, Span, Operations, Enters
  <1>12. Runs(<<Step, CondFrame(c, depth), z>> \o Tail(s), q, v, o)
    <2>1. {} \subseteq Span(h) /\ \A y \in {} : Begun(y, z)
      BY ZenonT(30)
    <2> QED
      BY <1>1, <1>5, <1>10, <1>11, <2>1, RunsCond, ZenonT(30) DEF h, H
  <1>13. Append(EvalCondition(c, depth), z) = <<Step, CondFrame(c, depth), z>>
    BY CondIs, ZenonT(30)
  <1> QED
    BY <1>12, <1>13, ZenonT(30) DEF z, l, h

(* One turn of runSteps' loop. *)
LEMMA AfterLastStep ==
    ASSUME NEW s, NEW q, NEW v, NEW o, Serving(s, q, v, o), Head(s).do = "steps", Head(s).steps = <<>>
    PROVE  Runs(Tail(s), q, v, o)
  <1> DEFINE h == Head(s)
  <1>1. Shaped(h) /\ h.do = "steps" /\ h.steps = <<>> /\ v \in BOOLEAN /\ h.steps \in Seq(DOMAIN StepOf)
    BY HeadIs, ZenonT(30) DEF Shaped, Listed
  <1>2. \A g : Trace(h.steps, g) = <<>>
    BY <1>1, TraceIs, ZenonT(30)
  <1> HIDE DEF h
  <1>3. IsLate(h) /\ h.do # "require" /\ \A g : Operations(h, g) = <<>>
    BY <1>1, <1>2, ZenonT(30) DEF IsLate, Operations
  <1> QED
    BY <1>1, <1>3, RunsSkip, ZenonT(30) DEF h

(* The loop of runSteps comes to the next step. *)
LEMMA AfterSteps ==
    ASSUME NEW s, NEW q, NEW v, NEW o, Serving(s, q, v, o), Head(s).do = "steps", Head(s).steps # <<>>,
           NEW d
    PROVE  LET l == Head(s).steps IN
           Runs(<< Step, [do |-> "run", step |-> Head(l), depth |-> d],
                   [do |-> "steps", steps |-> Tail(l), depth |-> d] >> \o Tail(s), q, v, o)
  <1> DEFINE l == Head(s).steps
             x == [do |-> "run", step |-> Head(l), depth |-> d]
             z == [do |-> "steps", steps |-> Tail(l), depth |-> d]
  <1>1. Listed(l)
    BY HeadIs, ZenonT(30) DEF Shaped
  <1>2. x.do = "run" /\ x.step = Head(l) /\ z.do = "steps" /\ z.steps = Tail(l)
    BY ZenonT(30)
  <1> HIDE DEF x, z
  <1>3. Runs(<<Step, x, z>> \o Tail(s), q, v, o)
    BY <1>1, <1>2, RunsSteps, ZenonT(30)
  <1> QED
    BY <1>3 DEF x, z

(* What a request brought does not change, nor does what the conditions    *)
(* that were evaluated saw; nothing that is pending depends on more.       *)
Rebinds(q, p, d) ==
    /\ Request(p) /\ p.cn = q.cn /\ p.brought = q.brought
    /\ \A x \in DOMAIN StepOf \ {d} : p.seen[x] = q.seen[x]

(* A request may learn facts and note what its next condition sees. *)
LEMMA Rebind ==
    ASSUME NEW s, NEW q, NEW v, NEW o, Serving(s, q, v, o), Head(s).do = "run",
           NEW p, Rebinds(q, p, Head(s).step)
    PROVE  Serving(s, p, v, o)
  <1> DEFINE h == s[1]
  <1>1. /\ IsSeq(s) /\ s # <<>> /\ v \in BOOLEAN /\ o \in Seq(DOMAIN StepOf)
        /\ 1 \in DOMAIN s /\ Head(s) = h /\ h.do = "run" /\ Shaped(h)
    BY HeadIs, ZenonT(30)
  <1>2. Runs(s, q, v, o) /\ Orderly(s) /\ Request(p) /\ p.cn = q.cn /\ p.brought = q.brought
    BY ZenonT(30) DEF Serving, Runs, Rebinds
  <1> HIDE DEF h
  <1>3. Permitted(p) \/ \E k \in DOMAIN s : s[k].do = "require"
    BY <1>2, ZenonT(30) DEF Runs, Permitted
  <1>4. \E b : b[1] = v /\ Valued(s, p, b)
    <2>1. IsLate(h) /\ ~IsEarly(h)
      BY <1>1, ZenonT(30) DEF IsLate, IsEarly, Enters
    <2>2. \A k \in DOMAIN s : k = 1 \/ 1 < k
      BY <1>1 DEF IsSeq
    <2>3. \A k \in DOMAIN s : ~IsEarly(s[k])
      BY <1>1, <1>2, <2>1, <2>2, ZenonT(30) DEF Orderly, After, h
    <2> DEFINE b == [k \in Nat |-> v]
    <2>4. 1 \in Nat /\ \A k \in DOMAIN s : k \in Nat /\ k + 1 \in Nat
      BY <1>1 DEF IsSeq
    <2>5. b[1] = v /\ \A k \in DOMAIN s : b[k] = v /\ b[k + 1] = v
      BY <2>4
    <2> HIDE DEF b
    <2>6. Valued(s, p, b)
      BY <2>3, <2>5, LateLink, ZenonT(30) DEF Valued
    <2> QED
      BY <2>5, <2>6, ZenonT(30)
  <1>5. PICK S \in SUBSET DOMAIN StepOf :
               Passed(s, S, o) /\ \A g : Agrees(g, q, S) => Traces(s, q, o, g)
    BY <1>2, ZenonT(30) DEF Runs
  <1>6. h.step \notin S
    <2> SUFFICES ASSUME h.step \in S PROVE FALSE
      OBVIOUS
    <2>1. Begun(h.step, h) /\ h.step \in Span(h)
      BY <1>1, <1>5, ZenonT(30) DEF Passed, Span, h
    <2>2. StepOf[h.step].from < StepOf[h.step].from
      BY <1>1, <2>1, ZenonT(30) DEF Begun
    <2>3. StepOf[h.step].from \in Nat
      BY <1>1, TextIs, ZenonT(30) DEF Shaped
    <2> QED
      BY <2>2, <2>3
  <1>7. ASSUME NEW g, Agrees(g, p, S) PROVE Traces(s, p, o, g)
    <2>1. Agrees(g, q, S)
      BY <1>1, <1>5, <1>6, <1>7, ZenonT(30) DEF Agrees, Rebinds
    <2>2. Goal(p, g) = Goal(q, g)
      BY <1>2, ZenonT(30) DEF Goal
    <2> QED
      BY <1>5, <2>1, <2>2, ZenonT(30) DEF Traces
  <1>8. Runs(s, p, v, o)
    BY <1>1, <1>2, <1>3, <1>4, <1>5, <1>7, ZenonT(30) DEF Runs
  <1> QED
    BY <1>1, <1>8, ZenonT(30) DEF Serving

(* An operation is executed: it comes after those that were. *)
LEMMA AfterOp ==
    ASSUME NEW s, NEW q, NEW v, NEW o, Serving(s, q, v, o), Head(s).do = "run",
           StepOf[Head(s).step].kind = "op", Increasing(o), NEW p, Rebinds(q, p, Head(s).step)
    PROVE  Runs(Tail(s), p, v, Append(o, Head(s).step)) /\ Increasing(Append(o, Head(s).step))
  <1> DEFINE h == Head(s)
             d == h.step
             n == Append(o, d)
             A == DOMAIN StepOf
  <1>1. Serving(s, p, v, o)
    BY Rebind, ZenonT(30)
  <1>2. /\ IsSeq(s) /\ s # <<>> /\ v \in BOOLEAN /\ o \in Seq(A)
        /\ 1 \in DOMAIN s /\ h = s[1] /\ h.do = "run" /\ Shaped(h)
    BY HeadIs, ZenonT(30)
  <1>3. d \in A /\ Span(h) = {d} /\ IsLate(h) /\ h.do # "require" /\ StepOf[d].kind = "op"
    BY <1>2, ZenonT(30) DEF Shaped, Span, IsLate
  <1>4. \A g : Operations(h, g) = <<d>>
    BY <1>2, <1>3, StepTraceIs, ZenonT(30) DEF Operations
  <1>5. \A x \in Range(o) : StepOf[x].from < StepOf[d].from
    <2>1. Runs(s, q, v, o)
      BY ZenonT(30) DEF Serving
    <2>2. PICK S \in SUBSET DOMAIN StepOf : Passed(s, S, o)
      BY <2>1, ZenonT(30) DEF Runs
    <2>3. \A x \in Range(o) : Begun(x, h)
      BY <1>2, <2>2, ZenonT(30) DEF Passed
    <2> QED
      BY <1>2, <1>3, <2>3, ZenonT(30) DEF Begun
  <1> HIDE DEF h, d, A
  <1>6. n \in Seq(A) /\ \A e \in Seq(A) : n \o e = o \o (<<d>> \o e)
    BY <1>2, <1>3
  <1>7. /\ Len(o) \in Nat /\ DOMAIN o = 1 .. Len(o) /\ DOMAIN n = 1 .. Len(o) + 1
        /\ n[Len(o) + 1] = d /\ \A i \in 1 .. Len(o) : n[i] = o[i]
    BY <1>2, <1>3
  <1> HIDE DEF n
  <1>8. Range(n) \subseteq Range(o) \cup {d}
    <2>1. \A i \in DOMAIN n : (i \in DOMAIN o /\ n[i] = o[i]) \/ n[i] = d
      BY <1>7
    <2> QED
      BY <2>1, ZenonT(30) DEF Range
  <1>9. Runs(Tail(s), p, v, n)
    <2>1. \A g, e : e \in Seq(A) => n \o e = o \o (Operations(h, g) \o e)
      BY <1>4, <1>6, ZenonT(30)
    <2> QED
      BY <1>1, <1>2, <1>3, <1>8, <2>1, RunsPop, ZenonT(30) DEF h, A
  <1>10. Increasing(n)
    <2> SUFFICES ASSUME NEW i \in DOMAIN n, NEW j \in DOMAIN n, i < j
                 PROVE  StepOf[n[i]].from < StepOf[n[j]].from
      BY <1>6, ZenonT(30) DEF Increasing, A
    <2>1. i \in DOMAIN o /\ n[i] = o[i] /\ (j = Len(o) + 1 \/ (j \in DOMAIN o /\ n[j] = o[j]))
      BY <1>7
    <2>2. CASE j = Len(o) + 1
      BY <1>5, <1>7, <2>1, <2>2, ZenonT(30) DEF Range
    <2>3. CASE j \in DOMAIN o /\ n[j] = o[j]
      BY <2>1, <2>3, ZenonT(30) DEF Increasing
    <2> QED
      BY <2>1, <2>2, <2>3
  <1> QED
    BY <1>9, <1>10 DEF n, d, h

(* What a step selects is inside it. *)
LEMMA BodyIsWithin ==
    ASSUME NEW h, h.do \in {"run", "branch"}, h.step \in DOMAIN StepOf,
           NEW l, Inside(l, h.step), NEW x \in Range(l)
    PROVE  Within(x, h)
  <1> DEFINE d == h.step
  <1>0. PICK i \in DOMAIN l : x = l[i]
    BY ZenonT(30) DEF Range
  <1>1. /\ StepOf[d].from < StepOf[x].from /\ StepOf[x].to <= StepOf[d].to
        /\ l \in Seq(DOMAIN StepOf)
    BY <1>0, ZenonT(30) DEF Inside, Listed
  <1>2. x \in DOMAIN StepOf
    BY <1>0, <1>1, ElementsOf, ZenonT(30)
  <1>3. StepOf[d].from \in Nat /\ StepOf[x].from \in Nat
    BY <1>2, TextIs, ZenonT(30)
  <1>4. StepOf[d].from <= StepOf[x].from
    BY <1>1, <1>3
  <1>5. d \in Span(h)
    BY ZenonT(30) DEF Span
  <1> QED
    BY <1>1, <1>4, <1>5, ZenonT(30) DEF Within

(* The call of runSteps for the steps that a step selects. *)
LEMMA RunsBody ==
    ASSUME NEW s, NEW q, NEW v, NEW o, Serving(s, q, v, o), Head(s).do \in {"run", "branch"},
           StepOf[Head(s).step].kind # "op", NEW l, Inside(l, Head(s).step), NEW depth,
           \A g : (Head(s).do = "branch" => g[Head(s).step] = q.seen[Head(s).step])
                    => l = Body(Head(s).step, g)
    PROVE  Runs(RunSteps(l, depth) \o Tail(s), q, v, o)
  <1> DEFINE h == Head(s)
             b == [do |-> "steps", steps |-> l, depth |-> depth]
             x == Enter(depth, <<b>>)
  <1>1. RunSteps(l, depth) = <<x>>
    BY DEF RunSteps
  <1>2. x.do = "enter" /\ x.body[1].do = "steps" /\ x.body[1].steps = l
    <2>1. b.do = "steps" /\ b.steps = l
      OBVIOUS
    <2> HIDE DEF b
    <2>2. x.do = "enter" /\ x.body = <<b>>
      BY ZenonT(30) DEF Enter
    <2> HIDE DEF x
    <2> QED
      BY <2>1, <2>2, ShortSeqs, SMTT(30)
  <1>3. /\ Shaped(h) /\ h.do \in {"run", "branch"} /\ h.step \in DOMAIN StepOf /\ v \in BOOLEAN
        /\ Inside(l, h.step)
    BY HeadIs, ZenonT(30) DEF Shaped
  <1> HIDE DEF h
  <1>4. \A y \in Range(l) : Within(y, h)
    BY <1>3, BodyIsWithin
  <1> HIDE DEF x
  <1>5. Enters(x, "steps") /\ ~Enters(x, "eval")
    BY <1>2 DEF Enters
  <1>6. /\ Shaped(x) /\ x.do \notin {"allow", "branch"} /\ Span(x) = Range(l) /\ ~IsEarly(x)
        /\ \A g : Operations(x, g) = Trace(l, g)
    BY <1>2, <1>5, ZenonT(30) DEF Shaped, Span, IsEarly, Operations, Inside
  <1>7. IsLate(h) /\ h.do # "require" /\ \A e : Link(x, q, e, e)
    BY <1>3, <1>6, LateLink, ZenonT(30) DEF IsLate
  <1>8. ASSUME NEW g, h.do = "branch" => g[h.step] = q.seen[h.step]
        PROVE  Operations(x, g) = Operations(h, g)
    <2>1. l = Body(h.step, g) /\ StepOf[h.step].kind # "op"
      BY <1>8, ZenonT(30) DEF h
    <2>2. Operations(h, g) = StepTrace(g)[h.step]
      BY <1>3, ZenonT(30) DEF Operations
    <2>3. StepTrace(g)[h.step] = Trace(Body(h.step, g), g)
      BY <1>3, <2>1, StepTraceIs, ZenonT(30)
    <2> QED
      BY <1>6, <2>1, <2>2, <2>3, ZenonT(30)
  <1>9. \A e : Link(x, q, v, e)
    BY <1>2, <1>5, ZenonT(30) DEF Link
  <1>10. Runs(<<x>> \o Tail(s), q, v, o)
    BY <1>3, <1>4, <1>6, <1>7, <1>8, <1>9, RunsOne, ZenonT(30) DEF h
  <1> QED
    BY <1>1, <1>10, ZenonT(30)

(* A "seq" step runs its steps. *)
LEMMA AfterSeq ==
    ASSUME NEW s, NEW q, NEW v, NEW o, Serving(s, q, v, o), Head(s).do = "run",
           StepOf[Head(s).step].kind = "seq", NEW depth
    PROVE  Runs(RunSteps(StepOf[Head(s).step].steps, depth) \o Tail(s), q, v, o)
  <1> DEFINE d == Head(s).step
  <1>1. d \in DOMAIN StepOf
    BY HeadIs, ZenonT(30) DEF Shaped
  <1>2. Inside(StepOf[d].steps, d) /\ StepOf[d].kind # "op" /\ \A g : StepOf[d].steps = Body(d, g)
    BY <1>1, PartsAreInside, ZenonT(30) DEF Body
  <1> QED
    BY <1>2, RunsBody, ZenonT(30)

(* A branch is the one that the condition selects on what it saw. *)
LEMMA AfterBranch ==
    ASSUME NEW s, NEW q, NEW v, NEW o, Serving(s, q, v, o), Head(s).do = "branch", NEW depth
    PROVE  LET st == StepOf[Head(s).step] IN
           Runs(RunSteps(IF v THEN st.then ELSE st.else, depth) \o Tail(s), q, v, o)
  <1> DEFINE d == Head(s).step
             l == IF v THEN StepOf[d].then ELSE StepOf[d].else
  <1>1. /\ d \in DOMAIN StepOf /\ StepOf[d].kind = "if" /\ v \in BOOLEAN
        /\ \E e : Link(Head(s), q, v, e)
    BY HeadIs, ZenonT(30) DEF Shaped
  <1>2. v = Holds(q.seen[d])[StepOf[d].cond]
    BY <1>1, ZenonT(30) DEF Link
  <1>3. Inside(l, d) /\ StepOf[d].kind # "op"
    BY <1>1, PartsAreInside, ZenonT(30)
  <1>4. ASSUME NEW g, g[d] = q.seen[d] PROVE l = Body(d, g)
    <2>1. Body(d, g) = IF Holds(g[d])[StepOf[d].cond] THEN StepOf[d].then ELSE StepOf[d].else
      BY <1>1, ZenonT(30) DEF Body
    <2> QED
      BY <1>2, <1>4, <2>1, ZenonT(30)
  <1> HIDE DEF l
  <1>5. Runs(RunSteps(l, depth) \o Tail(s), q, v, o)
    BY <1>3, <1>4, RunsBody, ZenonT(30)
  <1> QED
    BY <1>5, ZenonT(30) DEF l

(* The condition of a step is evaluated on what it sees. *)
LEMMA AfterIf ==
    ASSUME NEW s, NEW q, NEW v, NEW o, Serving(s, q, v, o), Head(s).do = "run",
           StepOf[Head(s).step].kind = "if", NEW p, Rebinds(q, p, Head(s).step),
           p.seen[Head(s).step] = p.facts, NEW depth, NEW f
    PROVE  LET d == Head(s).step IN
           Runs(Append(EvalCondition(StepOf[d].cond, depth), [do |-> "branch", step |-> d, depth |-> f])
                  \o Tail(s), p, v, o)
  <1> DEFINE h == Head(s)
             d == h.step
             c == StepOf[d].cond
             z == [do |-> "branch", step |-> d, depth |-> f]
  <1>1. Serving(s, p, v, o)
    BY Rebind, ZenonT(30)
  <1>2. /\ h.do = "run" /\ d \in DOMAIN StepOf /\ StepOf[d].kind = "if" /\ v \in BOOLEAN
        /\ p.seen[d] = p.facts
    BY HeadIs, ZenonT(30) DEF Shaped
  <1>3. c \in DOMAIN CondOf
    BY <1>2, PartsAreInside, ZenonT(30)
  <1>4. z.do = "branch" /\ z.step = d
    BY ZenonT(30)
  <1> HIDE DEF h, d, c, z
  <1>5. /\ Shaped(z) /\ z.do # "allow" /\ Span(z) = {d} /\ Span(h) = {d} /\ IsLate(h)
        /\ \A g : Operations(z, g) = Operations(h, g)
        /\ h.do # "require" /\ h.do # "branch"
    BY <1>2, <1>4, ZenonT(30) DEF Shaped, IsLate, Span, Operations, Enters, d
  <1>6. Within(d, h)
    <2>1. StepOf[d].from <= StepOf[d].from /\ StepOf[d].to <= StepOf[d].to
      BY <1>2, TextIs
    <2> QED
      BY <1>5, <2>1, ZenonT(30) DEF Within
  <1>7. \A e : Link(z, p, Holds(p.facts)[c], e)
    BY <1>2, <1>4, ZenonT(30) DEF Link, Enters, c
  <1>8. Begun(d, z)
    BY <1>4, <1>5, ZenonT(30) DEF Begun
  <1>9. Runs(<<Step, CondFrame(c, depth), z>> \o Tail(s), p, v, o)
    BY <1>1, <1>2, <1>3, <1>4, <1>5, <1>6, <1>7, <1>8, RunsCond, ZenonT(30) DEF h
  <1>10. Append(EvalCondition(c, depth), z) = <<Step, CondFrame(c, depth), z>>
    BY CondIs, ZenonT(30)
  <1> QED
    BY <1>9, <1>10, ZenonT(30) DEF z, c, d, h

(* At the end of the flow the request is permitted, and its operations are *)
(* those of the flow.                                                      *)
LEMMA AtAllow ==
    ASSUME NEW s, NEW q, NEW v, NEW o, Serving(s, q, v, o), Head(s).do = "allow"
    PROVE  Permitted(q) /\ o = Goal(q, q.seen)
  <1>1. /\ IsSeq(s) /\ s # <<>> /\ Runs(s, q, v, o) /\ o \in Seq(DOMAIN StepOf)
        /\ 1 \in DOMAIN s /\ s[1].do = "allow"
    BY HeadIs, ZenonT(30) DEF Serving
  <1>2. Len(s) = 1 /\ \A k \in DOMAIN s : k = 1
    <2>1. Len(s) = 1
      BY <1>1, ZenonT(30) DEF Runs, Orderly
    <2> QED
      BY <1>1, <2>1 DEF IsSeq
  <1>3. Permitted(q)
    BY <1>1, <1>2, ZenonT(30) DEF Runs
  <1>4. PICK S \in SUBSET DOMAIN StepOf :
               Passed(s, S, o) /\ \A g : Agrees(g, q, S) => Traces(s, q, o, g)
    BY <1>1, ZenonT(30) DEF Runs
  <1>5. Traces(s, q, o, q.seen)
    BY <1>4, ZenonT(30) DEF Agrees
  <1>6. PICK w : Chained(s, q.seen, w) /\ w[1 + 1] = <<>> /\ o \o w[1] = Goal(q, q.seen)
    BY <1>2, <1>5, ZenonT(30) DEF Traces
  <1>7. w[1] = Operations(s[1], q.seen) \o w[1 + 1] /\ Operations(s[1], q.seen) = <<>>
    BY <1>1, <1>6, ZenonT(30) DEF Chained, Operations, Enters
  <1>8. <<>> \o <<>> = <<>>
    OBVIOUS
  <1>9. w[1] = <<>>
    BY <1>6, <1>7, <1>8, ZenonT(30)
  <1>10. o \o <<>> = o
    BY <1>1
  <1> QED
    BY <1>3, <1>6, <1>9, <1>10, ZenonT(30)

--------------------------------------------------------------------------------
(* The instructions of a request that has just been received. *)
LEMMA RunsFresh ==
    ASSUME NEW t, Orderly(t), \A k \in DOMAIN t : t[k].do # "branch", NEW q, Request(q),
           Permitted(q) \/ \E k \in DOMAIN t : t[k].do = "require",
           NEW v \in BOOLEAN, NEW b, b[1] = v, Valued(t, q, b), \A g : Traces(t, q, <<>>, g)
    PROVE  Runs(t, q, v, <<>>)
  <1>1. Range(<<>>) = {}
    BY DEF Range
  <1>2. Passed(t, {}, <<>>)
    BY <1>1, ZenonT(30) DEF Passed
  <1>3. {} \in SUBSET DOMAIN StepOf
    OBVIOUS
  <1> QED
    BY <1>2, <1>3, ZenonT(30) DEF Runs

Allowing == [do |-> "allow"]
Requiring == [do |-> "require"]
FlowFrame(rule) == Enter(0, <<[do |-> "steps", steps |-> rule.flow, depth |-> 0]>>)

(* The end of Decide returns and runs nothing. *)
LEMMA AllowInstruction ==
    /\ Allowing.do = "allow" /\ Shaped(Allowing) /\ Span(Allowing) = {} /\ ~IsEarly(Allowing)
    /\ \A g : Operations(Allowing, g) = <<>>
    /\ \A q, e : Link(Allowing, q, e, e)
  <1>1. Allowing.do = "allow"
    BY DEF Allowing
  <1>2. /\ Shaped(Allowing) /\ Span(Allowing) = {} /\ ~IsEarly(Allowing)
        /\ \A g : Operations(Allowing, g) = <<>>
    BY <1>1, ZenonT(30) DEF Shaped, Span, IsEarly, Operations, Enters
  <1> QED
    BY <1>1, <1>2, LateLink, ZenonT(30)

(* The check of the conditions, after they were evaluated. *)
LEMMA RequireInstruction ==
    /\ Requiring.do = "require" /\ Shaped(Requiring) /\ Span(Requiring) = {}
    /\ IsLate(Requiring)
    /\ \A g : Operations(Requiring, g) = <<>>
    /\ \A q, v, e : v = Holds(q.brought)[Rules[q.cn].cond] => Link(Requiring, q, v, e)
  <1>1. Requiring.do = "require"
    BY DEF Requiring
  <1>2. /\ Shaped(Requiring) /\ Span(Requiring) = {} /\ IsLate(Requiring)
        /\ \A g : Operations(Requiring, g) = <<>>
    BY <1>1, ZenonT(30) DEF Shaped, Span, IsLate, Operations, Enters
  <1>3. \A q, v, e : v = Holds(q.brought)[Rules[q.cn].cond] => Link(Requiring, q, v, e)
    BY <1>1, ZenonT(30) DEF Link, Enters
  <1> QED
    BY <1>1, <1>2, <1>3, ZenonT(30)

(* The call that runs the flow has the operations of the flow. *)
LEMMA FlowInstruction ==
    ASSUME NEW cn \in Plugins, Rules[cn].hasFlow
    PROVE  LET w == FlowFrame(Rules[cn]) IN
           /\ w.do = "enter" /\ Shaped(w) /\ ~IsEarly(w)
           /\ \A g : /\ Operations(w, g) = Trace(Rules[cn].flow, g)
                     /\ Operations(w, g) \in Seq(DOMAIN StepOf)
           /\ \A q, e : Link(w, q, e, e)
  <1> DEFINE l == Rules[cn].flow
             b == [do |-> "steps", steps |-> l, depth |-> 0]
             w == FlowFrame(Rules[cn])
  <1>1. Listed(l) /\ l \in Seq(DOMAIN StepOf)
    BY TextAssumption, ZenonT(30) DEF Listed
  <1>2. b.do = "steps" /\ b.steps = l
    BY ZenonT(30)
  <1>3. w = Enter(0, <<b>>)
    BY ZenonT(30) DEF FlowFrame
  <1> HIDE DEF l, b, w
  <1>4. w.do = "enter" /\ w.body = <<b>>
    BY <1>3 DEF Enter
  <1>5. w.do = "enter" /\ w.body[1].do = "steps" /\ w.body[1].steps = l
    <2>1. w.body[1] = b
      BY <1>4
    <2> QED
      BY <1>2, <1>4, <2>1, ZenonT(30)
  <1>6. Enters(w, "steps") /\ ~Enters(w, "eval")
    BY <1>5 DEF Enters
  <1>7. Shaped(w) /\ ~IsEarly(w) /\ \A g : Operations(w, g) = Trace(l, g)
    BY <1>1, <1>5, <1>6, ZenonT(30) DEF Shaped, IsEarly, Operations
  <1>8. \A g : Trace(l, g) \in Seq(DOMAIN StepOf)
    BY <1>1, TraceIs, ZenonT(30)
  <1> QED
    BY <1>5, <1>7, <1>8, LateLink, ZenonT(30) DEF w, l

(* The end of what Decide does: the flow, if there is one, and the allow.  *)
(* What an instruction x without operations is followed by.                *)
LEMMA RunsToAllow ==
    ASSUME NEW q, Request(q), ~Rules[q.cn].hasFlow, Permitted(q), NEW v \in BOOLEAN
    PROVE  Runs(<<Allowing>>, q, v, <<>>)
  <1> DEFINE t == <<Allowing>>
  <1>1. Len(t) = 1 /\ DOMAIN t = {1} /\ t[1] = Allowing
    BY ShortSeqs, ZenonT(30)
  <1> HIDE DEF t
  <1>2. Orderly(t) /\ \A k \in DOMAIN t : t[k].do # "branch"
    <2>1. \A k, l \in DOMAIN t : ~(k < l)
      BY <1>1
    <2>2. Allowing.do # "branch"
      BY AllowInstruction
    <2> QED
      BY <1>1, <2>1, <2>2, AllowInstruction, ZenonT(30) DEF Orderly
  <1> DEFINE b == <<v, v, v, v>>
  <1>0. Four(b, v, v, v, v)
    BY FourIs, ZenonT(30)
  <1> HIDE DEF b
  <1>3. b[1] = v /\ b[1 + 1] = v
    BY <1>0, ZenonT(30) DEF Four
  <1>4. Valued(t, q, b)
    BY <1>1, <1>3, AllowInstruction, ZenonT(30) DEF Valued
  <1>5. ASSUME NEW g PROVE Traces(t, q, <<>>, g)
    <2> DEFINE w == <<<<>>, <<>>, <<>>, <<>>>>
    <2>0. Four(w, <<>>, <<>>, <<>>, <<>>)
      BY FourIs, ZenonT(30)
    <2> HIDE DEF w
    <2>1. w[1] = <<>> /\ w[1 + 1] = <<>>
      BY <2>0, ZenonT(30) DEF Four
    <2>2. <<>> \in Seq(DOMAIN StepOf) /\ <<>> \o <<>> = <<>>
      OBVIOUS
    <2>3. Chained(t, g, w)
      BY <1>1, <2>1, <2>2, AllowInstruction, ZenonT(30) DEF Chained
    <2>4. Goal(q, g) = <<>>
      BY ZenonT(30) DEF Goal
    <2> QED
      BY <1>1, <2>1, <2>2, <2>3, <2>4, ZenonT(30) DEF Traces
  <1>6. Runs(t, q, v, <<>>)
    BY <1>2, <1>3, <1>4, <1>5, RunsFresh, ZenonT(30)
  <1> QED
    BY <1>6 DEF t

(* ... with one instruction before the allow, ... *)
LEMMA RunsTwo ==
    ASSUME NEW q, Request(q), NEW x, Shaped(x), x.do \notin {"allow", "branch"},
           Permitted(q) \/ x.do = "require", NEW v \in BOOLEAN, Link(x, q, v, v),
           \A g : Operations(x, g) = Goal(q, g) /\ Goal(q, g) \in Seq(DOMAIN StepOf)
    PROVE  Runs(<<x, Allowing>>, q, v, <<>>)
  <1> DEFINE t == <<x, Allowing>>
  <1>1. Len(t) = 2 /\ DOMAIN t = {1, 2} /\ t[1] = x /\ t[2] = Allowing
    BY ShortSeqs, SMTT(30)
  <1> HIDE DEF t
  <1>2. Orderly(t) /\ \A k \in DOMAIN t : t[k].do # "branch"
    <2>1. \A k, l \in DOMAIN t : k < l => k = 1 /\ l = 2
      BY <1>1
    <2>2. Allowing.do # "branch" /\ x.do # "branch" /\ x.do # "allow"
      BY AllowInstruction
    <2>3. After(x, Allowing)
      BY AllowInstruction, ZenonT(30) DEF After
    <2> QED
      BY <1>1, <2>1, <2>2, <2>3, AllowInstruction, ZenonT(30) DEF Orderly
  <1> DEFINE b == <<v, v, v, v>>
  <1>0. Four(b, v, v, v, v)
    BY FourIs, ZenonT(30)
  <1> HIDE DEF b
  <1>3. b[1] = v /\ b[1 + 1] = v /\ b[2 + 1] = v /\ b[2] = v
    BY <1>0, ZenonT(30) DEF Four
  <1>4. Valued(t, q, b)
    BY <1>1, <1>3, AllowInstruction, ZenonT(30) DEF Valued
  <1>5. ASSUME NEW g PROVE Traces(t, q, <<>>, g)
    <2> DEFINE G == Goal(q, g)
               w == <<G, <<>>, <<>>, <<>>>>
    <2>0. Four(w, G, <<>>, <<>>, <<>>)
      BY FourIs, ZenonT(30)
    <2>2. G \in Seq(DOMAIN StepOf) /\ Operations(x, g) = G
      BY ZenonT(30)
    <2> HIDE DEF w, G
    <2>1. w[1] = G /\ w[1 + 1] = <<>> /\ w[2 + 1] = <<>> /\ w[2] = <<>>
      BY <2>0, ZenonT(30) DEF Four
    <2>3. /\ <<>> \in Seq(DOMAIN StepOf) /\ <<>> \o <<>> = <<>>
          /\ <<>> \o G = G /\ G \o <<>> = G
      BY <2>2
    <2>4. Chained(t, g, w)
      BY <1>1, <2>1, <2>2, <2>3, AllowInstruction, ZenonT(30) DEF Chained
    <2> QED
      BY <1>1, <2>1, <2>2, <2>3, <2>4, ZenonT(30) DEF Traces, G
  <1>6. Permitted(q) \/ \E k \in DOMAIN t : t[k].do = "require"
    BY <1>1, ZenonT(30)
  <1>7. Runs(t, q, v, <<>>)
    BY <1>2, <1>3, <1>4, <1>5, <1>6, RunsFresh, ZenonT(30)
  <1> QED
    BY <1>7 DEF t

(* ... or the check of the conditions and the flow. *)
LEMMA RunsThree ==
    ASSUME NEW q, Request(q), Rules[q.cn].hasFlow,
           NEW v \in BOOLEAN, v = Holds(q.brought)[Rules[q.cn].cond]
    PROVE  Runs(<<Requiring, FlowFrame(Rules[q.cn]), Allowing>>, q, v, <<>>)
  <1> DEFINE x == FlowFrame(Rules[q.cn])
             t == <<Requiring, x, Allowing>>
  <1>1. Len(t) = 3 /\ DOMAIN t = {1, 2, 3} /\ t[1] = Requiring /\ t[2] = x /\ t[3] = Allowing
    BY TripleIs, SMTT(30) DEF Triple
  <1>2. /\ x.do = "enter" /\ Shaped(x) /\ ~IsEarly(x) /\ Link(x, q, v, v)
        /\ \A g : /\ Operations(x, g) = Goal(q, g) /\ Goal(q, g) \in Seq(DOMAIN StepOf)
    BY FlowInstruction, ZenonT(30) DEF Request, Goal
  <1>3. Link(Requiring, q, v, v)
    BY RequireInstruction, ZenonT(30)
  <1> HIDE DEF t, x
  <1>4. Orderly(t) /\ \A k \in DOMAIN t : t[k].do # "branch"
    <2>1. \A k, l \in DOMAIN t : k < l => (k = 1 /\ l = 2) \/ (k = 1 /\ l = 3) \/ (k = 2 /\ l = 3)
      BY <1>1
    <2>2. /\ Allowing.do # "branch" /\ x.do # "branch" /\ x.do # "allow"
          /\ Requiring.do # "branch" /\ Requiring.do # "allow"
      BY <1>2, AllowInstruction, RequireInstruction
    <2>3. After(x, Allowing) /\ After(Requiring, x) /\ After(Requiring, Allowing)
      BY <1>2, AllowInstruction, RequireInstruction, ZenonT(30) DEF After
    <2> QED
      BY <1>1, <1>2, <2>1, <2>2, <2>3, AllowInstruction, RequireInstruction, ZenonT(30) DEF Orderly
  <1> DEFINE b == <<v, v, v, v>>
  <1>5. Four(b, v, v, v, v)
    BY FourIs, ZenonT(30)
  <1> HIDE DEF b
  <1>6. Valued(t, q, b)
    BY <1>1, <1>2, <1>3, <1>5, AllowInstruction, ZenonT(30) DEF Valued, Four
  <1>7. ASSUME NEW g PROVE Traces(t, q, <<>>, g)
    <2> DEFINE G == Goal(q, g)
               w == <<G, G, <<>>, <<>>>>
    <2>1. Four(w, G, G, <<>>, <<>>)
      BY FourIs, ZenonT(30)
    <2>2. G \in Seq(DOMAIN StepOf) /\ Operations(x, g) = G
      BY <1>2, ZenonT(30)
    <2> HIDE DEF w, G
    <2>3. /\ <<>> \in Seq(DOMAIN StepOf) /\ <<>> \o <<>> = <<>>
          /\ <<>> \o G = G /\ G \o <<>> = G
      BY <2>2
    <2>4. Chained(t, g, w)
      <3>1. /\ Operations(Requiring, g) = <<>> /\ Operations(Allowing, g) = <<>>
            /\ w[1] = G /\ w[1 + 1] = G /\ w[2] = G /\ w[2 + 1] = <<>> /\ w[3] = <<>> /\ w[3 + 1] = <<>>
        BY <2>1, AllowInstruction, RequireInstruction, ZenonT(30) DEF Four
      <3> QED
        BY <1>1, <2>2, <2>3, <3>1, ZenonT(30) DEF Chained
    <2> QED
      BY <1>1, <2>1, <2>2, <2>3, <2>4, ZenonT(30) DEF Traces, G, Four
  <1>8. \E k \in DOMAIN t : t[k].do = "require"
    BY <1>1, RequireInstruction, ZenonT(30)
  <1>9. b[1] = v
    BY <1>5, ZenonT(30) DEF Four
  <1>10. Runs(t, q, v, <<>>)
    BY <1>4, <1>6, <1>7, <1>8, <1>9, RunsFresh, ZenonT(30)
  <1> QED
    BY <1>10 DEF t, x
(* The four forms of what Decide does. *)
LEMMA RunsDecision ==
    ASSUME NEW cn \in Plugins
    PROVE  LET rule == Rules[cn]
               w == FlowFrame(rule)
               Y == CondFrame(rule.cond, 0)
           IN  Decide(rule) =
                 CASE rule.cond = None /\ ~rule.hasFlow -> <<Allowing>>
                   [] rule.cond = None /\ rule.hasFlow -> <<w, Allowing>>
                   [] rule.cond # None /\ ~rule.hasFlow -> <<Step, Y, Requiring>> \o <<Allowing>>
                   [] OTHER -> <<Step, Y, Requiring>> \o <<w, Allowing>>
  <1> DEFINE rule == Rules[cn]
             w == FlowFrame(rule)
             Y == CondFrame(rule.cond, 0)
  <1>1. Decide(rule) = (IF rule.cond = None THEN <<>> ELSE <<Step, Y>> \o <<Requiring>>)
                       \o (IF rule.hasFlow THEN <<w>> ELSE <<>>) \o <<Allowing>>
    BY ZenonT(30) DEF Decide, EvalCondition, RunSteps, CondFrame, FlowFrame, Allowing, Requiring
  <1> HIDE DEF rule, w, Y
  <1>2. /\ <<Step, Y>> \o <<Requiring>> = <<Step, Y, Requiring>>
        /\ <<>> \o <<>> = <<>> /\ <<>> \o <<w>> = <<w>>
        /\ <<>> \o <<Allowing>> = <<Allowing>> /\ <<w>> \o <<Allowing>> = <<w, Allowing>>
    <2>1. IsSeq(<<Step, Y>>) /\ IsSeq(<<w>>)
      BY ShortSeqs, ZenonT(30)
    <2>2. /\ <<Step, Y>> \o <<Requiring>> = <<Step, Y, Requiring>>
          /\ <<w>> \o <<Allowing>> = <<w, Allowing>>
      BY <2>1, AppendIs, AppendToOne, AppendToTwo, ZenonT(30)
    <2>3. \A S : \A a \in Seq(S) : <<>> \o a = a
      OBVIOUS
    <2>4. <<>> \in Seq({}) /\ <<w>> \in Seq({w}) /\ <<Allowing>> \in Seq({Allowing})
      OBVIOUS
    <2> QED
      BY <2>2, <2>3, <2>4, ZenonT(30)
  <1>3. /\ <<Step, Y, Requiring>> \o <<>> = <<Step, Y, Requiring>>
        /\ (<<Step, Y, Requiring>> \o <<w>>) \o <<Allowing>>
             = <<Step, Y, Requiring>> \o (<<w>> \o <<Allowing>>)
    <2>1. /\ <<Step, Y, Requiring>> \in Seq({Step, Y, Requiring, w, Allowing})
          /\ <<w>> \in Seq({Step, Y, Requiring, w, Allowing})
          /\ <<Allowing>> \in Seq({Step, Y, Requiring, w, Allowing})
      OBVIOUS
    <2>2. ASSUME NEW S, NEW a \in Seq(S), NEW b \in Seq(S), NEW d \in Seq(S)
          PROVE  (a \o b) \o d = a \o (b \o d) /\ a \o <<>> = a
      OBVIOUS
    <2> QED
      BY <2>1, <2>2, SMTT(30)
  <1>4. CASE rule.cond = None
    BY <1>1, <1>2, <1>4, ZenonT(30) DEF rule, w, Y
  <1>5. CASE rule.cond # None
    BY <1>1, <1>2, <1>3, <1>5, ZenonT(30) DEF rule, w, Y
  <1> QED
    BY <1>4, <1>5, ZenonT(30)
(* What Decide pushes does what the rule asks, from its first instruction. *)
LEMMA RunsDecide ==
    ASSUME NEW q, Request(q), q.facts = q.brought
    PROVE  Runs(Decide(Rules[q.cn]), q, FALSE, <<>>)
  <1> DEFINE rule == Rules[q.cn]
             w == FlowFrame(rule)
             Y == CondFrame(rule.cond, 0)
  <1>0. q.cn \in Plugins
    BY ZenonT(30) DEF Request
  <1>1. ASSUME rule.hasFlow
        PROVE  /\ Shaped(w) /\ w.do = "enter" /\ \A e : Link(w, q, e, e)
               /\ \A g : Operations(w, g) = Goal(q, g) /\ Goal(q, g) \in Seq(DOMAIN StepOf)
    BY <1>0, <1>1, FlowInstruction, ZenonT(30) DEF Goal
  <1>2. ASSUME ~rule.hasFlow
        PROVE  \A g : Goal(q, g) = <<>>
    BY <1>2, ZenonT(30) DEF Goal
  <1>3. CASE rule.cond = None
    <2>1. Permitted(q)
      BY <1>3, ZenonT(30) DEF Permitted
    <2>2. CASE ~rule.hasFlow
      BY <1>0, <1>3, <2>1, <2>2, RunsToAllow, RunsDecision, ZenonT(30)
    <2>3. CASE rule.hasFlow
      <3>1. w.do \notin {"allow", "branch"}
        BY <1>1, <2>3
      <3>2. Runs(<<w, Allowing>>, q, FALSE, <<>>)
        BY <1>1, <2>1, <2>3, <3>1, RunsTwo, ZenonT(30)
      <3> QED
        BY <1>0, <1>3, <2>3, <3>2, RunsDecision, ZenonT(30)
    <2> QED
      BY <2>2, <2>3, ZenonT(30)
  <1>4. CASE rule.cond # None
    <2> DEFINE v == Holds(q.brought)[rule.cond]
    <2>1. rule.cond \in DOMAIN CondOf
      BY <1>0, <1>4, TextAssumption, ZenonT(30)
    <2>2. v \in BOOLEAN
      BY <2>1, HoldsIs, ZenonT(30)
    <2> HIDE DEF v
    <2>3. v = Holds(q.brought)[Rules[q.cn].cond] /\ Link(Requiring, q, v, v)
      BY RequireInstruction, ZenonT(30) DEF v
    <2>4. ASSUME NEW s, IsSeq(s), s # <<>>, Head(s) = Requiring, Runs(s, q, v, <<>>)
          PROVE  Runs(<<Step, Y, Requiring>> \o Tail(s), q, FALSE, <<>>)
      <3>1. <<>> \in Seq(DOMAIN StepOf) /\ FALSE \in BOOLEAN
        OBVIOUS
      <3>2. Serving(s, q, v, <<>>)
        BY <2>4, <3>1, ZenonT(30) DEF Serving
      <3>3. Requiring.do # "allow" /\ Requiring.do # "branch"
        BY RequireInstruction
      <3>4. \A e : Link(Requiring, q, Holds(q.facts)[rule.cond], e)
        BY RequireInstruction, ZenonT(30)
      <3>5. {} \subseteq Span(Requiring)
        OBVIOUS
      <3> QED
        BY <2>1, <2>4, <3>1, <3>2, <3>3, <3>4, <3>5, RequireInstruction, RunsCond, ZenonT(30)
    <2>5. CASE ~rule.hasFlow
      <3>1. /\ IsSeq(<<Requiring, Allowing>>) /\ <<Requiring, Allowing>> # <<>>
            /\ Head(<<Requiring, Allowing>>) = Requiring
            /\ Tail(<<Requiring, Allowing>>) = <<Allowing>>
        <4>1. IsSeq(<<Requiring, Allowing>>)
          BY ShortSeqs, ZenonT(30)
        <4> QED
          BY <4>1
      <3>2. Requiring.do \notin {"allow", "branch"} /\ Requiring.do = "require"
        BY RequireInstruction
      <3>3. \A g : Operations(Requiring, g) = Goal(q, g) /\ Goal(q, g) \in Seq(DOMAIN StepOf)
        <4>1. <<>> \in Seq(DOMAIN StepOf)
          OBVIOUS
        <4> QED
          BY <1>2, <2>5, <4>1, RequireInstruction, ZenonT(30)
      <3>4. Runs(<<Requiring, Allowing>>, q, v, <<>>)
        BY <2>2, <2>3, <3>2, <3>3, RequireInstruction, RunsTwo, ZenonT(30)
      <3>5. Runs(<<Step, Y, Requiring>> \o <<Allowing>>, q, FALSE, <<>>)
        BY <2>4, <3>1, <3>4, ZenonT(30)
      <3> QED
        BY <1>0, <1>4, <2>5, <3>5, RunsDecision, ZenonT(30)
    <2>6. CASE rule.hasFlow
      <3> DEFINE s == <<Requiring, w, Allowing>>
      <3>1. s # <<>> /\ Head(s) = Requiring /\ Tail(s) = <<w, Allowing>>
        <4> HIDE DEF w
        <4> QED
          OBVIOUS
      <3>2. IsSeq(s)
        BY TripleIs, ZenonT(30) DEF Triple
      <3>3. Runs(s, q, v, <<>>)
        BY <2>2, <2>3, <2>6, RunsThree, ZenonT(30)
      <3> HIDE DEF s
      <3>4. Runs(<<Step, Y, Requiring>> \o <<w, Allowing>>, q, FALSE, <<>>)
        BY <2>4, <3>1, <3>2, <3>3, ZenonT(30)
      <3> QED
        BY <1>0, <1>4, <2>6, <3>4, RunsDecision, ZenonT(30)
    <2> QED
      BY <2>5, <2>6, ZenonT(30)
  <1> QED
    BY <1>3, <1>4, ZenonT(30)
================================================================================
