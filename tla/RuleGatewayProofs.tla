--------------------------- MODULE RuleGatewayProofs ---------------------------
(***************************************************************************)
(* The budget of a rule plugin, for any rules, requests and goroutines: a  *)
(* refusal for steps is backed by the steps charged, and every path        *)
(* through the interpreter gives back the nesting levels it enters.        *)
(*                                                                         *)
(* The argument is about what a request has left to do.  Until an error it *)
(* is "clean": each open frame has its Exit in it, before anything outside *)
(* of all frames.  After an error it is "unwinding": the Exits of the      *)
(* frames that were open, then the refusal.  Every action replaces the     *)
(* first instruction (Moves), unwinds (Fails), answers (Answers) or        *)
(* touches a counter.                                                      *)
(***************************************************************************)
EXTENDS RuleGateway, TLAPS

(* The time limits of the provers, in seconds: Zenon is tried, then SMT. *)
USE ZenonT(10), SMTT(30)

(* A sequence, whatever its elements are. *)
IsSeq(s) == s \in Seq(Range(s))

(* A sequence over any set is one. *)
LEMMA SeqIsSeq == \A S : \A s \in Seq(S) : IsSeq(s)
  BY DEF IsSeq, Range

(* Concatenation, element by element. *)
LEMMA ConcatIsSeq ==
    ASSUME NEW a, NEW b, IsSeq(a), IsSeq(b)
    PROVE  /\ IsSeq(a \o b)
           /\ Len(a) \in Nat /\ Len(b) \in Nat
           /\ DOMAIN a = 1 .. Len(a) /\ DOMAIN b = 1 .. Len(b)
           /\ DOMAIN (a \o b) = 1 .. Len(a) + Len(b)
           /\ \A i \in 1 .. Len(a) : (a \o b)[i] = a[i]
           /\ \A i \in 1 .. Len(b) : (a \o b)[Len(a) + i] = b[i]
  <1> DEFINE U == Range(a) \cup Range(b)
  <1>1. a \in Seq(U) /\ b \in Seq(U)
    BY DEF IsSeq
  <1> HIDE DEF U
  <1>2. a \o b \in Seq(U)
    BY <1>1
  <1>3. IsSeq(a \o b)
    BY <1>2, SeqIsSeq, ZenonT(30)
  <1>4. /\ Len(a) \in Nat /\ Len(b) \in Nat
        /\ DOMAIN a = 1 .. Len(a) /\ DOMAIN b = 1 .. Len(b)
        /\ DOMAIN (a \o b) = 1 .. Len(a) + Len(b)
    BY <1>1
  <1>5. \A i \in 1 .. Len(a) : (a \o b)[i] = a[i]
    BY <1>1, <1>4
  <1>6. \A i \in 1 .. Len(b) : (a \o b)[Len(a) + i] = b[i]
    BY <1>1, <1>4
  <1> QED
    BY <1>3, <1>4, <1>5, <1>6

(* A sequence without its first element. *)
LEMMA TailIsSeq ==
    ASSUME NEW s, IsSeq(s), s # <<>>
    PROVE  /\ IsSeq(Tail(s)) /\ Head(s) = s[1] /\ 1 \in DOMAIN s /\ Len(s) \in DOMAIN s
           /\ Len(s) - 1 \in Nat /\ Len(s) = Len(s) - 1 + 1 /\ DOMAIN s = 1 .. Len(s) - 1 + 1
           /\ Len(Tail(s)) = Len(s) - 1 /\ DOMAIN Tail(s) = 1 .. Len(s) - 1
           /\ \A i \in 1 .. Len(s) - 1 : Tail(s)[i] = s[i + 1]
  <1>1. s \in Seq(Range(s))
    BY DEF IsSeq
  <1>2. Tail(s) \in Seq(Range(s))
    BY <1>1
  <1>3. IsSeq(Tail(s))
    BY <1>2, SeqIsSeq, ZenonT(30)
  <1>4. Len(s) \in Nat /\ Len(s) >= 1 /\ DOMAIN s = 1 .. Len(s) /\ Head(s) = s[1]
    BY <1>1
  <1>5. /\ 1 \in DOMAIN s /\ Len(s) \in DOMAIN s
        /\ Len(s) - 1 \in Nat /\ Len(s) = Len(s) - 1 + 1 /\ DOMAIN s = 1 .. Len(s) - 1 + 1
    BY <1>4
  <1>6. /\ Len(Tail(s)) = Len(s) - 1 /\ DOMAIN Tail(s) = 1 .. Len(s) - 1
        /\ \A i \in 1 .. Len(s) - 1 : Tail(s)[i] = s[i + 1]
    BY <1>1, <1>4
  <1> QED
    BY <1>3, <1>4, <1>5, <1>6

--------------------------------------------------------------------------------
(* The instructions of a request: those it still has to execute, in which  *)
(* a frame's Exit comes before what follows outside of all frames, or,     *)
(* after an error, the deferred Exits and the refusal.                     *)
Outside == {"require", "allow", "refuse"}
Counting == {"step", "enter", "exit"}

(* The instructions that carry the depth of the call they belong to. *)
HasDepth == {"enter", "eval", "items", "steps", "run", "branch"}

(* The shape of one instruction. *)
Good(i) ==
    /\ i.do \in HasDepth => i.depth \in Nat
    /\ i.do = "enter" => \E b : i.body = <<b>> /\ b.do \in {"eval", "steps"} /\ b.depth = i.depth

\* The frames that may be open when an instruction of that depth is executed.
Frames(i) == i.depth + (IF i.do \in {"enter", "branch"} THEN 0 ELSE 1)

\* The Exits of n open frames, the innermost first.
Exiting(s, n) ==
    /\ n \in Nat
    /\ \A k \in DOMAIN s : s[k].do = "exit" => s[k].frame \in 1 .. n
    /\ \A f \in 1 .. n : \E k \in DOMAIN s : s[k].do = "exit" /\ s[k].frame = f
    /\ \A k, l \in DOMAIN s :
         k < l /\ s[k].do = "exit" /\ s[l].do = "exit" => s[l].frame < s[k].frame

Framed(s) == Exiting(s, Open(s))

Clean(s) ==
    /\ \A k \in DOMAIN s : Good(s[k]) /\ s[k].do # "refuse"
    /\ \A k, l \in DOMAIN s : k < l /\ s[k].do \in Outside => s[l].do # "exit"

Unwinding(s) ==
    /\ s # <<>> /\ s[Len(s)].do = "refuse"
    /\ \A k \in 1 .. Len(s) - 1 : s[k].do = "exit"

Instructions(s) == IsSeq(s) /\ Framed(s) /\ (Clean(s) \/ Unwinding(s))

\* What an instruction may put in its place.
Pushable(a) == IsSeq(a) /\ \A k \in DOMAIN a : Good(a[k]) /\ a[k].do \notin Outside

\* What one that opens no frame may put there, n frames being open.
Pushed(a, n) ==
    /\ Pushable(a)
    /\ \A k \in DOMAIN a : a[k].do # "exit" /\ (a[k].do \in HasDepth => n <= Frames(a[k]))

(* Open counts the frames. *)
LEMMA OpenIs == ASSUME NEW s, NEW n, Exiting(s, n) PROVE Open(s) = n /\ Framed(s)
  <1> DEFINE exits == {i \in DOMAIN s : s[i].do = "exit"}
             frames == {s[i].frame : i \in exits}
             Top(m) == \A f \in frames : f <= m
  <1>1. n \in {0} \cup frames /\ frames \subseteq 1 .. n /\ n \in Nat
    BY DEF Exiting
  <1>2. Open(s) = CHOOSE m \in {0} \cup frames : Top(m)
    BY DEF Open
  <1> HIDE DEF frames
  <1>3. Top(n)
    BY <1>1
  <1>4. \A m \in {0} \cup frames : Top(m) => m = n
    <2> SUFFICES ASSUME NEW m \in {0} \cup frames, Top(m) PROVE m = n
      OBVIOUS
    <2>1. CASE n = 0
      BY <1>1, <2>1
    <2>2. CASE n # 0
      <3>1. n \in frames
        BY <1>1, <2>2
      <3> QED
        BY <1>1, <3>1
    <2> QED
      BY <2>1, <2>2
  <1> HIDE DEF Top
  <1>5. Open(s) = n
    BY <1>1, <1>2, <1>3, <1>4
  <1> QED
    BY <1>5 DEF Framed

(* The first instruction is one of the open frames if it is an Exit. *)
LEMMA OpenOfTail ==
    ASSUME NEW s, IsSeq(s), s # <<>>, Framed(s)
    PROVE  /\ Framed(Tail(s)) /\ Open(Tail(s)) \in Nat
           /\ Open(s) = Open(Tail(s)) + (IF Head(s).do = "exit" THEN 1 ELSE 0)
  <1> DEFINE t == Tail(s)
             m == Len(s) - 1
             n == Open(s)
             e == IF Head(s).do = "exit" THEN n - 1 ELSE n
  <1>1. /\ m \in Nat /\ DOMAIN s = 1 .. m + 1 /\ DOMAIN t = 1 .. m
        /\ \A i \in 1 .. m : t[i] = s[i + 1]
        /\ Head(s) = s[1]
    BY TailIsSeq, ZenonT(30)
  <1>2. Exiting(s, n) /\ n \in Nat
    BY DEF Framed, Exiting
  <1> HIDE DEF t, m, n
  <1>3. \A k \in DOMAIN s : k # 1 => k - 1 \in DOMAIN t /\ t[k - 1] = s[k]
    BY <1>1
  <1>4. \A k \in DOMAIN t : k + 1 \in DOMAIN s /\ t[k] = s[k + 1]
    BY <1>1
  <1>5. 1 \in DOMAIN s /\ \A k \in DOMAIN s : k # 1 => 1 < k
    BY <1>1
  <1>6. Head(s).do = "exit" => s[1].frame = n /\ n >= 1
    <2> SUFFICES ASSUME s[1].do = "exit" PROVE s[1].frame = n /\ n >= 1
      BY <1>1
    <2>1. s[1].frame \in 1 .. n
      BY <1>2, <1>5 DEF Exiting
    <2>2. n \in 1 .. n
      BY <1>2, <2>1
    <2>3. PICK k \in DOMAIN s : s[k].do = "exit" /\ s[k].frame = n
      BY <1>2, <2>2 DEF Exiting
    <2>4. k # 1 => s[k].frame < s[1].frame
      BY <1>2, <1>5, <2>3 DEF Exiting
    <2> QED
      BY <1>2, <2>1, <2>3, <2>4
  <1>7. e \in Nat
    BY <1>2, <1>6
  <1>8. \A k \in DOMAIN t : t[k].do = "exit" => t[k].frame \in 1 .. e
    <2> SUFFICES ASSUME NEW k \in DOMAIN t, t[k].do = "exit" PROVE t[k].frame \in 1 .. e
      OBVIOUS
    <2>1. k + 1 \in DOMAIN s /\ t[k] = s[k + 1] /\ 1 < k + 1
      BY <1>1, <1>4
    <2>2. t[k].frame \in 1 .. n
      BY <1>2, <2>1 DEF Exiting
    <2>3. s[1].do = "exit" => s[k + 1].frame < s[1].frame
      BY <1>2, <1>5, <2>1 DEF Exiting
    <2>4. Head(s).do = "exit" => t[k].frame < n
      BY <1>1, <1>6, <2>1, <2>3
    <2> QED
      BY <1>2, <2>2, <2>4
  <1>9. \A f \in 1 .. e : \E k \in DOMAIN t : t[k].do = "exit" /\ t[k].frame = f
    <2> SUFFICES ASSUME NEW f \in 1 .. e PROVE \E k \in DOMAIN t : t[k].do = "exit" /\ t[k].frame = f
      OBVIOUS
    <2>1. f \in 1 .. n /\ (Head(s).do = "exit" => f # n)
      BY <1>2
    <2>2. PICK k \in DOMAIN s : s[k].do = "exit" /\ s[k].frame = f
      BY <1>2, <2>1 DEF Exiting
    <2>3. k # 1
      BY <1>1, <1>6, <2>1, <2>2
    <2> QED
      BY <1>3, <2>2, <2>3
  <1>10. \A k, l \in DOMAIN t :
           k < l /\ t[k].do = "exit" /\ t[l].do = "exit" => t[l].frame < t[k].frame
    <2> SUFFICES ASSUME NEW k \in DOMAIN t, NEW l \in DOMAIN t,
                        k < l, t[k].do = "exit", t[l].do = "exit"
                 PROVE  t[l].frame < t[k].frame
      OBVIOUS
    <2>1. k + 1 < l + 1
      BY <1>1
    <2> QED
      BY <1>2, <1>4, <2>1 DEF Exiting
  <1>11. Exiting(t, e)
    <2> HIDE DEF e
    <2> QED
      BY <1>7, <1>8, <1>9, <1>10 DEF Exiting
  <1>12. Open(t) = e /\ Framed(t)
    <2> HIDE DEF e
    <2> QED
      BY <1>11, OpenIs
  <1>13. n = e + (IF Head(s).do = "exit" THEN 1 ELSE 0)
    BY <1>2
  <1> QED
    BY <1>7, <1>12, <1>13 DEF t, n

(* No Exit, no open frame. *)
LEMMA NoExitsIsZero ==
    ASSUME NEW s, \A k \in DOMAIN s : s[k].do # "exit"
    PROVE  Open(s) = 0 /\ Framed(s)
  <1>1. Exiting(s, 0)
    BY DEF Exiting
  <1> QED
    BY <1>1, OpenIs

(* The first instruction is replaced by ones without an Exit, or by a      *)
(* program that ends with the Exit of one more frame.                      *)
LEMMA PushKeepsFramed ==
    ASSUME NEW b, IsSeq(b), Framed(b), NEW a, IsSeq(a), NEW e \in {0, 1},
           \A k \in DOMAIN a : a[k].do = "exit" <=> e = 1 /\ k = Len(a),
           e = 1 => a # <<>> /\ a[Len(a)].frame = Open(b) + 1
    PROVE  Framed(a \o b) /\ Open(a \o b) = Open(b) + e
  <1> DEFINE t == a \o b
             n == Len(a)
             m == Len(b)
             c == Open(b)
  <1>1. /\ n \in Nat /\ m \in Nat /\ DOMAIN a = 1 .. n /\ DOMAIN b = 1 .. m /\ DOMAIN t = 1 .. n + m
        /\ \A i \in 1 .. n : t[i] = a[i]
        /\ \A i \in 1 .. m : t[n + i] = b[i]
    BY ConcatIsSeq
  <1>2. Exiting(b, c) /\ c \in Nat
    BY DEF Framed, Exiting
  <1>3. e = 1 => n \in DOMAIN a /\ a[n].do = "exit" /\ a[n].frame = c + 1
    <2>1. e = 1 => n # 0
      BY DEF IsSeq
    <2> QED
      BY <1>1, <2>1
  <1> HIDE DEF t, m, c
  <1>4. ASSUME NEW k \in DOMAIN t, t[k].do = "exit"
        PROVE  \/ e = 1 /\ k = n /\ t[k].frame = c + 1
               \/ k > n /\ k - n \in DOMAIN b /\ t[k] = b[k - n] /\ t[k].frame \in 1 .. c
    <2>1. CASE k <= n
      BY <1>1, <1>3, <1>4, <2>1
    <2>2. CASE k > n
      <3>1. k - n \in 1 .. m /\ n + (k - n) = k
        BY <1>1, <2>2
      <3>2. t[k] = b[k - n] /\ k - n \in DOMAIN b
        BY <1>1, <3>1
      <3> QED
        BY <1>2, <1>4, <2>2, <3>2 DEF Exiting
    <2> QED
      BY <1>1, <2>1, <2>2
  <1>5. \A k \in DOMAIN t : t[k].do = "exit" => t[k].frame \in 1 .. c + e
    BY <1>2, <1>4
  <1>6. ASSUME NEW f \in 1 .. c + e PROVE \E k \in DOMAIN t : t[k].do = "exit" /\ t[k].frame = f
    <2>1. CASE f \in 1 .. c
      <3>1. PICK k \in DOMAIN b : b[k].do = "exit" /\ b[k].frame = f
        BY <1>2, <2>1 DEF Exiting
      <3>2. n + k \in DOMAIN t /\ t[n + k] = b[k]
        BY <1>1
      <3> QED
        BY <3>1, <3>2
    <2>2. CASE f \notin 1 .. c
      <3>1. e = 1 /\ f = c + 1
        BY <1>2, <2>2
      <3> QED
        BY <1>1, <1>3, <3>1
    <2> QED
      BY <2>1, <2>2
  <1>7. ASSUME NEW k \in DOMAIN t, NEW l \in DOMAIN t, k < l, t[k].do = "exit", t[l].do = "exit"
        PROVE  t[l].frame < t[k].frame
    <2>1. l > n /\ l - n \in DOMAIN b /\ t[l] = b[l - n] /\ t[l].frame \in 1 .. c
      BY <1>1, <1>4, <1>7
    <2>2. CASE e = 1 /\ k = n /\ t[k].frame = c + 1
      BY <1>2, <2>1, <2>2
    <2>3. CASE k - n \in DOMAIN b /\ t[k] = b[k - n]
      <3>1. k - n < l - n
        BY <1>1, <1>7
      <3> QED
        BY <1>2, <1>7, <2>1, <2>3, <3>1, SMTT(30) DEF Exiting
    <2> QED
      BY <1>4, <1>7, <2>2, <2>3
  <1>8. c + e \in Nat
    BY <1>2
  <1>9. Exiting(t, c + e)
    BY <1>5, <1>6, <1>7, <1>8 DEF Exiting
  <1> QED
    BY <1>9, OpenIs DEF t, c

(* The first instruction of a clean program is replaced. *)
LEMMA PushKeepsClean ==
    ASSUME NEW s, IsSeq(s), s # <<>>, Clean(s), NEW a, Pushable(a)
    PROVE  IsSeq(a \o Tail(s)) /\ Clean(a \o Tail(s))
  <1> DEFINE t == a \o Tail(s)
             n == Len(a)
             m == Len(s) - 1
  <1>1. /\ IsSeq(Tail(s)) /\ m \in Nat /\ DOMAIN s = 1 .. m + 1
        /\ Len(Tail(s)) = m /\ DOMAIN Tail(s) = 1 .. m
        /\ \A i \in 1 .. m : Tail(s)[i] = s[i + 1]
    BY TailIsSeq, ZenonT(30)
  <1>2. /\ IsSeq(t) /\ n \in Nat /\ DOMAIN a = 1 .. n /\ DOMAIN t = 1 .. n + m
        /\ \A i \in 1 .. n : t[i] = a[i]
        /\ \A i \in 1 .. m : t[n + i] = s[i + 1]
    BY <1>1, ConcatIsSeq DEF Pushable
  <1> HIDE DEF t, n, m
  <1>3. ASSUME NEW k \in DOMAIN t
        PROVE  \/ k \in 1 .. n /\ Good(t[k]) /\ t[k].do \notin Outside
               \/ k > n /\ k - n + 1 \in DOMAIN s /\ t[k] = s[k - n + 1]
    <2>1. CASE k <= n
      BY <1>2, <2>1 DEF Pushable
    <2>2. CASE k > n
      <3>1. k - n \in 1 .. m /\ n + (k - n) = k
        BY <1>1, <1>2, <2>2
      <3>2. t[n + (k - n)] = s[(k - n) + 1]
        BY <1>2, <3>1
      <3> QED
        BY <1>1, <1>2, <2>2, <3>1, <3>2
    <2> QED
      BY <1>2, <2>1, <2>2
  <1>4. \A k \in DOMAIN t : Good(t[k]) /\ t[k].do # "refuse"
    BY <1>3 DEF Clean, Outside
  <1>5. \A k, l \in DOMAIN t : k < l /\ t[k].do \in Outside => t[l].do # "exit"
    <2> SUFFICES ASSUME NEW k \in DOMAIN t, NEW l \in DOMAIN t, k < l, t[k].do \in Outside
                 PROVE  t[l].do # "exit"
      OBVIOUS
    <2>1. k > n /\ k - n + 1 \in DOMAIN s /\ t[k] = s[k - n + 1]
      BY <1>3
    <2>2. l > n /\ l - n + 1 \in DOMAIN s /\ t[l] = s[l - n + 1]
      BY <1>2, <1>3, <2>1
    <2>3. k - n + 1 < l - n + 1
      BY <1>2
    <2> QED
      BY <2>1, <2>2, <2>3 DEF Clean
  <1> QED
    BY <1>2, <1>4, <1>5, ZenonT(30) DEF t, Clean

(* A clean program is not the one left after an error. *)
LEMMA CleanRuns == ASSUME NEW s, IsSeq(s), Clean(s) PROVE ~Unwinding(s)
  <1>1. s # <<>> => Len(s) \in DOMAIN s
    BY DEF IsSeq
  <1> QED
    BY <1>1 DEF Clean, Unwinding

(* An Exit is executed. *)
LEMMA PopExit ==
    ASSUME NEW s, Instructions(s), s # <<>>, Head(s).do = "exit"
    PROVE  /\ Instructions(Tail(s))
           /\ Unwinding(s) <=> Unwinding(Tail(s))
           /\ Unwinding(s) => Tail(s)[Len(Tail(s))] = s[Len(s)]
  <1> DEFINE t == Tail(s)
             m == Len(s) - 1
  <1>1. /\ IsSeq(t) /\ m \in Nat /\ DOMAIN s = 1 .. m + 1 /\ Len(s) = m + 1
        /\ Len(t) = m /\ DOMAIN t = 1 .. m
        /\ \A i \in 1 .. m : t[i] = s[i + 1]
        /\ Head(s) = s[1]
    BY TailIsSeq, ZenonT(30) DEF Instructions
  <1>0. Framed(t)
    BY OpenOfTail DEF Instructions
  <1> HIDE DEF t, m
  <1>2. CASE Clean(s)
    <2>1. Clean(t)
      <3>1. \A k \in DOMAIN t : Good(t[k]) /\ t[k].do # "refuse"
        BY <1>1, <1>2 DEF Clean
      <3>2. \A k, l \in DOMAIN t : k < l /\ t[k].do \in Outside => t[l].do # "exit"
        <4> SUFFICES ASSUME NEW k \in DOMAIN t, NEW l \in DOMAIN t, k < l, t[k].do \in Outside
                     PROVE  t[l].do # "exit"
          OBVIOUS
        <4>1. /\ k + 1 \in DOMAIN s /\ l + 1 \in DOMAIN s /\ k + 1 < l + 1
              /\ t[k] = s[k + 1] /\ t[l] = s[l + 1]
          BY <1>1
        <4> QED
          BY <1>2, <4>1 DEF Clean
      <3> QED
        BY <3>1, <3>2 DEF Clean
    <2>2. ~Unwinding(s) /\ ~Unwinding(t)
      BY <1>1, <1>2, <2>1, CleanRuns DEF Instructions
    <2> QED
      BY <1>0, <1>1, <2>1, <2>2 DEF Instructions, t
  <1>3. CASE Unwinding(s)
    <2>1. m >= 1
      BY <1>1, <1>3 DEF Unwinding
    <2>2. t # <<>> /\ t[m] = s[m + 1] /\ \A k \in 1 .. m - 1 : t[k] = s[k + 1]
      BY <1>1, <2>1
    <2>3. Unwinding(t)
      BY <1>1, <1>3, <2>1, <2>2 DEF Unwinding
    <2> QED
      BY <1>0, <1>1, <1>3, <2>2, <2>3 DEF Instructions, t
  <1> QED
    BY <1>2, <1>3, ZenonT(30) DEF Instructions

(* An error leaves the deferred Exits and the refusal. *)
LEMMA UnwindIs ==
    ASSUME NEW r \in Requests, DOMAIN todo = Requests, Instructions(todo[r]), todo[r] # <<>>,
           NEW why, Unwind(r, why)
    PROVE  /\ Instructions(todo'[r]) /\ Unwinding(todo'[r])
           /\ todo'[r][Len(todo'[r])].why = why
           /\ Open(todo'[r]) = Open(Tail(todo[r]))
           /\ DOMAIN todo' = Requests
           /\ \A q \in Requests \ {r} : todo'[q] = todo[q]
  <1> DEFINE n == Open(Tail(todo[r]))
             d == [i \in 1 .. n |-> Exit(n + 1 - i)]
             e == [do |-> "refuse", why |-> why]
             t == Append(d, e)
             S == {Exit(f) : f \in 1 .. n} \cup {e}
  <1>1. n \in Nat
    BY OpenOfTail DEF Instructions
  <1>2. /\ todo'[r] = t /\ DOMAIN todo' = Requests
        /\ \A q \in Requests \ {r} : todo'[q] = todo[q]
    BY ZenonT(30) DEF Unwind
  <1> HIDE DEF n
  <1>3. \A i \in 1 .. n : n + 1 - i \in 1 .. n
    BY <1>1
  <1>4. d \in Seq(S) /\ Len(d) = n /\ \A i \in 1 .. n : d[i] = Exit(n + 1 - i)
    BY <1>1, <1>3
  <1>5. /\ t \in Seq(S) /\ Len(t) = n + 1 /\ t[n + 1] = e /\ \A i \in 1 .. n : t[i] = d[i]
    <2>1. e \in S
      OBVIOUS
    <2> HIDE DEF d, e, S
    <2> QED
      BY <1>1, <1>4, <2>1
  <1>6. DOMAIN t = 1 .. n + 1 /\ t # <<>>
    <2> HIDE DEF t, S
    <2> QED
      BY <1>1, <1>5
  <1>7. /\ t[n + 1].do = "refuse" /\ t[n + 1].why = why
        /\ \A i \in 1 .. n : t[i].do = "exit" /\ t[i].frame = n + 1 - i
    <2>1. e.do = "refuse" /\ e.why = why
      OBVIOUS
    <2>2. \A f : Exit(f).do = "exit" /\ Exit(f).frame = f
      BY DEF Exit
    <2> HIDE DEF t, d, e, S
    <2> QED
      BY <1>4, <1>5, <2>1, <2>2
  <1>8. IsSeq(t)
    BY <1>5, SeqIsSeq, ZenonT(30)
  <1> HIDE DEF t, d, e, S
  <1>9. Unwinding(t)
    BY <1>1, <1>5, <1>6, <1>7 DEF Unwinding
  <1>10. Exiting(t, n)
    <2>1. \A k \in DOMAIN t : t[k].do = "exit" => k \in 1 .. n
      BY <1>1, <1>6, <1>7
    <2>2. \A f \in 1 .. n : n + 1 - f \in DOMAIN t /\ t[n + 1 - f].do = "exit" /\ t[n + 1 - f].frame = f
      BY <1>1, <1>3, <1>6, <1>7
    <2>3. \A k \in DOMAIN t : t[k].do = "exit" => t[k].frame \in 1 .. n
      BY <1>3, <1>7, <2>1
    <2>4. \A k, l \in DOMAIN t :
            k < l /\ t[k].do = "exit" /\ t[l].do = "exit" => t[l].frame < t[k].frame
      BY <1>1, <1>7, <2>1
    <2> QED
      BY <1>1, <2>2, <2>3, <2>4 DEF Exiting
  <1>11. Open(t) = n /\ Framed(t)
    BY <1>10, OpenIs
  <1> QED
    BY <1>2, <1>5, <1>7, <1>8, <1>9, <1>11 DEF Instructions, n

(* An instruction that calls for nothing is removed. *)
LEMMA PopIsTail == ASSUME NEW s, IsSeq(s), s # <<>> PROVE <<>> \o Tail(s) = Tail(s)
  <1>1. Tail(s) \in Seq(Range(s))
    BY DEF IsSeq
  <1> QED
    BY <1>1

(* What is known of the instruction a request is at. *)
LEMMA FirstInstruction ==
    ASSUME NEW s, Instructions(s), s # <<>>
    PROVE  /\ Head(s).do \notin {"exit", "refuse"} => Clean(s) /\ Good(Head(s))
           /\ Head(s).do = "refuse" => Unwinding(s) /\ Head(s) = s[Len(s)]
           /\ Head(s).do \in Outside => Open(s) = 0
  <1>1. IsSeq(s) /\ Len(s) \in Nat /\ DOMAIN s = 1 .. Len(s)
    BY DEF Instructions, IsSeq
  <1>2. Head(s) = s[1] /\ 1 \in DOMAIN s /\ Len(s) \in DOMAIN s
    BY <1>1, TailIsSeq, ZenonT(30)
  <1>3. ASSUME Unwinding(s)
        PROVE  \/ Len(s) # 1 /\ Head(s).do = "exit"
               \/ Len(s) = 1 /\ Head(s).do = "refuse"
    BY <1>1, <1>2, <1>3 DEF Unwinding
  <1>4. ASSUME Head(s).do \notin {"exit", "refuse"} PROVE Clean(s) /\ Good(Head(s))
    BY <1>1, <1>2, <1>3, <1>4 DEF Instructions, Clean
  <1>5. ASSUME Head(s).do = "refuse" PROVE Unwinding(s) /\ Len(s) = 1
    BY <1>1, <1>2, <1>3, <1>5 DEF Instructions, Clean
  <1>6. ASSUME Head(s).do \in Outside PROVE Open(s) = 0
    <2>1. \A k \in DOMAIN s : s[k].do # "exit"
      <3>1. CASE Head(s).do = "refuse"
        BY <1>1, <1>2, <1>5, <3>1
      <3>2. CASE Head(s).do # "refuse"
        <4>1. Clean(s) /\ s[1].do \in Outside /\ s[1].do # "exit"
          BY <1>2, <1>4, <1>6, <3>2 DEF Outside
        <4>2. \A k \in DOMAIN s : k = 1 \/ 1 < k
          BY <1>1
        <4> QED
          BY <1>2, <4>1, <4>2 DEF Clean
      <3> QED
        BY <3>1, <3>2
    <2> QED
      BY <2>1, NoExitsIsZero
  <1> QED
    BY <1>2, <1>4, <1>5, <1>6

\* An instruction that may be pushed and is not the end of a frame.
Inner(x, n) ==
    Good(x) /\ x.do \notin Outside /\ x.do # "exit" /\ (x.do \in HasDepth => n <= Frames(x))

(* Programs that may be put in front of the rest: none, one, two or three  *)
(* instructions, and one more after them.                                  *)
LEMMA PushNone ==
    /\ Pushable(<<>>) /\ Open(<<>>) = 0 /\ Framed(<<>>) /\ Clean(<<>>)
    /\ \A n : Pushed(<<>>, n)
  <1>1. <<>> \in Seq({}) /\ DOMAIN <<>> = {}
    OBVIOUS
  <1>2. IsSeq(<<>>)
    BY <1>1, SeqIsSeq, ZenonT(30)
  <1> QED
    BY <1>1, <1>2, NoExitsIsZero DEF Pushable, Pushed, Clean

(* One instruction, ... *)
LEMMA PushOne == ASSUME NEW n, NEW x, Inner(x, n) PROVE Pushed(<<x>>, n)
  <1>1. <<x>> \in Seq({x})
    OBVIOUS
  <1>2. IsSeq(<<x>>)
    BY <1>1, SeqIsSeq, ZenonT(30)
  <1>3. \A k \in DOMAIN <<x>> : <<x>>[k] = x
    OBVIOUS
  <1> QED
    BY <1>2, <1>3 DEF Pushable, Pushed, Inner

(* ... two of them, ... *)
LEMMA PushTwo ==
    ASSUME NEW n, NEW x, NEW y, Inner(x, n), Inner(y, n)
    PROVE  Pushed(<<x, y>>, n)
  <1>1. <<x, y>> \in Seq({x, y})
    OBVIOUS
  <1>2. IsSeq(<<x, y>>)
    BY <1>1, SeqIsSeq, ZenonT(30)
  <1>3. \A k \in DOMAIN <<x, y>> : Inner(<<x, y>>[k], n)
    OBVIOUS
  <1> QED
    BY <1>2, <1>3 DEF Pushable, Pushed, Inner

(* ... or three may be put in front when each is inside the open frames. *)
LEMMA PushThree ==
    ASSUME NEW n, NEW x, NEW y, NEW z, Inner(x, n), Inner(y, n), Inner(z, n)
    PROVE  Pushed(<<x, y, z>>, n)
  <1>1. <<x, y, z>> \in Seq({x, y, z})
    OBVIOUS
  <1>2. IsSeq(<<x, y, z>>)
    BY <1>1, SeqIsSeq, ZenonT(30)
  <1>3. \A k \in DOMAIN <<x, y, z>> : Inner(<<x, y, z>>[k], n)
    OBVIOUS
  <1> QED
    BY <1>2, <1>3 DEF Pushable, Pushed, Inner

(* The elements of a sequence that is appended to. *)
LEMMA AppendIs ==
    ASSUME NEW a, IsSeq(a), NEW x
    PROVE  IsSeq(<<x>>) /\ Append(a, x) = a \o <<x>>
  <1> DEFINE S == Range(a) \cup {x}
  <1>1. a \in Seq(S) /\ x \in S
    BY DEF IsSeq
  <1> HIDE DEF S
  <1>2. <<x>> \in Seq(S)
    BY <1>1
  <1>3. IsSeq(<<x>>)
    BY <1>2, SeqIsSeq, ZenonT(30)
  <1>4. Append(a, x) = a \o <<x>>
    BY <1>1, <1>2
  <1> QED
    BY <1>3, <1>4

(* An instruction may be appended to what may be pushed, ... *)
LEMMA PushAppend ==
    ASSUME NEW a, Pushable(a), NEW x, Good(x), x.do \notin Outside
    PROVE  /\ Pushable(Append(a, x))
           /\ Len(a) \in Nat /\ DOMAIN Append(a, x) = 1 .. Len(a) + 1
           /\ \A i \in 1 .. Len(a) : Append(a, x)[i] = a[i]
           /\ Append(a, x)[Len(a) + 1] = x
  <1> DEFINE t == a \o <<x>>
             n == Len(a)
  <1>1. IsSeq(a) /\ IsSeq(<<x>>) /\ Append(a, x) = t /\ Len(<<x>>) = 1 /\ <<x>>[1] = x
    BY AppendIs DEF Pushable
  <1>2. /\ IsSeq(t) /\ n \in Nat /\ DOMAIN a = 1 .. n /\ DOMAIN t = 1 .. n + 1
        /\ \A i \in 1 .. n : t[i] = a[i]
        /\ t[n + 1] = x
    BY <1>1, ConcatIsSeq
  <1> HIDE DEF t, n
  <1>3. Pushable(t)
    <2>1. \A k \in DOMAIN t : (k \in DOMAIN a /\ t[k] = a[k]) \/ t[k] = x
      BY <1>2
    <2> QED
      BY <1>2, <2>1 DEF Pushable
  <1> QED
    BY <1>1, <1>2, <1>3 DEF n

(* ... also within the frames open around it. *)
LEMMA PushedAppend ==
    ASSUME NEW n, NEW a, Pushed(a, n), NEW x, Inner(x, n)
    PROVE  Pushed(Append(a, x), n)
  <1> DEFINE t == Append(a, x)
  <1>1. /\ Pushable(t)
        /\ Len(a) \in Nat /\ DOMAIN t = 1 .. Len(a) + 1
        /\ \A i \in 1 .. Len(a) : t[i] = a[i]
        /\ t[Len(a) + 1] = x
    BY PushAppend DEF Inner, Pushed
  <1>2. DOMAIN a = 1 .. Len(a)
    BY DEF Pushed, Pushable, IsSeq
  <1> HIDE DEF t
  <1>3. \A k \in DOMAIN t : (k \in DOMAIN a /\ t[k] = a[k]) \/ t[k] = x
    BY <1>1, <1>2
  <1>4. Pushed(t, n)
    BY <1>1, <1>3 DEF Pushed, Inner
  <1> QED
    BY <1>4 DEF t

(* The body of a frame and its Exit. *)
LEMMA PushBody ==
    ASSUME NEW x, Inner(x, 0), NEW f
    PROVE  LET a == Append(<<x>>, Exit(f))
           IN  /\ Pushable(a) /\ Len(a) = 2 /\ DOMAIN a = {1, 2}
               /\ a[1] = x /\ a[2].do = "exit" /\ a[2].frame = f
  <1>1. Good(Exit(f)) /\ Exit(f).do = "exit" /\ Exit(f).frame = f /\ Exit(f).do \notin Outside
    BY DEF Exit, Good, Outside, HasDepth
  <1>2. Pushable(<<x>>) /\ Len(<<x>>) = 1 /\ <<x>>[1] = x
    BY PushOne DEF Pushed
  <1> DEFINE a == Append(<<x>>, Exit(f))
  <1>3. /\ Pushable(a) /\ DOMAIN a = 1 .. 1 + 1
        /\ \A i \in 1 .. 1 : a[i] = <<x>>[i]
        /\ a[1 + 1] = Exit(f)
    BY <1>1, <1>2, PushAppend
  <1> HIDE DEF a
  <1>4. IsSeq(a) /\ DOMAIN a = 1 .. 2
    BY <1>3 DEF Pushable
  <1>5. Len(a) = 2
    BY <1>4 DEF IsSeq
  <1>6. DOMAIN a = {1, 2} /\ a[1] = x /\ a[2] = Exit(f)
    BY <1>2, <1>3
  <1> QED
    BY <1>1, <1>3, <1>5, <1>6 DEF a

(* What an instruction leaves: the frames that were open ... *)
LEMMA PushIs ==
    ASSUME NEW s, Instructions(s), s # <<>>, Clean(s), NEW n, NEW a, Pushed(a, n)
    PROVE  LET t == a \o Tail(s)
           IN  Instructions(t) /\ Clean(t) /\ ~Unwinding(t) /\ Open(t) = Open(Tail(s))
  <1> DEFINE b == Tail(s)
             t == a \o b
  <1>1. IsSeq(s) /\ Pushable(a) /\ IsSeq(a) /\ \A k \in DOMAIN a : a[k].do # "exit"
    BY DEF Instructions, Pushed, Pushable
  <1>2. IsSeq(b) /\ Framed(b) /\ Open(b) \in Nat
    BY <1>1, TailIsSeq, OpenOfTail DEF Instructions
  <1>3. IsSeq(t) /\ Clean(t)
    BY <1>1, PushKeepsClean
  <1> HIDE DEF b
  <1>4. Framed(t) /\ Open(t) = Open(b) + 0
    BY <1>1, <1>2, PushKeepsFramed
  <1> HIDE DEF t
  <1>5. ~Unwinding(t)
    BY <1>3, CleanRuns
  <1>6. Instructions(t) /\ Open(t) = Open(b)
    BY <1>2, <1>3, <1>4 DEF Instructions
  <1> QED
    BY <1>3, <1>5, <1>6 DEF t, b

(* ... and the one it opens. *)
LEMMA BodyIs ==
    ASSUME NEW s, Instructions(s), s # <<>>, Head(s).do = "enter"
    PROVE  LET t == Append(Head(s).body, Exit(Open(Tail(s)) + 1)) \o Tail(s)
           IN  Instructions(t) /\ Clean(t) /\ ~Unwinding(t) /\ Open(t) = Open(Tail(s)) + 1
  <1> DEFINE b == Tail(s)
             f == Open(b) + 1
             a == Append(Head(s).body, Exit(f))
             t == a \o b
  <1>1. IsSeq(s) /\ Clean(s) /\ Good(Head(s))
    BY FirstInstruction DEF Instructions
  <1>2. IsSeq(b) /\ Framed(b) /\ Open(b) \in Nat
    BY <1>1, TailIsSeq, OpenOfTail DEF Instructions
  <1> HIDE DEF b, f
  <1>3. PICK x : Head(s).body = <<x>> /\ x.do \in {"eval", "steps"} /\ x.depth \in Nat
    BY <1>1 DEF Good, HasDepth
  <1>4. Inner(x, 0)
    BY <1>3 DEF Inner, Good, Outside, Frames
  <1>5. /\ Pushable(a) /\ Len(a) = 2 /\ DOMAIN a = {1, 2}
        /\ a[1] = x /\ a[2].do = "exit" /\ a[2].frame = f
    <2> DEFINE c == Append(<<x>>, Exit(f))
    <2>1. /\ Pushable(c) /\ Len(c) = 2 /\ DOMAIN c = {1, 2}
          /\ c[1] = x /\ c[2].do = "exit" /\ c[2].frame = f
      BY <1>4, PushBody
    <2>2. a = c
      BY <1>3, ZenonT(30)
    <2> HIDE DEF a, c
    <2> QED
      BY <2>1, <2>2
  <1> HIDE DEF a
  <1>6. IsSeq(t) /\ Clean(t)
    BY <1>1, <1>5, PushKeepsClean DEF b
  <1>7. Framed(t) /\ Open(t) = Open(b) + 1
    <2>1. \A k \in DOMAIN a : a[k].do = "exit" <=> 1 = 1 /\ k = Len(a)
      BY <1>3, <1>5
    <2>2. IsSeq(a) /\ a # <<>> /\ a[Len(a)].frame = Open(b) + 1
      BY <1>5 DEF Pushable, f
    <2> QED
      BY <1>2, <2>1, <2>2, PushKeepsFramed
  <1> HIDE DEF t
  <1>8. ~Unwinding(t)
    BY <1>6, CleanRuns
  <1>9. Instructions(t)
    BY <1>6, <1>7 DEF Instructions
  <1> QED
    BY <1>6, <1>7, <1>8, <1>9 DEF t, a, f, b

(* The calls of Budget.Step, EvalCondition and runSteps are such programs. *)
LEMMA StepIsInner == \A n : Inner(Step, n)
  BY DEF Inner, Good, Step, Outside, HasDepth

(* The call of EvalCondition lies within the frames open around it, ... *)
LEMMA CondIsInner ==
    ASSUME NEW c, NEW depth \in Nat, NEW n, n <= depth, NEW x, Inner(x, n)
    PROVE  Pushed(Append(EvalCondition(c, depth), x), n)
  <1> DEFINE b == [do |-> "eval", c |-> c, depth |-> depth]
             e == Enter(depth, <<b>>)
  <1>1. b.do = "eval" /\ b.depth = depth
    OBVIOUS
  <1>2. EvalCondition(c, depth) = <<Step, e>>
    BY DEF EvalCondition
  <1> HIDE DEF b
  <1>3. Inner(e, n)
    <2>1. e.do = "enter" /\ e.depth = depth /\ e.body = <<b>> /\ Frames(e) = depth
      BY DEF Enter, Frames
    <2> QED
      BY <1>1, <2>1 DEF Inner, Good, Outside
  <1> HIDE DEF e
  <1>4. Pushed(<<Step, e>>, n)
    BY <1>3, StepIsInner, PushTwo
  <1> QED
    BY <1>2, <1>4, PushedAppend

(* ... and so does the call of runSteps. *)
LEMMA StepsAreInner ==
    ASSUME NEW l, NEW depth \in Nat, NEW n, n <= depth
    PROVE  Pushed(RunSteps(l, depth), n)
  <1> DEFINE b == [do |-> "steps", steps |-> l, depth |-> depth]
             e == Enter(depth, <<b>>)
  <1>1. b.do = "steps" /\ b.depth = depth
    OBVIOUS
  <1>2. RunSteps(l, depth) = <<e>>
    BY DEF RunSteps
  <1> HIDE DEF b
  <1>3. Inner(e, n)
    <2>1. e.do = "enter" /\ e.depth = depth /\ e.body = <<b>> /\ Frames(e) = depth
      BY DEF Enter, Frames
    <2> QED
      BY <1>1, <2>1 DEF Inner, Good, Outside
  <1> HIDE DEF e
  <1> QED
    BY <1>2, <1>3, PushOne

\* A program without frames, open or deferred.
Plain(s) == IsSeq(s) /\ \A k \in DOMAIN s : Good(s[k]) /\ s[k].do \notin {"exit", "refuse"}

(* An instruction other than Exit and the refusal is plain, ... *)
LEMMA PlainOne == ASSUME NEW x, Good(x), x.do \notin {"exit", "refuse"} PROVE Plain(<<x>>)
  <1>1. <<x>> \in Seq({x}) /\ \A k \in DOMAIN <<x>> : <<x>>[k] = x
    OBVIOUS
  <1> QED
    BY <1>1, SeqIsSeq, ZenonT(30) DEF Plain

(* ... and so are plain instructions one after the other. *)
LEMMA PlainConcat == ASSUME NEW a, NEW b, Plain(a), Plain(b) PROVE Plain(a \o b)
  <1> DEFINE t == a \o b
             n == Len(a)
  <1>1. /\ IsSeq(t) /\ n \in Nat /\ Len(b) \in Nat
        /\ DOMAIN a = 1 .. n /\ DOMAIN b = 1 .. Len(b) /\ DOMAIN t = 1 .. n + Len(b)
        /\ \A i \in 1 .. n : t[i] = a[i]
        /\ \A i \in 1 .. Len(b) : t[n + i] = b[i]
    BY ConcatIsSeq DEF Plain
  <1> HIDE DEF t, n
  <1>2. ASSUME NEW k \in DOMAIN t
        PROVE  (k \in DOMAIN a /\ t[k] = a[k]) \/ (k - n \in DOMAIN b /\ t[k] = b[k - n])
    <2>1. CASE k <= n
      BY <1>1, <2>1
    <2>2. CASE k > n
      <3>1. k - n \in 1 .. Len(b) /\ n + (k - n) = k
        BY <1>1, <2>2
      <3> QED
        BY <1>1, <3>1
    <2> QED
      BY <1>1, <2>1, <2>2
  <1>3. Plain(t)
    BY <1>1, <1>2 DEF Plain
  <1> QED
    BY <1>3 DEF t

(* What a request starts with. *)
LEMMA DecideIs ==
    ASSUME NEW rule
    PROVE  /\ Instructions(Decide(rule)) /\ ~Unwinding(Decide(rule)) /\ Clean(Decide(rule))
           /\ Open(Decide(rule)) = 0
  <1> DEFINE b == [do |-> "eval", c |-> rule.cond, depth |-> 0]
             f == [do |-> "steps", steps |-> rule.flow, depth |-> 0]
             c == Enter(0, <<b>>)
             w == Enter(0, <<f>>)
             q == [do |-> "require"]
             a == [do |-> "allow"]
             x == IF rule.cond = None THEN <<>> ELSE <<Step, c>> \o <<q>>
             y == IF rule.hasFlow THEN <<w>> ELSE <<>>
             t == Decide(rule)
  <1>1. Good(Step) /\ Step.do = "step"
    BY DEF Good, Step, HasDepth
  <1>2. Good(c) /\ c.do = "enter" /\ Good(w) /\ w.do = "enter"
    <2>1. b.do = "eval" /\ b.depth = 0 /\ f.do = "steps" /\ f.depth = 0
      OBVIOUS
    <2> HIDE DEF b, f
    <2> QED
      BY <2>1 DEF Good, Enter, HasDepth
  <1>3. Good(q) /\ q.do = "require" /\ Good(a) /\ a.do = "allow"
    BY DEF Good, HasDepth
  <1>4. t = (x \o y) \o <<a>>
    BY DEF Decide, EvalCondition, RunSteps
  <1>5. Plain(<<>>)
    BY PushNone DEF Pushable, Plain
  <1> HIDE DEF b, f, c, w, q, a, t
  <1>6. Plain(x)
    <2>1. <<Step, c>> \in Seq({Step, c}) /\ \A k \in DOMAIN <<Step, c>> : <<Step, c>>[k] \in {Step, c}
      OBVIOUS
    <2>2. IsSeq(<<Step, c>>)
      BY <2>1, SeqIsSeq, ZenonT(30)
    <2>3. Plain(<<Step, c>>)
      BY <1>1, <1>2, <2>1, <2>2 DEF Plain
    <2>4. Plain(<<q>>)
      BY <1>3, PlainOne
    <2> QED
      BY <1>5, <2>3, <2>4, PlainConcat
  <1>7. Plain(y)
    BY <1>2, <1>5, PlainOne
  <1> HIDE DEF x, y
  <1>8. Plain(x \o y) /\ Plain(<<a>>)
    BY <1>3, <1>6, <1>7, PlainConcat, PlainOne
  <1>9. Plain(t)
    BY <1>4, <1>8, PlainConcat
  <1>10. Clean(t) /\ Open(t) = 0 /\ Framed(t)
    BY <1>9, NoExitsIsZero DEF Plain, Clean
  <1>11. Instructions(t) /\ ~Unwinding(t)
    BY <1>9, <1>10, CleanRuns DEF Plain, Instructions
  <1> QED
    BY <1>10, <1>11 DEF t

--------------------------------------------------------------------------------
(* What is true of one request: its instructions are those above, its      *)
(* plugin exists while it has any, a refusal for steps, pending or         *)
(* answered, is backed by the steps charged, and the counter it has loaded *)
(* is no larger than the steps charged.                                    *)
ReqInv(r) ==
    /\ Instructions(todo[r])
    /\ todo[r] # <<>> => PluginOf(r) \in Plugins /\ "cn" \in DOMAIN req[r]
    /\ Unwinding(todo[r]) /\ todo[r][Len(todo[r])].why = "steps" => charged[PluginOf(r)] > MaxSteps
    /\ answer[r] = "steps" => PluginOf(r) \in Plugins /\ charged[PluginOf(r)] > MaxSteps
    /\ reg[r] # None =>
         /\ reg[r] \in Nat /\ todo[r] # <<>> /\ Head(todo[r]).do \in Counting
         /\ Head(todo[r]).do = "step" => reg[r] <= charged[PluginOf(r)]
         /\ Head(todo[r]).do = "enter" => Head(todo[r]).depth <= MaxDepth

GShape ==
    /\ DOMAIN todo = Requests /\ DOMAIN reg = Requests
    /\ DOMAIN answer = Requests /\ DOMAIN req = Requests
    /\ steps \in [Plugins -> Nat] /\ nesting \in [Plugins -> Nat] /\ charged \in [Plugins -> Nat]
    /\ \A p \in Plugins : steps[p] <= charged[p]

GInv == GShape /\ \A r \in Requests : ReqInv(r)

\* The request keeps its client; what it knows may change.
SameClient(r) ==
    /\ DOMAIN req' = Requests /\ DOMAIN req'[r] = DOMAIN req[r] /\ PluginOf(r)' = PluginOf(r)
    /\ \A q \in Requests \ {r} : req'[q] = req[q]

\* The steps of a request that touch no budget: an instruction is replaced ...
Moves(r) ==
    /\ todo[r] # <<>> /\ Head(todo[r]).do \notin Counting \cup {"refuse"}
    /\ \E a : /\ Pushed(a, Frames(Head(todo[r]))) /\ Continue(r, a)
              /\ a = <<>> \/ Head(todo[r]).do \in HasDepth
    /\ SameClient(r) /\ UNCHANGED <<steps, nesting, reg, charged, answer>>

\* ... fails ...
Fails(r) ==
    /\ todo[r] # <<>> /\ Head(todo[r]).do \notin {"step", "exit", "refuse"} /\ reg[r] = None
    /\ \E why \in {"depth", "condition", "operation"} : Unwind(r, why)
    /\ UNCHANGED <<req, steps, nesting, reg, charged, answer>>

\* ... or answers.
Answers(r) ==
    /\ todo[r] # <<>> /\ Head(todo[r]).do \in Outside
    /\ \E a : /\ Reply(r, a)
              /\ Head(todo[r]).do = "refuse" => a = Head(todo[r]).why
              /\ Head(todo[r]).do # "refuse" => a \notin {"steps", "nesting"}
    /\ UNCHANGED <<req, steps, nesting, reg, charged>>

(* Every step of the interpreter is of one of these kinds or touches a     *)
(* counter of the budget.                                                  *)
LEMMA ServeKinds ==
    ASSUME GInv, NEW r \in Requests, Serve(r)
    PROVE  \/ Moves(r) \/ Fails(r) \/ Answers(r)
           \/ LoadCounter(r) \/ StoreStep(r) \/ StoreEnter(r) \/ StoreExit(r)
  <1> DEFINE i == Head(todo[r])
  <1>0. ReqInv(r) /\ GShape
    BY DEF GInv
  <1>1. ASSUME todo[r] # <<>>, i.do \notin {"exit", "refuse"}
        PROVE  Good(i)
    BY <1>0, <1>1, FirstInstruction DEF ReqInv
  <1>2. ASSUME i.do \notin Counting, todo[r] # <<>> PROVE reg[r] = None
    BY <1>0, <1>2 DEF ReqInv
  <1>3. ASSUME NEW a, Pushed(a, Frames(i)), a = <<>> \/ i.do \in HasDepth, Continue(r, a), todo[r] # <<>>,
               i.do \notin Counting \cup {"refuse"},
               SameClient(r), UNCHANGED answer, Local
        PROVE  Moves(r)
    BY <1>3 DEF Moves, Local, budget
  <1>4. ASSUME NEW why \in {"depth", "condition", "operation"}, Unwind(r, why), todo[r] # <<>>,
               i.do \notin {"step", "exit", "refuse"}, reg[r] = None,
               UNCHANGED <<req, answer>>, Local
        PROVE  Fails(r)
    BY <1>4 DEF Fails, Local, budget
  <1>5. ASSUME NEW a, Reply(r, a), todo[r] # <<>>, i.do \in Outside,
               i.do = "refuse" => a = i.why, i.do # "refuse" => a \notin {"steps", "nesting"},
               UNCHANGED req, Local
        PROVE  Answers(r)
    BY <1>5 DEF Answers, Local, budget
  <1>6. UNCHANGED req => SameClient(r)
    BY <1>0 DEF SameClient, GShape, PluginOf
  <1>7. CASE EnterTooDeep(r)
    <2>1. Doing(r, "enter") /\ i.depth > MaxDepth /\ Unwind(r, "depth")
      BY <1>7 DEF EnterTooDeep
    <2>2. i.depth \in Nat /\ MaxDepth \in Nat
      BY <1>1, <2>1, BudgetAssumption DEF Doing, Good, HasDepth
    <2>3. reg[r] = None
      BY <1>0, <2>1, <2>2 DEF ReqInv, Doing
    <2> QED
      BY <1>4, <1>7, <2>1, <2>3 DEF EnterTooDeep, Doing
  <1>8. CASE Eval(r)
    <2> DEFINE c == CondOf[i.c]
    <2>1. /\ todo[r] # <<>> /\ i.do = "eval" /\ reg[r] = None /\ i.depth \in Nat
          /\ i.do \notin Counting \cup {"refuse"} /\ i.do \in HasDepth
          /\ UNCHANGED <<req, answer>> /\ Local /\ SameClient(r)
      BY <1>1, <1>2, <1>6, <1>8, ZenonT(30) DEF Eval, Doing, Good, HasDepth, Counting
    <2>2. \/ Continue(r, <<Items(c.op, c.items, i.depth)>>)
          \/ Continue(r, Append(EvalCondition(c.items[1], i.depth + 1), [do |-> "negate"]))
          \/ Unwind(r, "condition") \/ Continue(r, <<>>)
      BY <1>8, ZenonT(30) DEF Eval
    <2> HIDE DEF c
    <2>3. Inner(Items(c.op, c.items, i.depth), i.depth + 1) /\ Frames(i) = i.depth + 1
      BY <2>1 DEF Inner, Items, Good, Outside, HasDepth, Frames
    <2>4. Inner([do |-> "negate"], i.depth + 1) /\ i.depth + 1 \in Nat /\ i.depth + 1 <= i.depth + 1
      BY <2>1 DEF Inner, Good, Outside, HasDepth
    <2>5. CASE Continue(r, <<Items(c.op, c.items, i.depth)>>)
      BY <1>3, <2>1, <2>3, <2>5, PushOne
    <2>6. CASE Continue(r, Append(EvalCondition(c.items[1], i.depth + 1), [do |-> "negate"]))
      BY <1>3, <2>1, <2>3, <2>4, <2>6, CondIsInner
    <2>7. CASE Unwind(r, "condition")
      BY <1>4, <2>1, <2>7
    <2>8. CASE Continue(r, <<>>)
      BY <1>3, <2>1, <2>8, PushNone
    <2> QED
      BY <2>2, <2>5, <2>6, <2>7, <2>8, ZenonT(30)
  <1>9. CASE NextItem(r)
    <2>1. /\ todo[r] # <<>> /\ i.do = "items" /\ i.depth \in Nat
          /\ i.do \notin Counting \cup {"refuse"} /\ i.do \in HasDepth
          /\ UNCHANGED <<req, answer>> /\ Local /\ SameClient(r)
      BY <1>1, <1>6, <1>9 DEF NextItem, Doing, Good, HasDepth, Counting
    <2>2. \/ Continue(r, <<>>)
          \/ Continue(r, Append(EvalCondition(Head(i.items), i.depth + 1),
                                Items(i.op, Tail(i.items), i.depth)))
      BY <1>9 DEF NextItem
    <2>3. /\ Inner(Items(i.op, Tail(i.items), i.depth), i.depth + 1)
          /\ i.depth + 1 \in Nat /\ i.depth + 1 <= i.depth + 1 /\ Frames(i) = i.depth + 1
      BY <2>1 DEF Inner, Items, Good, Outside, HasDepth, Frames
    <2> QED
      BY <1>3, <2>1, <2>2, <2>3, PushNone, CondIsInner
  <1>10. CASE Negate(r)
    BY <1>3, <1>6, <1>10, PushNone DEF Negate, Doing, Counting
  <1>11. CASE Require(r)
    <2>1. CASE ret[r]
      BY <1>3, <1>6, <1>11, <2>1, PushNone DEF Require, Doing, Counting
    <2>2. CASE ~ret[r]
      BY <1>5, <1>11, <2>2, ZenonT(30) DEF Require, Doing, Outside, Reply
    <2> QED
      BY <2>1, <2>2
  <1>12. CASE NextStep(r)
    <2> DEFINE x == [do |-> "run", step |-> Head(i.steps), depth |-> i.depth]
               y == [do |-> "steps", steps |-> Tail(i.steps), depth |-> i.depth]
    <2>1. /\ todo[r] # <<>> /\ i.do = "steps" /\ i.depth \in Nat
          /\ i.do \notin Counting \cup {"refuse"} /\ i.do \in HasDepth
          /\ UNCHANGED <<req, answer>> /\ Local /\ SameClient(r)
      BY <1>1, <1>6, <1>12 DEF NextStep, Doing, Good, HasDepth, Counting
    <2>2. Continue(r, <<>>) \/ Continue(r, <<Step, x, y>>)
      BY <1>12 DEF NextStep
    <2>3. Inner(x, i.depth + 1) /\ Inner(y, i.depth + 1) /\ Frames(i) = i.depth + 1
      BY <2>1 DEF Inner, Good, Outside, HasDepth, Frames
    <2> HIDE DEF x, y
    <2> QED
      BY <1>3, <2>1, <2>2, <2>3, PushNone, PushThree, StepIsInner, ZenonT(30)
  <1>13. CASE RunOp(r)
    <2>1. /\ todo[r] # <<>> /\ i.do = "run" /\ i.do \notin Counting \cup {"refuse"}
          /\ UNCHANGED answer /\ Local /\ Continue(r, <<>>)
      BY <1>13 DEF RunOp, Running, Doing, Counting
    <2>2. SameClient(r)
      <3>1. CASE UNCHANGED req
        BY <1>6, <3>1
      <3>2. ASSUME NEW x, NEW v, req' = [req EXCEPT ![r].facts[x] = v] PROVE SameClient(r)
        <4>1. "cn" \in DOMAIN req[r] /\ DOMAIN req = Requests
          BY <1>0, <2>1 DEF ReqInv, GShape
        <4>2. DOMAIN req' = Requests /\ \A q \in Requests \ {r} : req'[q] = req[q]
          BY <3>2, <4>1
        <4>3. req'[r] = [req[r] EXCEPT !["facts"] = [req[r].facts EXCEPT ![x] = v]]
          BY <3>2, <4>1
        <4>4. DOMAIN req'[r] = DOMAIN req[r] /\ req'[r].cn = req[r].cn
          BY <4>1, <4>3
        <4> QED
          BY <4>2, <4>4 DEF SameClient, PluginOf
      <3> QED
        BY <1>13, <3>1, <3>2, ZenonT(30) DEF RunOp
    <2> QED
      BY <1>3, <2>1, <2>2, PushNone
  <1>14. CASE OpFails(r)
    BY <1>2, <1>4, <1>14 DEF OpFails, Running, Doing, Counting
  <1>15. CASE RunIf(r)
    <2> DEFINE x == [do |-> "branch", step |-> i.step, depth |-> i.depth + 1]
    <2>1. /\ todo[r] # <<>> /\ i.do = "run" /\ i.depth \in Nat
          /\ i.do \notin Counting \cup {"refuse"} /\ i.do \in HasDepth
          /\ UNCHANGED answer /\ Local
          /\ Continue(r, Append(EvalCondition(StepOf[i.step].cond, i.depth + 1), x))
          /\ req' = [req EXCEPT ![r].seen[i.step] = req[r].facts]
      BY <1>1, <1>15, ZenonT(30) DEF RunIf, Running, Doing, Good, HasDepth, Counting
    <2>2. /\ Inner(x, i.depth + 1) /\ i.depth + 1 \in Nat /\ i.depth + 1 <= i.depth + 1
          /\ Frames(i) = i.depth + 1
      BY <2>1 DEF Inner, Good, Outside, HasDepth, Frames
    <2>3. SameClient(r)
      <3>1. "cn" \in DOMAIN req[r] /\ DOMAIN req = Requests
        BY <1>0, <2>1 DEF ReqInv, GShape
      <3>2. DOMAIN req' = Requests /\ \A q \in Requests \ {r} : req'[q] = req[q]
        BY <2>1, <3>1
      <3>3. req'[r] = [req[r] EXCEPT !["seen"] = [req[r].seen EXCEPT ![i.step] = req[r].facts]]
        BY <2>1, <3>1
      <3>4. DOMAIN req'[r] = DOMAIN req[r] /\ req'[r].cn = req[r].cn
        BY <3>1, <3>3
      <3> QED
        BY <3>2, <3>4 DEF SameClient, PluginOf
    <2> HIDE DEF x
    <2> QED
      BY <1>3, <2>1, <2>2, <2>3, CondIsInner, ZenonT(30)
  <1>16. CASE Branch(r)
    <2>1. /\ todo[r] # <<>> /\ i.do = "branch" /\ i.depth \in Nat
          /\ i.do \notin Counting \cup {"refuse"} /\ i.do \in HasDepth
          /\ UNCHANGED <<req, answer>> /\ Local /\ SameClient(r)
          /\ \E l : Continue(r, RunSteps(l, i.depth))
      BY <1>1, <1>6, <1>16 DEF Branch, Doing, Good, HasDepth, Counting
    <2>2. Frames(i) = i.depth /\ i.depth <= i.depth
      BY <2>1 DEF Frames
    <2> QED
      BY <1>3, <2>1, <2>2, StepsAreInner
  <1>17. CASE RunSeq(r)
    <2>1. /\ todo[r] # <<>> /\ i.do = "run" /\ i.depth \in Nat
          /\ i.do \notin Counting \cup {"refuse"} /\ i.do \in HasDepth
          /\ UNCHANGED <<req, answer>> /\ Local /\ SameClient(r)
          /\ Continue(r, RunSteps(StepOf[i.step].steps, i.depth + 1))
      BY <1>1, <1>6, <1>17 DEF RunSeq, Running, Doing, Good, HasDepth, Counting
    <2>2. i.depth + 1 \in Nat /\ Frames(i) = i.depth + 1 /\ i.depth + 1 <= i.depth + 1
      BY <2>1 DEF Frames
    <2> QED
      BY <1>3, <2>1, <2>2, StepsAreInner
  <1>18. CASE Allow(r)
    <2>1. /\ todo[r] # <<>> /\ i.do = "allow" /\ i.do \in Outside /\ UNCHANGED req /\ Local
          /\ \E a \in {"tableNotInRule", "noStatement", "rows", "queryError"} : Reply(r, a)
      BY <1>18 DEF Allow, Doing, Outside
    <2> QED
      BY <1>5, <2>1
  <1>19. CASE Refuse(r)
    BY <1>5, <1>19 DEF Refuse, Doing, Outside
  <1> QED
    BY <1>7, <1>8, <1>9, <1>10, <1>11, <1>12, <1>13, <1>14, <1>15, <1>16, <1>17, <1>18, <1>19
    DEF Serve

(* A step of r leaves what is true of the other requests alone. *)
LEMMA OthersKeep ==
    ASSUME GInv, NEW r \in Requests, GShape', ReqInv(r)',
           \A p \in Plugins : charged[p] <= charged'[p],
           \A q \in Requests \ {r} :
             todo'[q] = todo[q] /\ reg'[q] = reg[q] /\ answer'[q] = answer[q] /\ req'[q] = req[q]
    PROVE  GInv'
  <1> SUFFICES ASSUME NEW q \in Requests, q # r PROVE ReqInv(q)'
    BY DEF GInv
  <1>1. /\ todo'[q] = todo[q] /\ reg'[q] = reg[q] /\ answer'[q] = answer[q] /\ req'[q] = req[q]
        /\ PluginOf(q)' = PluginOf(q) /\ ReqInv(q)
    BY DEF GInv, PluginOf
  <1>2. ASSUME PluginOf(q) \in Plugins
        PROVE  /\ charged[PluginOf(q)] \in Nat /\ charged'[PluginOf(q)] \in Nat
               /\ charged[PluginOf(q)] <= charged'[PluginOf(q)]
    BY <1>2 DEF GInv, GShape
  <1>3. MaxSteps \in Nat
    BY BudgetAssumption
  <1>4. Unwinding(todo[q]) => todo[q] # <<>>
    BY DEF Unwinding
  <1>5. Instructions(todo[q]) /\ (todo[q] # <<>> => PluginOf(q) \in Plugins /\ "cn" \in DOMAIN req[q])
    BY <1>1 DEF ReqInv
  <1>6. Unwinding(todo[q]) /\ todo[q][Len(todo[q])].why = "steps" => charged'[PluginOf(q)] > MaxSteps
    BY <1>1, <1>2, <1>3, <1>4 DEF ReqInv
  <1>7. answer[q] = "steps" => PluginOf(q) \in Plugins /\ charged'[PluginOf(q)] > MaxSteps
    BY <1>1, <1>2, <1>3 DEF ReqInv
  <1>8. reg[q] # None =>
         /\ reg[q] \in Nat /\ todo[q] # <<>> /\ Head(todo[q]).do \in Counting
         /\ Head(todo[q]).do = "step" => reg[q] <= charged'[PluginOf(q)]
         /\ Head(todo[q]).do = "enter" => Head(todo[q]).depth <= MaxDepth
    BY <1>1, <1>2 DEF ReqInv
  <1> QED
    BY <1>1, <1>5, <1>6, <1>7, <1>8, ZenonT(30) DEF ReqInv

(* The invariant is kept by each kind of step, by the counters and by a    *)
(* new request.                                                            *)
LEMMA MovesKeeps == ASSUME GInv, NEW r \in Requests, Moves(r) PROVE GInv'
  <1>1. ReqInv(r) /\ GShape
    BY DEF GInv
  <1>2. PICK a : /\ Pushed(a, Frames(Head(todo[r])))
                 /\ todo' = [todo EXCEPT ![r] = a \o Tail(todo[r])]
    BY ZenonT(30) DEF Moves, Continue
  <1>3. /\ Instructions(todo[r]) /\ Clean(todo[r]) /\ todo[r] # <<>> /\ reg[r] = None
    BY <1>1, FirstInstruction DEF Moves, ReqInv, Counting
  <1>4. todo'[r] = a \o Tail(todo[r])
    BY <1>1, <1>2 DEF GShape
  <1>5. Instructions(todo'[r]) /\ ~Unwinding(todo'[r])
    BY <1>2, <1>3, <1>4, PushIs, ZenonT(30)
  <1>6. /\ PluginOf(r)' = PluginOf(r) /\ "cn" \in DOMAIN req'[r] /\ PluginOf(r) \in Plugins
        /\ answer'[r] = answer[r] /\ charged' = charged /\ reg'[r] = None
    BY <1>1, <1>3, ZenonT(30) DEF Moves, SameClient, ReqInv
  <1>7. ReqInv(r)'
    BY <1>1, <1>5, <1>6 DEF ReqInv
  <1>8. GShape' /\ \A p \in Plugins : charged[p] <= charged'[p]
    BY <1>1, <1>2 DEF GShape, Moves, SameClient
  <1>9. \A q \in Requests \ {r} :
          todo'[q] = todo[q] /\ reg'[q] = reg[q] /\ answer'[q] = answer[q] /\ req'[q] = req[q]
    BY <1>1, <1>2 DEF GShape, Moves, SameClient
  <1> QED
    BY <1>7, <1>8, <1>9, OthersKeep

(* GInv is kept by an error, ... *)
LEMMA FailsKeeps == ASSUME GInv, NEW r \in Requests, Fails(r) PROVE GInv'
  <1>1. ReqInv(r) /\ GShape
    BY DEF GInv
  <1>2. PICK why \in {"depth", "condition", "operation"} : Unwind(r, why)
    BY DEF Fails
  <1>3. Instructions(todo[r]) /\ todo[r] # <<>> /\ reg[r] = None
    BY <1>1 DEF Fails, ReqInv
  <1>4. /\ Instructions(todo'[r]) /\ todo'[r][Len(todo'[r])].why # "steps"
        /\ DOMAIN todo' = Requests /\ \A q \in Requests \ {r} : todo'[q] = todo[q]
    BY <1>1, <1>2, <1>3, UnwindIs DEF GShape
  <1>5. /\ PluginOf(r)' = PluginOf(r) /\ req'[r] = req[r]
        /\ answer'[r] = answer[r] /\ charged' = charged /\ reg'[r] = None
    BY <1>3 DEF Fails, PluginOf
  <1>6. ReqInv(r)'
    BY <1>1, <1>3, <1>4, <1>5 DEF ReqInv
  <1>7. GShape' /\ \A p \in Plugins : charged[p] <= charged'[p]
    BY <1>1, <1>4 DEF GShape, Fails
  <1> QED
    BY <1>4, <1>6, <1>7, OthersKeep DEF Fails

(* ... by an answer, ... *)
LEMMA AnswersKeeps == ASSUME GInv, NEW r \in Requests, Answers(r) PROVE GInv'
  <1>1. ReqInv(r) /\ GShape
    BY DEF GInv
  <1>2. PICK a : /\ Reply(r, a)
                 /\ Head(todo[r]).do = "refuse" => a = Head(todo[r]).why
                 /\ Head(todo[r]).do # "refuse" => a \notin {"steps", "nesting"}
    BY DEF Answers
  <1>3. todo[r] # <<>> /\ reg[r] = None /\ PluginOf(r) \in Plugins
    BY <1>1 DEF Answers, ReqInv, Outside, Counting
  <1>4. a = "steps" => charged[PluginOf(r)] > MaxSteps
    BY <1>1, <1>2, <1>3, FirstInstruction DEF ReqInv
  <1>5. /\ todo'[r] = <<>> /\ answer'[r] = a /\ DOMAIN todo' = Requests /\ DOMAIN answer' = Requests
        /\ \A q \in Requests \ {r} : todo'[q] = todo[q] /\ answer'[q] = answer[q]
    BY <1>1, <1>2 DEF Reply, GShape
  <1>6. Instructions(<<>>) /\ ~Unwinding(<<>>)
    BY PushNone DEF Instructions, Unwinding, Pushable
  <1>7. /\ PluginOf(r)' = PluginOf(r) /\ req'[r] = req[r] /\ charged' = charged /\ reg'[r] = None
    BY <1>3 DEF Answers, PluginOf
  <1>8. ReqInv(r)'
    BY <1>3, <1>4, <1>5, <1>6, <1>7 DEF ReqInv
  <1>9. GShape' /\ \A p \in Plugins : charged[p] <= charged'[p]
    BY <1>1, <1>5 DEF GShape, Answers
  <1> QED
    BY <1>5, <1>8, <1>9, OthersKeep DEF Answers

(* ... by the load of a counter, ... *)
LEMMA LoadKeeps == ASSUME GInv, NEW r \in Requests, LoadCounter(r) PROVE GInv'
  <1>1. ReqInv(r) /\ GShape
    BY DEF GInv
  <1>2. /\ todo[r] # <<>> /\ Head(todo[r]).do \in Counting
        /\ Head(todo[r]).do = "enter" => Head(todo[r]).depth <= MaxDepth
        /\ \/ Head(todo[r]).do = "step" /\ reg' = [reg EXCEPT ![r] = steps[PluginOf(r)]]
           \/ Head(todo[r]).do # "step" /\ reg' = [reg EXCEPT ![r] = nesting[PluginOf(r)]]
        /\ UNCHANGED <<steps, nesting, req, todo, answer, charged>>
    BY DEF LoadCounter, Doing, Counting, budget
  <1>3. /\ PluginOf(r) \in Plugins /\ PluginOf(r)' = PluginOf(r)
    BY <1>1, <1>2 DEF ReqInv, PluginOf
  <1>4. /\ steps[PluginOf(r)] \in Nat /\ nesting[PluginOf(r)] \in Nat
        /\ steps[PluginOf(r)] <= charged[PluginOf(r)]
    BY <1>1, <1>3 DEF GShape
  <1>5. reg'[r] \in Nat /\ (Head(todo[r]).do = "step" => reg'[r] <= charged[PluginOf(r)])
    BY <1>1, <1>2, <1>4 DEF GShape
  <1>6. ReqInv(r)'
    BY <1>1, <1>2, <1>3, <1>5 DEF ReqInv
  <1>7. GShape' /\ \A p \in Plugins : charged[p] <= charged'[p]
    BY <1>1, <1>2 DEF GShape
  <1>8. \A q \in Requests \ {r} : reg'[q] = reg[q]
    BY <1>1, <1>2 DEF GShape
  <1> QED
    BY <1>2, <1>6, <1>7, <1>8, OthersKeep

(* ... by Budget.Step, ... *)
LEMMA StoreStepKeeps == ASSUME GInv, NEW r \in Requests, StoreStep(r) PROVE GInv'
  <1> DEFINE p == PluginOf(r)
  <1>1. ReqInv(r) /\ GShape
    BY DEF GInv
  <1>2. /\ todo[r] # <<>> /\ Head(todo[r]).do = "step" /\ reg[r] # None
        /\ steps' = [steps EXCEPT ![p] = reg[r] + 1]
        /\ charged' = [charged EXCEPT ![p] = charged[p] + 1]
        /\ IF reg[r] + 1 > MaxSteps THEN Unwind(r, "steps") ELSE Continue(r, <<>>)
        /\ reg' = [reg EXCEPT ![r] = None]
        /\ UNCHANGED <<nesting, req, answer>>
    BY ZenonT(30) DEF StoreStep, Doing
  <1>3. /\ p \in Plugins /\ PluginOf(r)' = p /\ "cn" \in DOMAIN req[r]
        /\ reg[r] \in Nat /\ reg[r] <= charged[p] /\ charged[p] \in Nat /\ MaxSteps \in Nat
    BY <1>1, <1>2, BudgetAssumption, ZenonT(30) DEF ReqInv, PluginOf, GShape
  <1>4. /\ Instructions(todo[r]) /\ Clean(todo[r])
    BY <1>1, <1>2, FirstInstruction, ZenonT(30) DEF ReqInv
  <1> HIDE DEF p
  <1>5. charged'[p] = charged[p] + 1 /\ reg'[r] = None
    BY <1>1, <1>2, <1>3, ZenonT(30) DEF GShape
  <1>6. /\ Instructions(todo'[r])
        /\ Unwinding(todo'[r]) /\ todo'[r][Len(todo'[r])].why = "steps" => charged'[p] > MaxSteps
        /\ DOMAIN todo' = Requests /\ \A q \in Requests \ {r} : todo'[q] = todo[q]
    <2>1. CASE reg[r] + 1 > MaxSteps
      <3>1. Unwind(r, "steps") /\ charged'[p] > MaxSteps
        BY <1>2, <1>3, <1>5, <2>1
      <3> QED
        BY <1>1, <1>2, <1>4, <3>1, UnwindIs DEF GShape
    <2>2. CASE ~(reg[r] + 1 > MaxSteps)
      <3>1. todo' = [todo EXCEPT ![r] = <<>> \o Tail(todo[r])]
        BY <1>2, <2>2 DEF Continue
      <3>2. todo'[r] = <<>> \o Tail(todo[r])
        BY <1>1, <3>1 DEF GShape
      <3>3. Instructions(todo'[r]) /\ ~Unwinding(todo'[r])
        BY <1>2, <1>4, <3>2, PushIs, PushNone, ZenonT(30)
      <3> QED
        BY <1>1, <3>1, <3>3 DEF GShape
    <2> QED
      BY <2>1, <2>2
  <1>7. answer[r] = "steps" => charged'[p] > MaxSteps
    BY <1>1, <1>3, <1>5 DEF ReqInv, p
  <1>8. ReqInv(r)'
    BY <1>2, <1>3, <1>5, <1>6, <1>7 DEF ReqInv
  <1>9. /\ steps' \in [Plugins -> Nat] /\ charged' \in [Plugins -> Nat]
        /\ \A x \in Plugins : charged[x] <= charged'[x] /\ steps'[x] <= charged'[x]
    BY <1>1, <1>2, <1>3 DEF GShape
  <1>10. GShape'
    BY <1>1, <1>2, <1>6, <1>9 DEF GShape
  <1>11. \A q \in Requests \ {r} : reg'[q] = reg[q]
    BY <1>1, <1>2 DEF GShape
  <1> QED
    BY <1>2, <1>6, <1>8, <1>9, <1>10, <1>11, OthersKeep

(* ... by Budget.Enter, ... *)
LEMMA StoreEnterKeeps == ASSUME GInv, NEW r \in Requests, StoreEnter(r) PROVE GInv'
  <1> DEFINE p == PluginOf(r)
  <1>1. ReqInv(r) /\ GShape
    BY DEF GInv
  <1>2. /\ todo[r] # <<>> /\ Head(todo[r]).do = "enter" /\ reg[r] # None
        /\ nesting' = [nesting EXCEPT ![p] = reg[r] + 1]
        /\ \/ Unwind(r, "nesting")
           \/ Continue(r, Append(Head(todo[r]).body, Exit(Open(Tail(todo[r])) + 1)))
        /\ reg' = [reg EXCEPT ![r] = None]
        /\ UNCHANGED <<steps, req, answer, charged>>
    BY ZenonT(30) DEF StoreEnter, Doing
  <1>3. /\ p \in Plugins /\ PluginOf(r)' = p /\ "cn" \in DOMAIN req[r] /\ reg[r] \in Nat
    BY <1>1, <1>2, ZenonT(30) DEF ReqInv, PluginOf
  <1>4. Instructions(todo[r])
    BY <1>1, ZenonT(30) DEF ReqInv
  <1> HIDE DEF p
  <1>5. /\ Instructions(todo'[r])
        /\ Unwinding(todo'[r]) => todo'[r][Len(todo'[r])].why # "steps"
        /\ DOMAIN todo' = Requests /\ \A q \in Requests \ {r} : todo'[q] = todo[q]
    <2>1. CASE Unwind(r, "nesting")
      BY <1>1, <1>2, <1>4, <2>1, UnwindIs DEF GShape
    <2>2. CASE Continue(r, Append(Head(todo[r]).body, Exit(Open(Tail(todo[r])) + 1)))
      <3>1. /\ todo'[r] = Append(Head(todo[r]).body, Exit(Open(Tail(todo[r])) + 1)) \o Tail(todo[r])
            /\ DOMAIN todo' = Requests /\ \A q \in Requests \ {r} : todo'[q] = todo[q]
        BY <1>1, <2>2, ZenonT(30) DEF Continue, GShape
      <3>2. Instructions(todo'[r]) /\ ~Unwinding(todo'[r])
        BY <1>2, <1>4, <3>1, BodyIs, ZenonT(30)
      <3> QED
        BY <3>1, <3>2, ZenonT(30)
    <2> QED
      BY <1>2, <2>1, <2>2, ZenonT(30)
  <1>6. reg'[r] = None /\ \A q \in Requests \ {r} : reg'[q] = reg[q]
    BY <1>1, <1>2 DEF GShape
  <1>7. ReqInv(r)'
    BY <1>1, <1>2, <1>3, <1>5, <1>6, ZenonT(30) DEF ReqInv, p
  <1>8. nesting' \in [Plugins -> Nat] /\ \A x \in Plugins : charged[x] <= charged'[x]
    BY <1>1, <1>2, <1>3 DEF GShape
  <1>9. GShape'
    BY <1>1, <1>2, <1>5, <1>8 DEF GShape
  <1> QED
    BY <1>2, <1>5, <1>6, <1>7, <1>8, <1>9, OthersKeep

(* ... by Budget.Exit, ... *)
LEMMA StoreExitKeeps == ASSUME GInv, NEW r \in Requests, StoreExit(r) PROVE GInv'
  <1> DEFINE p == PluginOf(r)
  <1>1. ReqInv(r) /\ GShape
    BY DEF GInv
  <1>2. /\ todo[r] # <<>> /\ Head(todo[r]).do = "exit" /\ reg[r] # None
        /\ nesting' = [nesting EXCEPT ![p] = IF reg[r] > 0 THEN reg[r] - 1 ELSE nesting[p]]
        /\ todo' = [todo EXCEPT ![r] = <<>> \o Tail(todo[r])]
        /\ reg' = [reg EXCEPT ![r] = None]
        /\ UNCHANGED <<steps, req, answer, charged>>
    BY DEF StoreExit, Doing, Continue
  <1>3. /\ p \in Plugins /\ PluginOf(r)' = p /\ "cn" \in DOMAIN req[r] /\ reg[r] \in Nat
    BY <1>1, <1>2 DEF ReqInv, PluginOf
  <1> HIDE DEF p
  <1>4. /\ todo'[r] = Tail(todo[r])
        /\ DOMAIN todo' = Requests /\ \A q \in Requests \ {r} : todo'[q] = todo[q]
    BY <1>1, <1>2, PopIsTail, ZenonT(30) DEF GShape, ReqInv, Instructions
  <1>5. /\ Instructions(todo'[r])
        /\ Unwinding(todo[r]) <=> Unwinding(todo'[r])
        /\ Unwinding(todo[r]) => todo'[r][Len(todo'[r])] = todo[r][Len(todo[r])]
    <2>1. Instructions(todo[r])
      BY <1>1, ZenonT(30) DEF ReqInv
    <2>2. /\ Instructions(Tail(todo[r]))
          /\ Unwinding(todo[r]) <=> Unwinding(Tail(todo[r]))
          /\ Unwinding(todo[r]) => Tail(todo[r])[Len(Tail(todo[r]))] = todo[r][Len(todo[r])]
      BY <1>2, <2>1, PopExit, ZenonT(30)
    <2> QED
      BY <1>4, <2>2, ZenonT(30)
  <1>6. reg'[r] = None /\ \A q \in Requests \ {r} : reg'[q] = reg[q]
    BY <1>1, <1>2 DEF GShape
  <1>7. ReqInv(r)'
    BY <1>1, <1>2, <1>3, <1>5, <1>6, ZenonT(30) DEF ReqInv, p
  <1>8. nesting' \in [Plugins -> Nat] /\ \A x \in Plugins : charged[x] <= charged'[x]
    BY <1>1, <1>2, <1>3 DEF GShape
  <1>9. GShape'
    BY <1>1, <1>2, <1>4, <1>8 DEF GShape
  <1> QED
    BY <1>2, <1>4, <1>6, <1>7, <1>8, <1>9, OthersKeep

(* ... and by a new request. *)
LEMMA ReceiveKeeps ==
    ASSUME GInv, NEW r \in Requests, NEW cn, NEW table, NEW facts, Receive(r, cn, table, facts)
    PROVE  GInv'
  <1> DEFINE new == [cn |-> cn, table |-> table, brought |-> facts, facts |-> facts,
                     seen |-> [s \in DOMAIN StepOf |-> None]]
  <1>1. ReqInv(r) /\ GShape
    BY DEF GInv
  <1>2. /\ todo[r] = <<>> /\ reg[r] = None
        /\ req' = [req EXCEPT ![r] = new]
        /\ UNCHANGED <<steps, nesting, reg, charged>>
    BY <1>1 DEF Receive, ReqInv, budget
  <1>3. /\ PluginOf(r)' = cn /\ "cn" \in DOMAIN req'[r] /\ DOMAIN req' = Requests
        /\ \A q \in Requests \ {r} : req'[q] = req[q]
    <2>1. /\ req'[r] = new /\ DOMAIN req' = Requests
          /\ \A q \in Requests \ {r} : req'[q] = req[q]
      BY <1>1, <1>2, ZenonT(30) DEF GShape
    <2> QED
      BY <2>1 DEF PluginOf
  <1>4. \/ answer' = [answer EXCEPT ![r] = "unauthorized"] /\ todo' = todo
        \/ answer' = [answer EXCEPT ![r] = "ruleError"] /\ todo' = todo
        \/ /\ answer' = [answer EXCEPT ![r] = "none"] /\ cn \in Plugins
           /\ todo' = [todo EXCEPT ![r] = Decide(Rules[cn])]
    BY DEF Receive
  <1>5. /\ answer'[r] # "steps" /\ DOMAIN answer' = Requests /\ DOMAIN todo' = Requests
        /\ \A q \in Requests \ {r} : answer'[q] = answer[q] /\ todo'[q] = todo[q]
        /\ \/ todo'[r] = <<>>
           \/ todo'[r] = Decide(Rules[cn]) /\ cn \in Plugins
    BY <1>1, <1>2, <1>4 DEF GShape
  <1>6. Instructions(todo'[r]) /\ ~Unwinding(todo'[r])
    <2>1. Instructions(<<>>) /\ ~Unwinding(<<>>)
      BY PushNone DEF Instructions, Unwinding, Pushable
    <2> QED
      BY <1>5, <2>1, DecideIs
  <1>7. ReqInv(r)'
    BY <1>2, <1>3, <1>5, <1>6, ZenonT(30) DEF ReqInv
  <1>8. GShape' /\ \A x \in Plugins : charged[x] <= charged'[x]
    BY <1>1, <1>2, <1>3, <1>5 DEF GShape
  <1> QED
    BY <1>2, <1>3, <1>5, <1>7, <1>8, OthersKeep

(* GInv holds at the start ... *)
LEMMA GInvInit == GatewayInit => GInv
  <1> SUFFICES ASSUME GatewayInit PROVE GInv
    OBVIOUS
  <1>1. GShape
    BY DEF GatewayInit, GShape
  <1>2. ASSUME NEW r \in Requests PROVE ReqInv(r)
    <2>1. todo[r] = <<>> /\ reg[r] = None /\ answer[r] = "none"
      BY DEF GatewayInit
    <2>2. Instructions(<<>>) /\ ~Unwinding(<<>>)
      BY PushNone DEF Instructions, Unwinding, Pushable
    <2> QED
      BY <2>1, <2>2 DEF ReqInv
  <1> QED
    BY <1>1, <1>2 DEF GInv

(* ... and is kept by every step. *)
LEMMA GInvNext == GInv /\ [GatewayNext]_gatewayVars => GInv'
  <1> SUFFICES ASSUME GInv, [GatewayNext]_gatewayVars PROVE GInv'
    OBVIOUS
  <1>1. CASE UNCHANGED gatewayVars
    BY <1>1 DEF gatewayVars, budget, GInv, GShape, ReqInv, PluginOf
  <1>2. ASSUME NEW r \in Requests, NEW cn, NEW t, NEW f, Receive(r, cn, t, f) PROVE GInv'
    BY <1>2, ReceiveKeeps
  <1>3. ASSUME NEW r \in Requests, Serve(r) PROVE GInv'
    BY <1>3, ServeKinds, MovesKeeps, FailsKeeps, AnswersKeeps, LoadKeeps,
       StoreStepKeeps, StoreEnterKeeps, StoreExitKeeps
  <1> QED
    BY <1>1, <1>2, <1>3 DEF GatewayNext, AllAnswered

(* A refusal for steps (Budget.Step's error, "steps") is backed by what    *)
(* the plugin's requests were charged, whatever the interleaving and the   *)
(* updates they lose to each other.                                        *)
THEOREM StepsAreSpent == SafetySpec => []RefusedForSpentSteps
  <1>1. GInv => RefusedForSpentSteps
    BY ZenonT(30) DEF GInv, GShape, ReqInv, RefusedForSpentSteps
  <1> QED
    BY <1>1, GInvInit, GInvNext, PTL DEF SafetySpec

--------------------------------------------------------------------------------
(* The requests of a plugin come one after the other. *)
OneAtATime ==
    \A r, q \in Requests :
        todo[r] # <<>> /\ todo[q] # <<>> /\ PluginOf(r) = PluginOf(q) => r = q

(* Enter counts the level it then refuses, and no Exit is deferred for it. *)
NoNestingRefusal == \A r \in Requests : answer[r] # "nesting"

(* A request of p is on its way to such a refusal ... *)
Overrun(p) ==
    \E r \in Requests :
        Unwinding(todo[r]) /\ todo[r][Len(todo[r])].why = "nesting" /\ PluginOf(r) = p

(* ... or the level of p is the number of frames open in its request. *)
Balanced(p) ==
    /\ (\A r \in Requests : todo[r] # <<>> => PluginOf(r) # p) => nesting[p] = 0
    /\ \A r \in Requests : todo[r] # <<>> /\ PluginOf(r) = p => nesting[p] = Open(todo[r])

\* The level a request has loaded is still the plugin's.
LoadedLevel(r) ==
    reg[r] # None /\ Head(todo[r]).do \in {"enter", "exit"} => reg[r] = nesting[PluginOf(r)]

NInv == (\A p \in Plugins : Overrun(p) \/ Balanced(p)) /\ \A r \in Requests : LoadedLevel(r)

\* What a step of r says of its own plugin.
OwnLevel(r) ==
    \/ Unwinding(todo[r]) /\ todo[r][Len(todo[r])].why = "nesting"
    \/ nesting[PluginOf(r)] = IF todo[r] = <<>> THEN 0 ELSE Open(todo[r])

(* A step of one request leaves the levels of the other plugins alone. *)
LEMMA NOthersKeep ==
    ASSUME GInv, NInv, OneAtATime, NEW r \in Requests, todo[r] # <<>>,
           PluginOf(r)' = PluginOf(r), OwnLevel(r)', LoadedLevel(r)',
           \A p \in Plugins \ {PluginOf(r)} : nesting'[p] = nesting[p],
           \A q \in Requests \ {r} :
             todo'[q] = todo[q] /\ reg'[q] = reg[q] /\ req'[q] = req[q]
    PROVE  NInv'
  <1>0. PICK o : o = PluginOf(r)
    OBVIOUS
  <1>1. \A q \in Requests \ {r} : PluginOf(q)' = PluginOf(q)
    BY DEF PluginOf
  <1>2. \A q \in Requests \ {r} : todo[q] # <<>> => PluginOf(q) # o
    BY <1>0, ZenonT(30) DEF OneAtATime
  <1>3. PluginOf(r)' = o
    BY <1>0
  <1>4. ASSUME NEW p \in Plugins, p # o PROVE (Overrun(p) \/ Balanced(p))'
    <2>1. CASE Overrun(p)
      <3>1. PICK q \in Requests :
              Unwinding(todo[q]) /\ todo[q][Len(todo[q])].why = "nesting" /\ PluginOf(q) = p
        BY <2>1 DEF Overrun
      <3>2. q # r
        BY <1>0, <1>4, <3>1
      <3> QED
        BY <1>1, <3>1, <3>2 DEF Overrun
    <2>2. CASE Balanced(p)
      <3>1. nesting'[p] = nesting[p]
        BY <1>0, <1>4
      <3>2. \A q \in Requests : todo'[q] # <<>> /\ PluginOf(q)' = p =>
              q # r /\ todo'[q] = todo[q] /\ PluginOf(q) = p
        BY <1>1, <1>3, <1>4
      <3>3. \A q \in Requests : todo[q] # <<>> /\ PluginOf(q) = p =>
              q # r /\ todo'[q] = todo[q] /\ PluginOf(q)' = p
        BY <1>0, <1>1, <1>4
      <3>4. Balanced(p)'
        BY <2>2, <3>1, <3>2, <3>3 DEF Balanced
      <3> QED
        BY <3>4
    <2> QED
      BY <2>1, <2>2 DEF NInv
  <1>5. (Overrun(o) \/ Balanced(o))'
    <2>1. CASE (Unwinding(todo[r]) /\ todo[r][Len(todo[r])].why = "nesting")'
      BY <1>3, <2>1, ZenonT(30) DEF Overrun
    <2>2. CASE nesting'[o] = IF todo'[r] = <<>> THEN 0 ELSE Open(todo'[r])
      <3>1. \A q \in Requests : todo'[q] # <<>> /\ PluginOf(q)' = o => q = r
        BY <1>1, <1>2
      <3>2. (\A q \in Requests : todo'[q] # <<>> => PluginOf(q)' # o) => nesting'[o] = 0
        BY <1>3, <2>2
      <3>3. \A q \in Requests : todo'[q] # <<>> /\ PluginOf(q)' = o => nesting'[o] = Open(todo'[q])
        BY <2>2, <3>1
      <3> QED
        BY <3>2, <3>3 DEF Balanced
    <2> QED
      BY <1>3, <2>1, <2>2, ZenonT(30) DEF OwnLevel
  <1>6. ASSUME NEW q \in Requests PROVE LoadedLevel(q)'
    <2>1. CASE q = r
      BY <2>1
    <2>2. CASE q # r
      <3>1. /\ todo'[q] = todo[q] /\ reg'[q] = reg[q] /\ PluginOf(q)' = PluginOf(q)
            /\ ReqInv(q) /\ LoadedLevel(q)
        BY <1>1, <2>2, ZenonT(30) DEF GInv, NInv
      <3>2. ASSUME reg[q] # None PROVE nesting'[PluginOf(q)] = nesting[PluginOf(q)]
        <4>1. todo[q] # <<>> /\ PluginOf(q) \in Plugins
          BY <3>1, <3>2, ZenonT(30) DEF ReqInv
        <4> QED
          BY <1>0, <1>2, <2>2, <4>1
      <3> QED
        BY <3>1, <3>2 DEF LoadedLevel
    <2> QED
      BY <2>1, <2>2
  <1>7. \A p \in Plugins : (Overrun(p) \/ Balanced(p))'
    BY <1>4, <1>5, ZenonT(30)
  <1> QED
    BY <1>6, <1>7 DEF NInv

(* What NInv says of a request that is being served. *)
LEMMA LevelOfServed ==
    ASSUME GInv, NInv, OneAtATime, NEW r \in Requests, todo[r] # <<>>
    PROVE  /\ PluginOf(r) \in Plugins
           /\ \/ Unwinding(todo[r]) /\ todo[r][Len(todo[r])].why = "nesting"
              \/ nesting[PluginOf(r)] = Open(todo[r])
  <1>1. PluginOf(r) \in Plugins
    BY DEF GInv, ReqInv
  <1>2. CASE Balanced(PluginOf(r))
    BY <1>1, <1>2 DEF Balanced
  <1>3. CASE Overrun(PluginOf(r))
    <2>1. PICK q \in Requests :
            /\ Unwinding(todo[q]) /\ todo[q][Len(todo[q])].why = "nesting"
            /\ PluginOf(q) = PluginOf(r)
      BY <1>3 DEF Overrun
    <2>2. q = r
      BY <2>1 DEF OneAtATime, Unwinding
    <2> QED
      BY <1>1, <2>1, <2>2
  <1> QED
    BY <1>1, <1>2, <1>3 DEF NInv

(* Before an error the level is the number of open frames. *)
LEMMA LevelOfRunning ==
    ASSUME GInv, NInv, OneAtATime, NEW r \in Requests, todo[r] # <<>>,
           Head(todo[r]).do \notin {"exit", "refuse"}
    PROVE  /\ PluginOf(r) \in Plugins /\ Instructions(todo[r]) /\ Clean(todo[r])
           /\ Open(Tail(todo[r])) \in Nat /\ nesting[PluginOf(r)] = Open(Tail(todo[r]))
  <1>1. Instructions(todo[r]) /\ IsSeq(todo[r]) /\ Framed(todo[r])
    BY ZenonT(30) DEF GInv, ReqInv, Instructions
  <1>2. Clean(todo[r])
    BY <1>1, FirstInstruction
  <1>3. ~Unwinding(todo[r])
    BY <1>1, <1>2, CleanRuns
  <1>4. Open(Tail(todo[r])) \in Nat /\ Open(todo[r]) = Open(Tail(todo[r])) + 0
    BY <1>1, OpenOfTail
  <1>5. PluginOf(r) \in Plugins /\ nesting[PluginOf(r)] = Open(todo[r])
    BY <1>3, LevelOfServed
  <1> QED
    BY <1>1, <1>2, <1>4, <1>5

(* The levels are kept by each kind of step. *)
LEMMA NMovesKeeps ==
    ASSUME GInv, NInv, OneAtATime, NEW r \in Requests, Moves(r)
    PROVE  NInv'
  <1>1. ReqInv(r) /\ GShape
    BY DEF GInv
  <1>2. PICK a : /\ Pushed(a, Frames(Head(todo[r])))
                 /\ todo' = [todo EXCEPT ![r] = a \o Tail(todo[r])]
    BY ZenonT(30) DEF Moves, Continue
  <1>3. /\ todo[r] # <<>> /\ reg[r] = None
        /\ PluginOf(r) \in Plugins /\ Instructions(todo[r]) /\ Clean(todo[r])
        /\ Open(Tail(todo[r])) \in Nat /\ nesting[PluginOf(r)] = Open(Tail(todo[r]))
    BY <1>1, LevelOfRunning, ZenonT(30) DEF Moves, ReqInv, Counting
  <1>4. Open(todo'[r]) = Open(Tail(todo[r]))
    <2>1. todo'[r] = a \o Tail(todo[r])
      BY <1>1, <1>2 DEF GShape
    <2> QED
      BY <1>2, <1>3, <2>1, PushIs, ZenonT(30)
  <1>5. todo'[r] = <<>> => Open(todo'[r]) = 0
    BY PushNone
  <1>6. PluginOf(r)' = PluginOf(r) /\ nesting' = nesting /\ reg' = reg
    BY DEF Moves, SameClient
  <1>7. OwnLevel(r)' /\ LoadedLevel(r)'
    BY <1>3, <1>4, <1>5, <1>6 DEF OwnLevel, LoadedLevel
  <1>8. \A q \in Requests \ {r} : todo'[q] = todo[q] /\ reg'[q] = reg[q] /\ req'[q] = req[q]
    BY <1>1, <1>2 DEF GShape, Moves, SameClient
  <1> QED
    BY <1>3, <1>6, <1>7, <1>8, NOthersKeep, ZenonT(30)

(* NInv is kept by an error, ... *)
LEMMA NFailsKeeps ==
    ASSUME GInv, NInv, OneAtATime, NEW r \in Requests, Fails(r)
    PROVE  NInv'
  <1>1. ReqInv(r) /\ GShape
    BY DEF GInv
  <1>2. PICK why \in {"depth", "condition", "operation"} : Unwind(r, why)
    BY DEF Fails
  <1>3. /\ todo[r] # <<>> /\ reg[r] = None /\ Instructions(todo[r])
        /\ nesting[PluginOf(r)] = Open(Tail(todo[r]))
    BY <1>1, LevelOfRunning, ZenonT(30) DEF Fails
  <1>4. /\ Unwinding(todo'[r]) /\ Open(todo'[r]) = Open(Tail(todo[r]))
        /\ \A q \in Requests \ {r} : todo'[q] = todo[q]
    BY <1>1, <1>2, <1>3, UnwindIs, ZenonT(30) DEF GShape
  <1>5. PluginOf(r)' = PluginOf(r) /\ nesting' = nesting /\ reg' = reg /\ req' = req
    BY DEF Fails, PluginOf
  <1>6. OwnLevel(r)' /\ LoadedLevel(r)'
    BY <1>3, <1>4, <1>5 DEF OwnLevel, LoadedLevel, Unwinding
  <1> QED
    BY <1>3, <1>4, <1>5, <1>6, NOthersKeep, ZenonT(30)

(* ... by an answer, ... *)
LEMMA NAnswersKeeps ==
    ASSUME GInv, NInv, OneAtATime, NoNestingRefusal', NEW r \in Requests, Answers(r)
    PROVE  NInv'
  <1>1. ReqInv(r) /\ GShape
    BY DEF GInv
  <1>2. PICK a : Reply(r, a) /\ (Head(todo[r]).do = "refuse" => a = Head(todo[r]).why)
    BY ZenonT(30) DEF Answers
  <1>3. /\ todo[r] # <<>> /\ reg[r] = None /\ Instructions(todo[r])
    BY <1>1, ZenonT(30) DEF Answers, ReqInv, Outside, Counting
  <1>4. /\ todo'[r] = <<>> /\ answer'[r] = a
        /\ \A q \in Requests \ {r} : todo'[q] = todo[q]
    BY <1>1, <1>2 DEF Reply, GShape
  <1>5. a # "nesting"
    BY <1>4 DEF NoNestingRefusal
  <1>6. Open(todo[r]) = 0
    BY <1>3, FirstInstruction DEF Answers
  <1>7. ~(Unwinding(todo[r]) /\ todo[r][Len(todo[r])].why = "nesting")
    <2> SUFFICES ASSUME Unwinding(todo[r]), todo[r][Len(todo[r])].why = "nesting" PROVE FALSE
      OBVIOUS
    <2>1. ~Clean(todo[r])
      BY <1>3, CleanRuns DEF Instructions
    <2>2. Head(todo[r]).do = "refuse"
      BY <1>3, <2>1, FirstInstruction, ZenonT(30) DEF Answers, Outside
    <2> QED
      BY <1>2, <1>3, <1>5, <2>2, FirstInstruction
  <1>8. nesting[PluginOf(r)] = 0
    BY <1>3, <1>6, <1>7, LevelOfServed
  <1>9. PluginOf(r)' = PluginOf(r) /\ nesting' = nesting /\ reg' = reg /\ req' = req
    BY DEF Answers, PluginOf
  <1>10. OwnLevel(r)' /\ LoadedLevel(r)'
    BY <1>3, <1>4, <1>8, <1>9 DEF OwnLevel, LoadedLevel
  <1> QED
    BY <1>3, <1>4, <1>9, <1>10, NOthersKeep, ZenonT(30)

(* ... by the load of a counter, ... *)
LEMMA NLoadKeeps ==
    ASSUME GInv, NInv, OneAtATime, NEW r \in Requests, LoadCounter(r)
    PROVE  NInv'
  <1>1. GShape
    BY DEF GInv
  <1>2. /\ todo[r] # <<>>
        /\ \/ Head(todo[r]).do = "step" /\ reg' = [reg EXCEPT ![r] = steps[PluginOf(r)]]
           \/ Head(todo[r]).do # "step" /\ reg' = [reg EXCEPT ![r] = nesting[PluginOf(r)]]
        /\ UNCHANGED <<nesting, req, todo>>
    BY DEF LoadCounter, Doing, budget
  <1>3. PluginOf(r)' = PluginOf(r)
    BY <1>2 DEF PluginOf
  <1>4. OwnLevel(r)'
    BY <1>2, <1>3, LevelOfServed DEF OwnLevel
  <1>5. LoadedLevel(r)' /\ \A q \in Requests \ {r} : reg'[q] = reg[q]
    BY <1>1, <1>2, <1>3 DEF LoadedLevel, GShape
  <1> QED
    BY <1>2, <1>3, <1>4, <1>5, NOthersKeep

(* ... by Budget.Step, ... *)
LEMMA NStoreStepKeeps ==
    ASSUME GInv, NInv, OneAtATime, NEW r \in Requests, StoreStep(r)
    PROVE  NInv'
  <1>1. GShape
    BY DEF GInv
  <1>2. /\ todo[r] # <<>> /\ Head(todo[r]).do = "step"
        /\ Unwind(r, "steps") \/ Continue(r, <<>>)
        /\ reg' = [reg EXCEPT ![r] = None]
        /\ UNCHANGED <<nesting, req>>
    BY ZenonT(30) DEF StoreStep, Doing
  <1>3. /\ Instructions(todo[r]) /\ nesting[PluginOf(r)] = Open(Tail(todo[r]))
    BY <1>2, LevelOfRunning
  <1>4. /\ Open(todo'[r]) = Open(Tail(todo[r]))
        /\ \A q \in Requests \ {r} : todo'[q] = todo[q]
    <2>1. CASE Unwind(r, "steps")
      BY <1>1, <1>2, <1>3, <2>1, UnwindIs, ZenonT(30) DEF GShape
    <2>2. CASE Continue(r, <<>>)
      <3>1. <<>> \o Tail(todo[r]) = Tail(todo[r])
        BY <1>2, <1>3, PopIsTail, ZenonT(30) DEF Instructions
      <3> QED
        BY <1>1, <2>2, <3>1 DEF Continue, GShape
    <2> QED
      BY <1>2, <2>1, <2>2, ZenonT(30)
  <1>5. todo'[r] = <<>> => Open(todo'[r]) = 0
    BY PushNone
  <1>6. PluginOf(r)' = PluginOf(r) /\ reg'[r] = None /\ \A q \in Requests \ {r} : reg'[q] = reg[q]
    BY <1>1, <1>2, ZenonT(30) DEF PluginOf, GShape
  <1>7. OwnLevel(r)' /\ LoadedLevel(r)'
    BY <1>2, <1>3, <1>4, <1>5, <1>6, ZenonT(30) DEF OwnLevel, LoadedLevel
  <1> QED
    BY <1>2, <1>4, <1>6, <1>7, NOthersKeep, ZenonT(30)

(* ... by Budget.Enter, unless the nesting limit refuses, ... *)
LEMMA NStoreEnterKeeps ==
    ASSUME GInv, NInv, OneAtATime, NEW r \in Requests, StoreEnter(r)
    PROVE  NInv'
  <1>1. GShape
    BY DEF GInv
  <1>2. /\ todo[r] # <<>> /\ Head(todo[r]).do = "enter" /\ reg[r] # None
        /\ nesting' = [nesting EXCEPT ![PluginOf(r)] = reg[r] + 1]
        /\ \/ Unwind(r, "nesting")
           \/ Continue(r, Append(Head(todo[r]).body, Exit(Open(Tail(todo[r])) + 1)))
        /\ reg' = [reg EXCEPT ![r] = None]
        /\ UNCHANGED req
    BY ZenonT(30) DEF StoreEnter, Doing
  <1>3. /\ PluginOf(r) \in Plugins /\ Instructions(todo[r])
        /\ Open(Tail(todo[r])) \in Nat /\ nesting[PluginOf(r)] = Open(Tail(todo[r]))
    BY <1>2, LevelOfRunning
  <1>4. reg[r] = nesting[PluginOf(r)]
    BY <1>2 DEF NInv, LoadedLevel
  <1>5. /\ nesting'[PluginOf(r)] = Open(Tail(todo[r])) + 1
        /\ \A p \in Plugins \ {PluginOf(r)} : nesting'[p] = nesting[p]
    BY <1>1, <1>2, <1>3, <1>4 DEF GShape
  <1>6. PluginOf(r)' = PluginOf(r) /\ reg'[r] = None /\ \A q \in Requests \ {r} : reg'[q] = reg[q]
    BY <1>1, <1>2 DEF PluginOf, GShape
  <1>7. OwnLevel(r)' /\ \A q \in Requests \ {r} : todo'[q] = todo[q]
    <2>1. CASE Unwind(r, "nesting")
      BY <1>1, <1>2, <1>3, <2>1, UnwindIs, ZenonT(30) DEF GShape, OwnLevel
    <2>2. CASE Continue(r, Append(Head(todo[r]).body, Exit(Open(Tail(todo[r])) + 1)))
      <3>1. /\ todo'[r] = Append(Head(todo[r]).body, Exit(Open(Tail(todo[r])) + 1)) \o Tail(todo[r])
            /\ \A q \in Requests \ {r} : todo'[q] = todo[q]
        BY <1>1, <2>2, ZenonT(30) DEF Continue, GShape
      <3>2. Open(todo'[r]) = Open(Tail(todo[r])) + 1
        BY <1>2, <1>3, <3>1, BodyIs
      <3>3. todo'[r] # <<>>
        BY <1>3, <3>2, PushNone
      <3> QED
        BY <1>5, <1>6, <3>1, <3>2, <3>3, ZenonT(30) DEF OwnLevel
    <2> QED
      BY <1>2, <2>1, <2>2
  <1>8. LoadedLevel(r)'
    BY <1>6 DEF LoadedLevel
  <1> QED
    BY <1>2, <1>5, <1>6, <1>7, <1>8, NOthersKeep, ZenonT(30)

(* ... by Budget.Exit, ... *)
LEMMA NStoreExitKeeps ==
    ASSUME GInv, NInv, OneAtATime, NEW r \in Requests, StoreExit(r)
    PROVE  NInv'
  <1>1. GShape /\ Instructions(todo[r]) /\ IsSeq(todo[r]) /\ Framed(todo[r])
    BY ZenonT(30) DEF GInv, ReqInv, Instructions
  <1>2. /\ todo[r] # <<>> /\ Head(todo[r]).do = "exit" /\ reg[r] # None
        /\ nesting' = [nesting EXCEPT ![PluginOf(r)] =
                         IF reg[r] > 0 THEN reg[r] - 1 ELSE nesting[PluginOf(r)]]
        /\ todo' = [todo EXCEPT ![r] = <<>> \o Tail(todo[r])]
        /\ reg' = [reg EXCEPT ![r] = None]
        /\ UNCHANGED req
    BY DEF StoreExit, Doing, Continue
  <1>3. /\ PluginOf(r) \in Plugins
        /\ \/ Unwinding(todo[r]) /\ todo[r][Len(todo[r])].why = "nesting"
           \/ nesting[PluginOf(r)] = Open(todo[r])
    BY <1>2, LevelOfServed
  <1>4. Open(Tail(todo[r])) \in Nat /\ Open(todo[r]) = Open(Tail(todo[r])) + 1
    BY <1>1, <1>2, OpenOfTail
  <1>5. reg[r] = nesting[PluginOf(r)]
    BY <1>2 DEF NInv, LoadedLevel
  <1>6. todo'[r] = Tail(todo[r]) /\ \A q \in Requests \ {r} : todo'[q] = todo[q]
    BY <1>1, <1>2, PopIsTail DEF GShape
  <1>7. PluginOf(r)' = PluginOf(r) /\ reg'[r] = None /\ \A q \in Requests \ {r} : reg'[q] = reg[q]
    BY <1>1, <1>2 DEF PluginOf, GShape
  <1>8. \A p \in Plugins \ {PluginOf(r)} : nesting'[p] = nesting[p]
    BY <1>1, <1>2 DEF GShape
  <1>9. OwnLevel(r)'
    <2>1. CASE Unwinding(todo[r]) /\ todo[r][Len(todo[r])].why = "nesting"
      <3>1. Unwinding(Tail(todo[r])) /\ Tail(todo[r])[Len(Tail(todo[r]))] = todo[r][Len(todo[r])]
        BY <1>1, <1>2, <2>1, PopExit, ZenonT(30)
      <3> QED
        BY <1>6, <2>1, <3>1, ZenonT(30) DEF OwnLevel
    <2>2. CASE nesting[PluginOf(r)] = Open(todo[r])
      <3>1. nesting'[PluginOf(r)] = Open(Tail(todo[r]))
        <4>1. reg[r] > 0 /\ reg[r] - 1 = Open(Tail(todo[r]))
          BY <1>4, <1>5, <2>2
        <4> QED
          BY <1>1, <1>2, <1>3, <4>1, ZenonT(30) DEF GShape
      <3>2. todo'[r] = <<>> => Open(todo'[r]) = 0
        BY PushNone
      <3> QED
        BY <1>6, <1>7, <3>1, <3>2, ZenonT(30) DEF OwnLevel
    <2> QED
      BY <1>3, <2>1, <2>2
  <1>10. LoadedLevel(r)'
    BY <1>7 DEF LoadedLevel
  <1> QED
    BY <1>2, <1>6, <1>7, <1>8, <1>9, <1>10, NOthersKeep

(* ... and by a new request. *)
LEMMA NReceiveKeeps ==
    ASSUME GInv, NInv, OneAtATime', NEW r \in Requests, NEW cn, NEW table, NEW facts,
           Receive(r, cn, table, facts)
    PROVE  NInv'
  <1> DEFINE new == [cn |-> cn, table |-> table, brought |-> facts, facts |-> facts,
                     seen |-> [s \in DOMAIN StepOf |-> None]]
  <1>1. ReqInv(r) /\ GShape
    BY DEF GInv
  <1>2. /\ todo[r] = <<>> /\ reg[r] = None
        /\ req' = [req EXCEPT ![r] = new]
        /\ nesting' = nesting /\ reg' = reg
    BY <1>1, ZenonT(30) DEF Receive, ReqInv, budget
  <1>3. /\ PluginOf(r)' = cn
        /\ \A q \in Requests \ {r} : PluginOf(q)' = PluginOf(q)
    <2>1. /\ req'[r] = new
          /\ \A q \in Requests \ {r} : req'[q] = req[q]
      BY <1>1, <1>2 DEF GShape
    <2> QED
      BY <2>1 DEF PluginOf
  <1>4. /\ \A q \in Requests \ {r} : todo'[q] = todo[q]
        /\ todo'[r] = <<>> \/ todo'[r] = Decide(Rules[cn])
    BY <1>1, <1>2, ZenonT(30) DEF GShape, Receive
  <1>5. Open(todo'[r]) = 0
    BY <1>4, PushNone, DecideIs, ZenonT(30)
  <1>6. ASSUME NEW p \in Plugins PROVE (Overrun(p) \/ Balanced(p))'
    <2>1. CASE Overrun(p)
      <3>1. PICK q \in Requests :
              Unwinding(todo[q]) /\ todo[q][Len(todo[q])].why = "nesting" /\ PluginOf(q) = p
        BY <2>1 DEF Overrun
      <3>2. q # r
        BY <1>2, <3>1 DEF Unwinding
      <3> QED
        BY <1>3, <1>4, <3>1, <3>2, ZenonT(30) DEF Overrun
    <2>2. CASE Balanced(p)
      <3>1. \A q \in Requests : todo[q] # <<>> /\ PluginOf(q) = p =>
              q # r /\ todo'[q] # <<>> /\ PluginOf(q)' = p
        BY <1>2, <1>3, <1>4, ZenonT(30)
      <3>2. (\A q \in Requests : todo'[q] # <<>> => PluginOf(q)' # p) => nesting'[p] = 0
        BY <1>2, <2>2, <3>1, ZenonT(30) DEF Balanced
      <3>3. ASSUME NEW q \in Requests, todo'[q] # <<>>, PluginOf(q)' = p
            PROVE  nesting'[p] = Open(todo'[q])
        <4>1. CASE q # r
          BY <1>2, <1>3, <1>4, <2>2, <3>3, <4>1, ZenonT(30) DEF Balanced
        <4>2. CASE q = r
          <5>1. \A x \in Requests : todo[x] # <<>> => PluginOf(x) # p
            BY <1>3, <1>4, <3>1, <3>3, <4>2, ZenonT(30) DEF OneAtATime
          <5> QED
            BY <1>2, <1>5, <2>2, <4>2, <5>1, ZenonT(30) DEF Balanced
        <4> QED
          BY <4>1, <4>2
      <3>4. Balanced(p)'
        BY <3>2, <3>3, ZenonT(30) DEF Balanced
      <3> QED
        BY <3>4
    <2> QED
      BY <2>1, <2>2 DEF NInv
  <1>7. ASSUME NEW q \in Requests PROVE LoadedLevel(q)'
    <2>1. CASE q = r
      BY <1>2, <2>1 DEF LoadedLevel
    <2>2. CASE q # r
      BY <1>2, <1>3, <1>4, <2>2, ZenonT(30) DEF LoadedLevel, NInv
    <2> QED
      BY <2>1, <2>2
  <1> QED
    BY <1>6, <1>7 DEF NInv

(* NInv holds at the start ... *)
LEMMA NInvInit == GatewayInit => NInv
  BY DEF GatewayInit, NInv, Balanced, LoadedLevel

(* ... and is kept by every step of requests that come one at a time. *)
LEMMA NInvNext ==
    GInv /\ NInv /\ OneAtATime /\ OneAtATime' /\ NoNestingRefusal' /\ [GatewayNext]_gatewayVars
      => NInv'
  <1> SUFFICES ASSUME GInv, NInv, OneAtATime, OneAtATime', NoNestingRefusal',
                      [GatewayNext]_gatewayVars
               PROVE  NInv'
    OBVIOUS
  <1>1. CASE UNCHANGED gatewayVars
    BY <1>1, ZenonT(30) DEF gatewayVars, budget, NInv, Overrun, Balanced, LoadedLevel, PluginOf
  <1>2. ASSUME NEW r \in Requests, NEW cn, NEW t, NEW f, Receive(r, cn, t, f) PROVE NInv'
    BY <1>2, NReceiveKeeps
  <1>3. ASSUME NEW r \in Requests, Serve(r) PROVE NInv'
    BY <1>3, ServeKinds, NMovesKeeps, NFailsKeeps, NAnswersKeeps, NLoadKeeps,
       NStoreStepKeeps, NStoreEnterKeeps, NStoreExitKeeps
  <1> QED
    BY <1>1, <1>2, <1>3 DEF GatewayNext, AllAnswered

(* When the requests of a plugin come one after the other and none is      *)
(* refused for its nesting, every frame that Budget.Enter counts is given  *)
(* back by a deferred Exit, on every path through the interpreter and out  *)
(* of it by an error: an idle plugin is at level 0.                        *)
THEOREM LevelsAreGivenBack ==
    SafetySpec /\ []OneAtATime /\ []NoNestingRefusal => []NestingBalanced
  <1>1. NInv => NestingBalanced
    <2> SUFFICES ASSUME NInv, NEW p \in Plugins,
                        \A r \in Requests : todo[r] # <<>> => PluginOf(r) # p
                 PROVE  nesting[p] = 0
      BY DEF NestingBalanced
    <2>1. ~Overrun(p)
      BY DEF Overrun, Unwinding
    <2> QED
      BY <2>1 DEF NInv, Balanced
  <1> QED
    BY <1>1, GInvInit, GInvNext, NInvInit, NInvNext, PTL DEF SafetySpec

--------------------------------------------------------------------------------
(* How deep an instruction lies: the frames whose Exits come after it are  *)
(* those that will be open when it is executed, and its depth bounds them. *)
Deep(s) ==
    \A k, j \in DOMAIN s :
        k < j /\ s[k].do \in HasDepth /\ s[j].do = "exit" => s[j].frame <= Frames(s[k])

(* All frames open at the first instruction have their Exits after it. *)
LEMMA DepthBoundsOpen ==
    ASSUME NEW s, Instructions(s), s # <<>>, Deep(s), Head(s).do \in HasDepth
    PROVE  /\ Frames(Head(s)) \in Nat /\ Head(s).depth \in Nat
           /\ Open(Tail(s)) \in Nat /\ Open(Tail(s)) <= Frames(Head(s))
  <1> DEFINE n == Open(s)
  <1>1. /\ DOMAIN s = 1 .. Len(s) - 1 + 1 /\ Len(s) - 1 \in Nat
        /\ 1 \in DOMAIN s /\ Head(s) = s[1]
    BY TailIsSeq, ZenonT(30) DEF Instructions
  <1>2. Head(s).do \notin {"exit", "refuse"}
    BY DEF HasDepth
  <1>3. Exiting(s, n) /\ n \in Nat
    BY ZenonT(30) DEF Instructions, Framed, Exiting
  <1>4. Open(Tail(s)) \in Nat /\ n = Open(Tail(s)) + 0
    BY <1>2, OpenOfTail DEF Instructions
  <1>5. Head(s).depth \in Nat /\ Frames(Head(s)) \in Nat
    <2>1. Head(s).depth \in Nat
      BY <1>2, FirstInstruction, ZenonT(30) DEF Good
    <2> QED
      BY <2>1 DEF Frames
  <1> HIDE DEF n
  <1>6. CASE n # 0
    <2>1. n \in 1 .. n
      BY <1>3, <1>6
    <2>2. PICK k \in DOMAIN s : s[k].do = "exit" /\ s[k].frame = n
      BY <1>3, <2>1 DEF Exiting
    <2>3. 1 < k
      BY <1>1, <1>2, <2>2
    <2>4. n <= Frames(Head(s))
      BY <1>1, <2>2, <2>3 DEF Deep
    <2> QED
      BY <1>4, <1>5, <2>4
  <1> QED
    BY <1>4, <1>5, <1>6

(* The first instruction is replaced by ones that lie deep enough. *)
LEMMA PushKeepsDeep ==
    ASSUME NEW s, Instructions(s), s # <<>>, Deep(s), NEW a, IsSeq(a), Deep(a),
           \A k \in DOMAIN a : a[k].do \in HasDepth =>
             Frames(a[k]) \in Nat /\ Open(Tail(s)) <= Frames(a[k])
    PROVE  Deep(a \o Tail(s))
  <1> DEFINE b == Tail(s)
             t == a \o b
             n == Len(a)
             m == Len(s) - 1
  <1>1. /\ IsSeq(b) /\ m \in Nat /\ DOMAIN s = 1 .. m + 1
        /\ Len(b) = m /\ DOMAIN b = 1 .. m
        /\ \A i \in 1 .. m : b[i] = s[i + 1]
    BY TailIsSeq, ZenonT(30) DEF Instructions
  <1>2. /\ n \in Nat /\ DOMAIN a = 1 .. n /\ DOMAIN t = 1 .. n + m
        /\ \A i \in 1 .. n : t[i] = a[i]
        /\ \A i \in 1 .. m : t[n + i] = b[i]
    BY <1>1, ConcatIsSeq
  <1>3. Exiting(b, Open(b)) /\ Open(b) \in Nat
    BY OpenOfTail DEF Instructions, Framed
  <1> HIDE DEF t, n, m, b
  <1>4. ASSUME NEW k \in DOMAIN t, k > n
        PROVE  /\ k - n \in DOMAIN b /\ t[k] = b[k - n]
               /\ k - n + 1 \in DOMAIN s /\ t[k] = s[k - n + 1]
    <2>1. k - n \in 1 .. m /\ n + (k - n) = k
      BY <1>1, <1>2, <1>4
    <2> QED
      BY <1>1, <1>2, <2>1
  <1>5. ASSUME NEW k \in DOMAIN t, NEW j \in DOMAIN t,
               k < j, t[k].do \in HasDepth, t[j].do = "exit"
        PROVE  t[j].frame <= Frames(t[k])
    <2>1. CASE k > n
      <3>1. j > n /\ k - n + 1 < j - n + 1
        BY <1>2, <1>5, <2>1
      <3>2. /\ k - n + 1 \in DOMAIN s /\ t[k] = s[k - n + 1]
            /\ j - n + 1 \in DOMAIN s /\ t[j] = s[j - n + 1]
        BY <1>4, <2>1, <3>1
      <3> QED
        BY <1>5, <3>1, <3>2 DEF Deep
    <2>2. CASE j <= n
      <3>1. k \in DOMAIN a /\ j \in DOMAIN a /\ t[k] = a[k] /\ t[j] = a[j]
        BY <1>2, <1>5, <2>2
      <3> QED
        BY <1>5, <3>1 DEF Deep
    <2>3. CASE k <= n /\ j > n
      <3>1. k \in DOMAIN a /\ t[k] = a[k]
        BY <1>2, <2>3
      <3>2. t[j].frame \in 1 .. Open(b)
        BY <1>3, <1>4, <1>5, <2>3, SMTT(30) DEF Exiting
      <3>3. Frames(t[k]) \in Nat /\ Open(b) <= Frames(t[k])
        BY <1>5, <3>1 DEF b
      <3> QED
        BY <1>3, <3>2, <3>3
    <2> QED
      BY <1>2, <2>1, <2>2, <2>3
  <1> QED
    BY <1>5 DEF Deep, t, b

(* After an error nothing carries a depth, and outside of all frames       *)
(* nothing is too deep.                                                    *)
LEMMA UnwindingIsDeep == ASSUME NEW s, IsSeq(s), Unwinding(s) PROVE Deep(s)
  <1>1. DOMAIN s = 1 .. Len(s) /\ Len(s) \in Nat
    BY DEF IsSeq
  <1>2. \A k \in DOMAIN s : s[k].do \in {"exit", "refuse"}
    BY <1>1 DEF Unwinding
  <1> QED
    BY <1>2 DEF Deep, HasDepth

(* Where no frame is open, none lies deeper than its instructions. *)
LEMMA UnframedIsDeep == ASSUME NEW s, Instructions(s), Open(s) = 0 PROVE Deep(s)
  BY DEF Instructions, Framed, Exiting, Deep

DInv == \A r \in Requests : Deep(todo[r])

(* No instruction ever lies deeper than its depth allows. *)
LEMMA DInvNext == GInv /\ DInv /\ [GatewayNext]_gatewayVars => DInv'
  <1> SUFFICES ASSUME GInv, DInv, [GatewayNext]_gatewayVars PROVE DInv'
    OBVIOUS
  <1>0. GShape
    BY DEF GInv
  <1>1. CASE UNCHANGED todo
    BY <1>1 DEF DInv
  <1>2. ASSUME NEW r \in Requests, Deep(todo'[r]), \A q \in Requests \ {r} : todo'[q] = todo[q]
        PROVE  DInv'
    <2> SUFFICES ASSUME NEW q \in Requests PROVE Deep(todo'[q])
      BY DEF DInv
    <2> QED
      BY <1>2 DEF DInv
  <1>3. ASSUME NEW r \in Requests, NEW why, todo[r] # <<>>, Unwind(r, why) PROVE DInv'
    <2>1. Instructions(todo[r])
      BY DEF GInv, ReqInv
    <2>2. /\ IsSeq(todo'[r]) /\ Unwinding(todo'[r])
          /\ \A q \in Requests \ {r} : todo'[q] = todo[q]
      BY <1>0, <1>3, <2>1, UnwindIs, ZenonT(30) DEF GShape, Instructions
    <2> QED
      BY <1>2, <2>2, UnwindingIsDeep
  <1>4. ASSUME NEW r \in Requests, NEW a, todo[r] # <<>>, Continue(r, a), IsSeq(a), Deep(a),
               \A k \in DOMAIN a : a[k].do \in HasDepth =>
                 Frames(a[k]) \in Nat /\ Open(Tail(todo[r])) <= Frames(a[k])
        PROVE  DInv'
    <2>1. Instructions(todo[r]) /\ Deep(todo[r])
      BY ZenonT(30) DEF GInv, ReqInv, DInv
    <2>2. Deep(a \o Tail(todo[r]))
      BY <1>4, <2>1, PushKeepsDeep
    <2>3. todo'[r] = a \o Tail(todo[r]) /\ \A q \in Requests \ {r} : todo'[q] = todo[q]
      BY <1>0, <1>4 DEF Continue, GShape
    <2> QED
      BY <1>2, <2>2, <2>3, ZenonT(30)
  <1>5. ASSUME NEW r \in Requests, todo[r] # <<>>, Continue(r, <<>>) PROVE DInv'
    <2>1. IsSeq(<<>>) /\ DOMAIN <<>> = {} /\ Deep(<<>>)
      BY PushNone DEF Pushable, Deep
    <2> QED
      BY <1>4, <1>5, <2>1
  <1>6. ASSUME NEW r \in Requests, todo'[r] = <<>>, \A q \in Requests \ {r} : todo'[q] = todo[q]
        PROVE  DInv'
    <2>1. Deep(<<>>)
      BY DEF Deep
    <2> QED
      BY <1>2, <1>6, <2>1
  <1>7. ASSUME NEW r \in Requests, NEW cn, NEW t, NEW f, Receive(r, cn, t, f) PROVE DInv'
    <2>1. CASE UNCHANGED todo
      BY <1>1, <2>1
    <2>2. CASE todo' = [todo EXCEPT ![r] = Decide(Rules[cn])]
      <3>1. Deep(Decide(Rules[cn]))
        BY DecideIs, UnframedIsDeep
      <3>2. todo'[r] = Decide(Rules[cn]) /\ \A q \in Requests \ {r} : todo'[q] = todo[q]
        BY <1>0, <2>2 DEF GShape
      <3> QED
        BY <1>2, <3>1, <3>2
    <2> QED
      BY <1>7, <2>1, <2>2 DEF Receive
  <1>8. ASSUME NEW r \in Requests, Moves(r) PROVE DInv'
    <2> DEFINE h == Head(todo[r])
    <2>1. PICK a : Pushed(a, Frames(h)) /\ Continue(r, a) /\ (a = <<>> \/ h.do \in HasDepth)
      BY <1>8 DEF Moves
    <2>2. todo[r] # <<>> /\ Instructions(todo[r]) /\ Deep(todo[r])
      BY <1>8, ZenonT(30) DEF GInv, ReqInv, DInv, Moves
    <2>3. IsSeq(a) /\ Deep(a)
      BY <2>1 DEF Pushed, Pushable, Deep
    <2>4. CASE a = <<>>
      BY <1>5, <2>1, <2>2, <2>4
    <2>5. CASE h.do \in HasDepth
      <3>1. Frames(h) \in Nat /\ Open(Tail(todo[r])) \in Nat /\ Open(Tail(todo[r])) <= Frames(h)
        BY <2>2, <2>5, DepthBoundsOpen
      <3>2. ASSUME NEW k \in DOMAIN a, a[k].do \in HasDepth
            PROVE  Frames(a[k]) \in Nat /\ Open(Tail(todo[r])) <= Frames(a[k])
        <4>1. a[k].depth \in Nat /\ Frames(h) <= Frames(a[k])
          BY <2>1, <3>2 DEF Pushed, Pushable, Good
        <4>2. Frames(a[k]) \in Nat
          BY <4>1 DEF Frames
        <4> QED
          BY <3>1, <4>1, <4>2
      <3> QED
        BY <1>4, <2>1, <2>2, <2>3, <3>2, ZenonT(30)
    <2> QED
      BY <2>1, <2>4, <2>5, ZenonT(30)
  <1>9. ASSUME NEW r \in Requests, StoreEnter(r) PROVE DInv'
    <2> DEFINE h == Head(todo[r])
               f == Open(Tail(todo[r])) + 1
    <2>1. /\ todo[r] # <<>> /\ h.do = "enter" /\ h.do \in HasDepth
          /\ Unwind(r, "nesting") \/ Continue(r, Append(h.body, Exit(f)))
      BY <1>9, ZenonT(30) DEF StoreEnter, Doing, HasDepth
    <2>2. Instructions(todo[r]) /\ Deep(todo[r])
      BY ZenonT(30) DEF GInv, ReqInv, DInv
    <2>3. Good(h)
      BY <2>1, <2>2, FirstInstruction, ZenonT(30)
    <2>4. CASE Continue(r, Append(h.body, Exit(f)))
      <3>1. PICK b : h.body = <<b>> /\ b.do \in {"eval", "steps"} /\ b.depth = h.depth
        BY <2>1, <2>3 DEF Good
      <3>2. h.depth \in Nat /\ Open(Tail(todo[r])) \in Nat /\ Open(Tail(todo[r])) <= Frames(h)
        BY <2>1, <2>2, DepthBoundsOpen
      <3>3. Frames(h) = h.depth /\ Frames(b) = h.depth + 1 /\ Inner(b, 0)
        BY <2>1, <3>1, <3>2 DEF Frames, Inner, Good, Outside
      <3> DEFINE a == Append(<<b>>, Exit(f))
      <3>4. /\ Pushable(a) /\ DOMAIN a = {1, 2}
            /\ a[1] = b /\ a[2].do = "exit" /\ a[2].frame = f
        BY <3>3, PushBody
      <3>5. Continue(r, a) /\ IsSeq(a)
        BY <2>4, <3>1, <3>4 DEF Pushable
      <3> HIDE DEF a, h
      <3>6. f <= Frames(b) /\ Frames(b) \in Nat /\ Open(Tail(todo[r])) <= Frames(b)
        BY <3>2, <3>3
      <3>7. Deep(a)
        BY <3>1, <3>4, <3>6 DEF Deep
      <3>8. \A k \in DOMAIN a : a[k].do \in HasDepth =>
              Frames(a[k]) \in Nat /\ Open(Tail(todo[r])) <= Frames(a[k])
        BY <3>4, <3>6 DEF HasDepth
      <3> QED
        BY <1>4, <2>1, <3>5, <3>7, <3>8, ZenonT(30)
    <2> QED
      BY <1>3, <2>1, <2>4
  <1>10. ASSUME NEW r \in Requests, Serve(r) PROVE DInv'
    <2>1. CASE Fails(r)
      BY <1>3, <2>1 DEF Fails
    <2>2. CASE Answers(r)
      BY <1>0, <1>6, <2>2 DEF Answers, Reply, GShape
    <2>3. CASE LoadCounter(r)
      BY <1>1, <2>3 DEF LoadCounter
    <2>4. CASE StoreStep(r)
      BY <1>3, <1>5, <2>4 DEF StoreStep, Doing
    <2>5. CASE StoreExit(r)
      BY <1>5, <2>5 DEF StoreExit, Doing
    <2> QED
      BY <1>8, <1>9, <1>10, <2>1, <2>2, <2>3, <2>4, <2>5, ServeKinds
  <1> QED
    BY <1>1, <1>7, <1>10 DEF GatewayNext, AllAnswered, gatewayVars

(* No request is refused, or on its way to be refused, for its nesting. *)
BInv ==
    \A r \in Requests :
        /\ answer[r] # "nesting"
        /\ Unwinding(todo[r]) => todo[r][Len(todo[r])].why # "nesting"

(* An Enter past the depth check meets fewer than MaxNesting open frames. *)
LEMMA BInvNext ==
    ASSUME MaxDepth < MaxNesting
    PROVE  GInv /\ NInv /\ DInv /\ BInv /\ OneAtATime /\ [GatewayNext]_gatewayVars => BInv'
  <1> SUFFICES ASSUME GInv, NInv, DInv, BInv, OneAtATime, [GatewayNext]_gatewayVars
               PROVE  BInv'
    OBVIOUS
  <1>0. GShape
    BY DEF GInv
  <1>1. CASE UNCHANGED <<todo, answer>>
    BY <1>1 DEF BInv
  <1>2. ASSUME NEW r \in Requests, answer'[r] # "nesting",
               Unwinding(todo'[r]) => todo'[r][Len(todo'[r])].why # "nesting",
               \A q \in Requests \ {r} : todo'[q] = todo[q] /\ answer'[q] = answer[q]
        PROVE  BInv'
    <2> SUFFICES ASSUME NEW q \in Requests
                 PROVE  /\ answer'[q] # "nesting"
                        /\ Unwinding(todo'[q]) => todo'[q][Len(todo'[q])].why # "nesting"
      BY DEF BInv
    <2>1. CASE q = r
      BY <1>2, <2>1
    <2>2. CASE q # r
      BY <1>2, <2>2 DEF BInv
    <2> QED
      BY <2>1, <2>2
  <1>3. ASSUME NEW r \in Requests, NEW why, todo[r] # <<>>, Unwind(r, why), why # "nesting",
               UNCHANGED answer
        PROVE  BInv'
    <2>1. Instructions(todo[r])
      BY DEF GInv, ReqInv
    <2>2. /\ todo'[r][Len(todo'[r])].why = why
          /\ \A q \in Requests \ {r} : todo'[q] = todo[q]
      BY <1>0, <1>3, <2>1, UnwindIs DEF GShape
    <2> QED
      BY <1>2, <1>3, <2>2 DEF BInv
  <1>4. ASSUME NEW r \in Requests, ~Unwinding(todo'[r]), UNCHANGED answer,
               \A q \in Requests \ {r} : todo'[q] = todo[q]
        PROVE  BInv'
    BY <1>2, <1>4, ZenonT(30) DEF BInv
  <1>5. ASSUME NEW r \in Requests, NEW a, NEW n, todo[r] # <<>>,
               Head(todo[r]).do \notin {"exit", "refuse"},
               Continue(r, a), Pushed(a, n), UNCHANGED answer
        PROVE  BInv'
    <2>1. Instructions(todo[r]) /\ Clean(todo[r])
      BY <1>5, FirstInstruction, ZenonT(30) DEF GInv, ReqInv
    <2>2. todo'[r] = a \o Tail(todo[r]) /\ \A q \in Requests \ {r} : todo'[q] = todo[q]
      BY <1>0, <1>5 DEF Continue, GShape
    <2>3. ~Unwinding(todo'[r])
      BY <1>5, <2>1, <2>2, PushIs
    <2> QED
      BY <1>4, <1>5, <2>2, <2>3, ZenonT(30)
  <1>6. ASSUME NEW r \in Requests, NEW cn, NEW t, NEW f, Receive(r, cn, t, f) PROVE BInv'
    <2>1. todo[r] = <<>>
      BY <1>6 DEF Receive
    <2>2. /\ answer'[r] # "nesting"
          /\ \A q \in Requests \ {r} : answer'[q] = answer[q] /\ todo'[q] = todo[q]
          /\ todo'[r] = <<>> \/ todo'[r] = Decide(Rules[cn])
      BY <1>0, <1>6, <2>1, ZenonT(30) DEF GShape, Receive
    <2>3. ~Unwinding(todo'[r])
      BY <2>2, DecideIs, ZenonT(30) DEF Unwinding
    <2> QED
      BY <1>2, <2>2, <2>3, ZenonT(30)
  <1>7. ASSUME NEW r \in Requests, Moves(r) PROVE BInv'
    BY <1>5, <1>7, ZenonT(30) DEF Moves, Counting
  <1>8. ASSUME NEW r \in Requests, Fails(r) PROVE BInv'
    BY <1>3, <1>8 DEF Fails
  <1>9. ASSUME NEW r \in Requests, Answers(r) PROVE BInv'
    <2>1. PICK a : /\ Reply(r, a)
                   /\ Head(todo[r]).do = "refuse" => a = Head(todo[r]).why
                   /\ Head(todo[r]).do # "refuse" => a \notin {"steps", "nesting"}
      BY <1>9 DEF Answers
    <2>2. todo[r] # <<>> /\ Instructions(todo[r])
      BY <1>9, ZenonT(30) DEF Answers, GInv, ReqInv
    <2>3. a # "nesting"
      BY <2>1, <2>2, FirstInstruction DEF BInv
    <2>4. /\ todo'[r] = <<>> /\ answer'[r] = a
          /\ \A q \in Requests \ {r} : todo'[q] = todo[q] /\ answer'[q] = answer[q]
      BY <1>0, <2>1 DEF Reply, GShape
    <2> QED
      BY <1>2, <2>3, <2>4 DEF Unwinding
  <1>10. ASSUME NEW r \in Requests, LoadCounter(r) PROVE BInv'
    BY <1>1, <1>10 DEF LoadCounter
  <1>11. ASSUME NEW r \in Requests, StoreStep(r) PROVE BInv'
    BY <1>3, <1>5, <1>11, PushNone, ZenonT(30) DEF StoreStep, Doing
  <1>12. ASSUME NEW r \in Requests, StoreEnter(r) PROVE BInv'
    <2> DEFINE h == Head(todo[r])
    <2>1. /\ todo[r] # <<>> /\ h.do = "enter" /\ reg[r] # None /\ UNCHANGED answer
          /\ IF reg[r] + 1 > MaxNesting THEN Unwind(r, "nesting")
             ELSE Continue(r, Append(h.body, Exit(Open(Tail(todo[r])) + 1)))
      BY <1>12, ZenonT(30) DEF StoreEnter, Doing
    <2>2. Instructions(todo[r]) /\ Deep(todo[r]) /\ h.depth <= MaxDepth
      BY <2>1, ZenonT(30) DEF GInv, ReqInv, DInv
    <2>3. reg[r] = Open(Tail(todo[r]))
      BY <2>1, LevelOfRunning, ZenonT(30) DEF NInv, LoadedLevel
    <2>4. h.depth \in Nat /\ Open(Tail(todo[r])) \in Nat /\ Open(Tail(todo[r])) <= h.depth
      <3>1. h.depth \in Nat /\ Open(Tail(todo[r])) \in Nat /\ Open(Tail(todo[r])) <= Frames(h)
        BY <2>1, <2>2, DepthBoundsOpen DEF HasDepth
      <3> QED
        BY <2>1, <3>1 DEF Frames
    <2>5. MaxDepth \in Nat /\ MaxNesting \in Nat
      BY BudgetAssumption
    <2>6. ~(reg[r] + 1 > MaxNesting)
      <3> HIDE DEF h
      <3> QED
        BY <2>2, <2>3, <2>4, <2>5
    <2>7. /\ todo'[r] = Append(h.body, Exit(Open(Tail(todo[r])) + 1)) \o Tail(todo[r])
          /\ \A q \in Requests \ {r} : todo'[q] = todo[q]
      BY <1>0, <2>1, <2>6 DEF Continue, GShape
    <2>8. ~Unwinding(todo'[r])
      BY <2>1, <2>2, <2>7, BodyIs
    <2> QED
      BY <1>4, <2>1, <2>7, <2>8, ZenonT(30)
  <1>13. ASSUME NEW r \in Requests, StoreExit(r) PROVE BInv'
    <2>1. /\ todo[r] # <<>> /\ Head(todo[r]).do = "exit" /\ Continue(r, <<>>) /\ UNCHANGED answer
      BY <1>13 DEF StoreExit, Doing
    <2>2. Instructions(todo[r]) /\ IsSeq(todo[r])
      BY ZenonT(30) DEF GInv, ReqInv, Instructions
    <2>3. todo'[r] = Tail(todo[r]) /\ \A q \in Requests \ {r} : todo'[q] = todo[q]
      BY <1>0, <2>1, <2>2, PopIsTail DEF Continue, GShape
    <2>4. /\ Unwinding(todo[r]) <=> Unwinding(Tail(todo[r]))
          /\ Unwinding(todo[r]) => Tail(todo[r])[Len(Tail(todo[r]))] = todo[r][Len(todo[r])]
      BY <2>1, <2>2, PopExit, ZenonT(30)
    <2>5. Unwinding(todo'[r]) => todo'[r][Len(todo'[r])].why # "nesting"
      BY <2>3, <2>4, ZenonT(30) DEF BInv
    <2> QED
      BY <1>2, <2>1, <2>3, <2>5, ZenonT(30) DEF BInv
  <1>14. ASSUME NEW r \in Requests, Serve(r) PROVE BInv'
    BY <1>7, <1>8, <1>9, <1>10, <1>11, <1>12, <1>13, <1>14, ServeKinds
  <1> QED
    BY <1>1, <1>6, <1>14 DEF GatewayNext, AllAnswered, gatewayVars

(* The bounds on depth hold at the start. *)
LEMMA DBInvInit == GatewayInit => DInv /\ BInv
  <1> SUFFICES ASSUME GatewayInit, NEW r \in Requests
               PROVE  Deep(todo[r]) /\ answer[r] # "nesting" /\ ~Unwinding(todo[r])
    BY DEF DInv, BInv
  <1>1. todo[r] = <<>> /\ answer[r] = "none"
    BY DEF GatewayInit
  <1> QED
    BY <1>1 DEF Deep, Unwinding

(* A budget that refuses by depth before it refuses by nesting never       *)
(* refuses by nesting: when the requests of a plugin come one after the    *)
(* other, no condition or step is deeper than the frames open around it,   *)
(* and every level is given back without exception.                        *)
THEOREM DepthKeepsLevelsBalanced ==
    ASSUME MaxDepth < MaxNesting
    PROVE  SafetySpec /\ []OneAtATime => [](NestingBalanced /\ NoNestingRefusal)
  <1>1. NInv => NestingBalanced
    <2> SUFFICES ASSUME NInv, NEW p \in Plugins,
                        \A r \in Requests : todo[r] # <<>> => PluginOf(r) # p
                 PROVE  nesting[p] = 0
      BY DEF NestingBalanced
    <2>1. ~Overrun(p)
      BY DEF Overrun, Unwinding
    <2> QED
      BY <2>1 DEF NInv, Balanced
  <1>2. BInv => NoNestingRefusal
    BY DEF BInv, NoNestingRefusal
  <1>3. GInv /\ NInv /\ DInv /\ BInv /\ OneAtATime /\ [GatewayNext]_gatewayVars => BInv'
    BY BInvNext
  <1>4. BInv' => NoNestingRefusal'
    BY DEF BInv, NoNestingRefusal
  <1> QED
    BY <1>1, <1>2, <1>3, <1>4, GInvInit, GInvNext, NInvInit, NInvNext, DInvNext, DBInvInit, PTL
    DEF SafetySpec
================================================================================
