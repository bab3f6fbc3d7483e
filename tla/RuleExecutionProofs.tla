-------------------------- MODULE RuleExecutionProofs --------------------------
(***************************************************************************)
(* A rule is executed as written, for any rules, requests and goroutines:  *)
(* a query is authorised, comes after the whole flow, and no operation is  *)
(* repeated (ExecutionIsFaithful).                                         *)
(*                                                                         *)
(* Runs is established when a request is received and kept by each         *)
(* instruction (RuleInterpreterProofs); at the allow nothing is left, so   *)
(* that what was executed is the flow.  The operations stand in the order  *)
(* of the rule's text, so none is repeated.  The inductive invariant is    *)
(* ExecInv together with GInv, which says that an error path leads to      *)
(* nothing but Exits and the refusal.                                      *)
(***************************************************************************)
EXTENDS RuleInterpreterProofs

(* The time limits of the provers, in seconds: Zenon is tried, then SMT. *)
USE ZenonT(10), SMTT(30)

(* What ExecutionIsFaithful says of a request answered by the database. *)
Faithful(q, o) ==
    /\ q.cn \in Plugins /\ Rules[q.cn].tables = <<q.table>> /\ Permitted(q)
    /\ Rules[q.cn].hasFlow => o = Trace(Rules[q.cn].flow, q.seen)

FromDatabase == {"rows", "queryError"}

(* The state of one request: t is left to do, o was executed, a answered. *)
Progress(t, q, v, o, a) ==
    /\ Increasing(o)
    /\ t # <<>> =>
         /\ a \notin FromDatabase
         /\ (Unwinding(t) /\ t[Len(t)].why \notin FromDatabase) \/ Runs(t, q, v, o)
    /\ a \in FromDatabase => Faithful(q, o)

ExecReq(r) == Progress(todo[r], req[r], ret[r], ops[r], answer[r])

ExecInv == DOMAIN ret = Requests /\ DOMAIN ops = Requests /\ \A r \in Requests : ExecReq(r)

(* A request that runs on, ... *)
LEMMA ProgressRuns ==
    ASSUME NEW t, NEW q, NEW v, NEW o, NEW a, Runs(t, q, v, o), Increasing(o), a \notin FromDatabase
    PROVE  Progress(t, q, v, o, a)
  BY ZenonT(30) DEF Progress

(* ... one that is answered, ... *)
LEMMA ProgressEnds ==
    ASSUME NEW q, NEW v, NEW o, NEW a, Increasing(o), a \in FromDatabase => Faithful(q, o)
    PROVE  Progress(<<>>, q, v, o, a)
  BY ZenonT(30) DEF Progress

(* ... and one that unwinds. *)
LEMMA ProgressFails ==
    ASSUME NEW t, NEW q, NEW v, NEW o, NEW a, Increasing(o), a \notin FromDatabase,
           Unwinding(t), t[Len(t)].why \notin FromDatabase
    PROVE  Progress(t, q, v, o, a)
  BY ZenonT(30) DEF Progress

(* What is known of a request before an instruction of it. *)
LEMMA ProgressServes ==
    ASSUME NEW t, NEW q, NEW v, NEW o, NEW a, Progress(t, q, v, o, a), Instructions(t), t # <<>>
    PROVE  /\ IsSeq(t) /\ Increasing(o) /\ a \notin FromDatabase
           /\ Head(t).do \notin {"exit", "refuse"} => Serving(t, q, v, o) /\ Good(Head(t)) /\ Clean(t)
           /\ Head(t).do = "exit" =>
                \/ Serving(t, q, v, o)
                \/ Unwinding(t) /\ t[Len(t)].why \notin FromDatabase
           /\ Head(t).do = "refuse" => Head(t).why \notin FromDatabase
  <1>1. IsSeq(t) /\ Increasing(o) /\ a \notin FromDatabase
    BY ZenonT(30) DEF Progress, Instructions
  <1>2. o \in Seq(DOMAIN StepOf)
    BY <1>1, ZenonT(30) DEF Increasing
  <1>3. Runs(t, q, v, o) => Serving(t, q, v, o)
    BY <1>1, <1>2, ZenonT(30) DEF Serving
  <1>4. Serving(t, q, v, o) \/ (Unwinding(t) /\ t[Len(t)].why \notin FromDatabase)
    BY <1>3, ZenonT(30) DEF Progress
  <1>5. Serving(t, q, v, o) => Head(t).do # "refuse"
    BY HeadIs, ZenonT(30) DEF Shaped
  <1>6. ASSUME Head(t).do \notin {"exit", "refuse"}
        PROVE  Serving(t, q, v, o) /\ Good(Head(t)) /\ Clean(t)
    <2>1. Clean(t) /\ Good(Head(t))
      BY <1>6, FirstInstruction, ZenonT(30)
    <2> QED
      BY <1>1, <1>4, <2>1, CleanRuns, ZenonT(30)
  <1>7. ASSUME Head(t).do = "refuse" PROVE Head(t).why \notin FromDatabase
    BY <1>4, <1>5, <1>7, FirstInstruction, ZenonT(30)
  <1> QED
    BY <1>1, <1>4, <1>6, <1>7, ZenonT(30)

(* A step of request r leaves the others as they are. *)
Apart(r) ==
    /\ DOMAIN ret' = Requests /\ DOMAIN ops' = Requests
    /\ \A q \in Requests \ {r} :
         /\ todo'[q] = todo[q] /\ req'[q] = req[q] /\ ret'[q] = ret[q]
         /\ ops'[q] = ops[q] /\ answer'[q] = answer[q]

(* So their invariants stay. *)
LEMMA ApartKeeps ==
    ASSUME ExecInv, NEW r \in Requests, Apart(r), ExecReq(r)'
    PROVE  ExecInv'
  <1>1. ASSUME NEW q \in Requests, q # r PROVE ExecReq(q)'
    <2>1. /\ todo'[q] = todo[q] /\ req'[q] = req[q] /\ ret'[q] = ret[q]
          /\ ops'[q] = ops[q] /\ answer'[q] = answer[q]
      BY <1>1, ZenonT(30) DEF Apart
    <2>2. ExecReq(q)
      BY ZenonT(30) DEF ExecInv
    <2> QED
      BY <2>1, <2>2 DEF ExecReq
  <1> QED
    BY <1>1, ZenonT(30) DEF ExecInv, Apart

(* The state of r before a step of it. *)
LEMMA Served ==
    ASSUME GInv, ExecInv, NEW r \in Requests, todo[r] # <<>>
    PROVE  LET t == todo[r] IN
           /\ Instructions(t) /\ IsSeq(t) /\ t # <<>> /\ DOMAIN todo = Requests
           /\ DOMAIN answer = Requests /\ DOMAIN req = Requests
           /\ DOMAIN ret = Requests /\ DOMAIN ops = Requests
           /\ Increasing(ops[r]) /\ answer[r] \notin FromDatabase
           /\ Head(t).do \notin {"exit", "refuse"} =>
                Serving(t, req[r], ret[r], ops[r]) /\ Good(Head(t)) /\ Clean(t)
           /\ Head(t).do = "exit" =>
                \/ Serving(t, req[r], ret[r], ops[r])
                \/ Unwinding(t) /\ t[Len(t)].why \notin FromDatabase
           /\ Head(t).do = "refuse" => Head(t).why \notin FromDatabase
  <1>1. /\ Instructions(todo[r]) /\ DOMAIN todo = Requests
        /\ DOMAIN answer = Requests /\ DOMAIN req = Requests
    BY ZenonT(30) DEF GInv, GShape, ReqInv
  <1>2. /\ Progress(todo[r], req[r], ret[r], ops[r], answer[r])
        /\ DOMAIN ret = Requests /\ DOMAIN ops = Requests
    BY ZenonT(30) DEF ExecInv, ExecReq
  <1> QED
    BY <1>1, <1>2, ProgressServes, ZenonT(30)

(* An error in request r. *)
LEMMA UnwindProgress ==
    ASSUME GInv, ExecInv, NEW r \in Requests, todo[r] # <<>>, NEW why, why \notin FromDatabase,
           Unwind(r, why), UNCHANGED <<req, ret, ops, answer>>
    PROVE  ExecInv'
  <1>1. /\ Instructions(todo[r]) /\ DOMAIN todo = Requests
        /\ DOMAIN ret = Requests /\ DOMAIN ops = Requests
        /\ Increasing(ops[r]) /\ answer[r] \notin FromDatabase
    BY Served, ZenonT(30)
  <1>2. /\ Unwinding(todo'[r]) /\ todo'[r][Len(todo'[r])].why = why
        /\ \A q \in Requests \ {r} : todo'[q] = todo[q]
    BY <1>1, UnwindIs, ZenonT(30)
  <1>3. Increasing(ops'[r]) /\ answer'[r] \notin FromDatabase
    BY <1>1
  <1>4. ExecReq(r)'
    BY <1>2, <1>3, ProgressFails, ZenonT(30) DEF ExecReq
  <1>5. Apart(r)
    BY <1>1, <1>2 DEF Apart
  <1> QED
    BY <1>4, <1>5, ApartKeeps, ZenonT(30)

(* An instruction of r is replaced by the instructions i. *)
LEMMA ContinueProgress ==
    ASSUME GInv, ExecInv, NEW r \in Requests, todo[r] # <<>>, NEW i, Continue(r, i),
           Runs(i \o Tail(todo[r]), req'[r], ret'[r], ops'[r]), Increasing(ops'[r]),
           DOMAIN ret' = Requests, DOMAIN ops' = Requests,
           \A q \in Requests \ {r} : req'[q] = req[q] /\ ret'[q] = ret[q] /\ ops'[q] = ops[q],
           UNCHANGED answer
    PROVE  ExecInv'
  <1>1. DOMAIN todo = Requests /\ answer[r] \notin FromDatabase
    BY Served, ZenonT(30)
  <1>2. todo'[r] = i \o Tail(todo[r]) /\ \A q \in Requests \ {r} : todo'[q] = todo[q]
    BY <1>1 DEF Continue
  <1>3. answer'[r] \notin FromDatabase /\ \A q \in Requests \ {r} : answer'[q] = answer[q]
    BY <1>1
  <1>4. ExecReq(r)'
    BY <1>2, <1>3, ProgressRuns, ZenonT(30) DEF ExecReq
  <1>5. Apart(r)
    BY <1>2, <1>3, ZenonT(30) DEF Apart
  <1> QED
    BY <1>4, <1>5, ApartKeeps, ZenonT(30)

(* The same when only what is left to do changes. *)
LEMMA TodoProgress ==
    ASSUME GInv, ExecInv, NEW r \in Requests, todo[r] # <<>>, NEW i, Continue(r, i),
           Runs(i \o Tail(todo[r]), req[r], ret[r], ops[r]), UNCHANGED <<req, ret, ops, answer>>
    PROVE  ExecInv'
  <1>1. DOMAIN ret = Requests /\ DOMAIN ops = Requests /\ Increasing(ops[r])
    BY Served, ZenonT(30)
  <1>2. req' = req /\ ret' = ret /\ ops' = ops /\ answer' = answer
    OBVIOUS
  <1>3. /\ Runs(i \o Tail(todo[r]), req'[r], ret'[r], ops'[r]) /\ Increasing(ops'[r])
        /\ DOMAIN ret' = Requests /\ DOMAIN ops' = Requests
        /\ \A q \in Requests \ {r} : req'[q] = req[q] /\ ret'[q] = ret[q] /\ ops'[q] = ops[q]
    BY <1>1, <1>2
  <1> QED
    BY <1>2, <1>3, ContinueProgress, ZenonT(30)

--------------------------------------------------------------------------------
(* Budget.Step. *)
LEMMA CountProgress ==
    ASSUME GInv, ExecInv, NEW r \in Requests, StoreStep(r)
    PROVE  ExecInv'
  <1>1. todo[r] # <<>> /\ Head(todo[r]).do = "step" /\ req' = req /\ ret' = ret /\ ops' = ops /\ answer' = answer
    BY DEF StoreStep, Doing
  <1>2. Unwind(r, "steps") \/ Continue(r, <<>>)
    BY ZenonT(30) DEF StoreStep
  <1>3. CASE Unwind(r, "steps")
    <2>1. "steps" \notin FromDatabase
      BY DEF FromDatabase
    <2> QED
      BY <1>1, <1>3, <2>1, UnwindProgress, ZenonT(30)
  <1>4. CASE Continue(r, <<>>)
    <2>1. Head(todo[r]).do \notin {"exit", "refuse"} /\ Head(todo[r]).do \in {"step", "exit"}
      BY <1>1
    <2>2. IsSeq(todo[r]) /\ Serving(todo[r], req[r], ret[r], ops[r])
      BY <1>1, <2>1, Served, ZenonT(30)
    <2>3. Runs(<<>> \o Tail(todo[r]), req[r], ret[r], ops[r])
      BY <1>1, <2>1, <2>2, AfterCount, PopIsTail, ZenonT(30)
    <2> QED
      BY <1>1, <1>4, <2>3, TodoProgress, ZenonT(30)
  <1> QED
    BY <1>2, <1>3, <1>4, ZenonT(30)

(* Budget.Enter, past its depth check. *)
LEMMA EnterProgress ==
    ASSUME GInv, ExecInv, NEW r \in Requests, StoreEnter(r)
    PROVE  ExecInv'
  <1> DEFINE i == Append(Head(todo[r]).body, Exit(Open(Tail(todo[r])) + 1))
  <1>1. todo[r] # <<>> /\ Head(todo[r]).do = "enter" /\ req' = req /\ ret' = ret /\ ops' = ops /\ answer' = answer
    BY DEF StoreEnter, Doing
  <1>2. Unwind(r, "nesting") \/ Continue(r, i)
    BY ZenonT(30) DEF StoreEnter
  <1>3. CASE Unwind(r, "nesting")
    <2>1. "nesting" \notin FromDatabase
      BY DEF FromDatabase
    <2> QED
      BY <1>1, <1>3, <2>1, UnwindProgress, ZenonT(30)
  <1>4. CASE Continue(r, i)
    <2>1. Head(todo[r]).do \notin {"exit", "refuse"}
      BY <1>1
    <2>2. Good(Head(todo[r])) /\ Serving(todo[r], req[r], ret[r], ops[r])
      BY <1>1, <2>1, Served, ZenonT(30)
    <2>3. Runs(i \o Tail(todo[r]), req[r], ret[r], ops[r])
      BY <1>1, <2>2, AfterEnter, ZenonT(30)
    <2> HIDE DEF i
    <2> QED
      BY <1>1, <1>4, <2>3, TodoProgress, ZenonT(30)
  <1> QED
    BY <1>2, <1>3, <1>4, ZenonT(30)

(* Budget.Enter, too deep. *)
LEMMA TooDeepProgress ==
    ASSUME GInv, ExecInv, NEW r \in Requests, EnterTooDeep(r)
    PROVE  ExecInv'
  <1>1. todo[r] # <<>> /\ Unwind(r, "depth") /\ req' = req /\ ret' = ret /\ ops' = ops /\ answer' = answer
    BY DEF EnterTooDeep, Doing
  <1>2. "depth" \notin FromDatabase
    BY DEF FromDatabase
  <1> QED
    BY <1>1, <1>2, UnwindProgress, ZenonT(30)

(* Budget.Exit, on the way back or on an error path. *)
LEMMA ExitProgress ==
    ASSUME GInv, ExecInv, NEW r \in Requests, StoreExit(r)
    PROVE  ExecInv'
  <1> DEFINE t == todo[r]
  <1>1. /\ t # <<>> /\ Head(t).do = "exit" /\ Continue(r, <<>>)
        /\ req' = req /\ ret' = ret /\ ops' = ops /\ answer' = answer
    BY DEF StoreExit, Doing
  <1>2. /\ Instructions(t) /\ IsSeq(t) /\ DOMAIN todo = Requests
        /\ DOMAIN ret = Requests /\ DOMAIN ops = Requests
        /\ Increasing(ops[r]) /\ answer[r] \notin FromDatabase
        /\ \/ Serving(t, req[r], ret[r], ops[r])
           \/ Unwinding(t) /\ t[Len(t)].why \notin FromDatabase
    BY <1>1, Served, ZenonT(30)
  <1>3. CASE Serving(t, req[r], ret[r], ops[r])
    <2>1. Head(t).do \in {"step", "exit"}
      BY <1>1
    <2>2. Runs(<<>> \o Tail(t), req[r], ret[r], ops[r])
      BY <1>1, <1>2, <1>3, <2>1, AfterCount, PopIsTail, ZenonT(30)
    <2> QED
      BY <1>1, <2>2, TodoProgress, ZenonT(30)
  <1>4. CASE Unwinding(t) /\ t[Len(t)].why \notin FromDatabase
    <2>1. Unwinding(Tail(t)) /\ Tail(t)[Len(Tail(t))] = t[Len(t)]
      BY <1>1, <1>2, <1>4, PopExit, ZenonT(30)
    <2>2. todo'[r] = <<>> \o Tail(t) /\ \A q \in Requests \ {r} : todo'[q] = todo[q]
      BY <1>1, <1>2 DEF Continue
    <2>3. todo'[r] = Tail(t)
      BY <1>1, <1>2, <2>2, PopIsTail, ZenonT(30)
    <2>4. Increasing(ops'[r]) /\ answer'[r] \notin FromDatabase
      BY <1>1, <1>2
    <2>5. ExecReq(r)'
      BY <1>4, <2>1, <2>3, <2>4, ProgressFails, ZenonT(30) DEF ExecReq
    <2>6. Apart(r)
      BY <1>1, <1>2, <2>2 DEF Apart
    <2> QED
      BY <2>5, <2>6, ApartKeeps, ZenonT(30)
  <1> QED
    BY <1>2, <1>3, <1>4, ZenonT(30)

(* The load of a counter. *)
LEMMA LoadProgress ==
    ASSUME GInv, ExecInv, NEW r \in Requests, LoadCounter(r)
    PROVE  ExecInv'
  BY DEF LoadCounter, ExecInv, ExecReq

(* A step that replaces an instruction and returns a value. *)
LEMMA ReturnProgress ==
    ASSUME GInv, ExecInv, NEW r \in Requests, todo[r] # <<>>, NEW i, Continue(r, i), NEW u,
           Runs(i \o Tail(todo[r]), req[r], u, ops[r]), ret' = [ret EXCEPT ![r] = u],
           UNCHANGED <<req, ops, answer>>
    PROVE  ExecInv'
  <1>1. DOMAIN ret = Requests /\ DOMAIN ops = Requests /\ Increasing(ops[r])
    BY Served, ZenonT(30)
  <1>2. req' = req /\ ops' = ops /\ answer' = answer
    OBVIOUS
  <1>3. ret'[r] = u /\ DOMAIN ret' = Requests /\ \A q \in Requests \ {r} : ret'[q] = ret[q]
    BY <1>1
  <1>4. /\ Runs(i \o Tail(todo[r]), req'[r], ret'[r], ops'[r]) /\ Increasing(ops'[r])
        /\ DOMAIN ops' = Requests
        /\ \A q \in Requests \ {r} : req'[q] = req[q] /\ ret'[q] = ret[q] /\ ops'[q] = ops[q]
    BY <1>1, <1>2, <1>3, ZenonT(30)
  <1> QED
    BY <1>2, <1>3, <1>4, ContinueProgress, ZenonT(30)

(* EvalCondition's switch. *)
LEMMA EvalProgress ==
    ASSUME GInv, ExecInv, NEW r \in Requests, Eval(r)
    PROVE  ExecInv'
  <1> DEFINE t == todo[r]
             i == Head(todo[r])
             c == CondOf[i.c]
  <1>1. /\ t # <<>> /\ i.do = "eval" /\ req' = req /\ ops' = ops /\ answer' = answer
    BY DEF Eval, Doing
  <1>2. i.do \notin {"exit", "refuse"} /\ "condition" \notin FromDatabase
    BY <1>1 DEF FromDatabase
  <1>3. IsSeq(t) /\ Serving(t, req[r], ret[r], ops[r])
    BY <1>1, <1>2, Served, ZenonT(30)
  <1>4. \/ /\ c.op \in {"and", "or"}
           /\ Continue(r, <<Items(c.op, c.items, i.depth)>>)
           /\ ret' = [ret EXCEPT ![r] = c.op = "and"]
        \/ /\ c.op = "not" /\ Len(c.items) = 1 /\ ret' = ret
           /\ Continue(r, Append(EvalCondition(c.items[1], i.depth + 1), [do |-> "negate"]))
        \/ ret' = ret /\ Unwind(r, "condition")
        \/ /\ c.op = "is-null" /\ Continue(r, <<>>)
           /\ ret' = [ret EXCEPT ![r] = Value(r, i.c) \in {"null", "missing"}]
        \/ /\ c.op = "compare" /\ Continue(r, <<>>)
           /\ ret' = [ret EXCEPT ![r] = Value(r, i.c) = "true"]
    BY ZenonT(30) DEF Eval
  <1>5. CASE /\ c.op \in {"and", "or"}
             /\ Continue(r, <<Items(c.op, c.items, i.depth)>>)
             /\ ret' = [ret EXCEPT ![r] = c.op = "and"]
    <2>1. Runs(<<Items(c.op, c.items, i.depth)>> \o Tail(t), req[r], c.op = "and", ops[r])
      BY <1>1, <1>3, <1>5, AfterEvalItems, ZenonT(30)
    <2> QED
      BY <1>1, <1>5, <2>1, ReturnProgress, ZenonT(30)
  <1>6. CASE /\ c.op = "not" /\ Len(c.items) = 1 /\ ret' = ret
             /\ Continue(r, Append(EvalCondition(c.items[1], i.depth + 1), [do |-> "negate"]))
    <2>1. Runs(Append(EvalCondition(c.items[1], i.depth + 1), [do |-> "negate"]) \o Tail(t),
               req[r], ret[r], ops[r])
      BY <1>1, <1>3, <1>6, AfterEvalNot, ZenonT(30)
    <2> QED
      BY <1>1, <1>6, <2>1, TodoProgress, ZenonT(30)
  <1>7. CASE ret' = ret /\ Unwind(r, "condition")
    BY <1>1, <1>2, <1>7, UnwindProgress, ZenonT(30)
  <1>8. CASE /\ c.op = "is-null" /\ Continue(r, <<>>)
             /\ ret' = [ret EXCEPT ![r] = Value(r, i.c) \in {"null", "missing"}]
    <2>1. c.op \in {"is-null", "compare"}
      BY <1>8
    <2>2. Runs(<<>> \o Tail(t), req[r], Value(r, i.c) \in {"null", "missing"}, ops[r])
      BY <1>1, <1>3, <1>8, <2>1, AfterEvalFact, PopIsTail, ZenonT(30) DEF Value
    <2> QED
      BY <1>1, <1>8, <2>2, ReturnProgress, ZenonT(30)
  <1>9. CASE /\ c.op = "compare" /\ Continue(r, <<>>)
             /\ ret' = [ret EXCEPT ![r] = Value(r, i.c) = "true"]
    <2>1. c.op \in {"is-null", "compare"} /\ c.op # "is-null"
      BY <1>9
    <2>2. Runs(<<>> \o Tail(t), req[r], Value(r, i.c) = "true", ops[r])
      BY <1>1, <1>3, <1>9, <2>1, AfterEvalFact, PopIsTail, ZenonT(30) DEF Value
    <2> QED
      BY <1>1, <1>9, <2>2, ReturnProgress, ZenonT(30)
  <1> QED
    BY <1>4, <1>5, <1>6, <1>7, <1>8, <1>9, ZenonT(30)

(* One turn of the loop of "and" or "or". *)
LEMMA ItemProgress ==
    ASSUME GInv, ExecInv, NEW r \in Requests, NextItem(r)
    PROVE  ExecInv'
  <1> DEFINE t == todo[r]
             i == Head(todo[r])
             n == Append(EvalCondition(Head(i.items), i.depth + 1), Items(i.op, Tail(i.items), i.depth))
  <1>1. /\ t # <<>> /\ i.do = "items" /\ req' = req /\ ret' = ret /\ ops' = ops /\ answer' = answer
    BY DEF NextItem, Doing
  <1>2. i.do \notin {"exit", "refuse"}
    BY <1>1
  <1>3. IsSeq(t) /\ Serving(t, req[r], ret[r], ops[r])
    BY <1>1, <1>2, Served, ZenonT(30)
  <1>4. \/ (ret[r] # (i.op = "and") \/ i.items = <<>>) /\ Continue(r, <<>>)
        \/ ret[r] = (i.op = "and") /\ i.items # <<>> /\ Continue(r, n)
    BY ZenonT(30) DEF NextItem
  <1>5. CASE (ret[r] # (i.op = "and") \/ i.items = <<>>) /\ Continue(r, <<>>)
    <2>1. Runs(<<>> \o Tail(t), req[r], ret[r], ops[r])
      BY <1>1, <1>3, <1>5, AfterLastItem, PopIsTail, ZenonT(30)
    <2> QED
      BY <1>1, <1>5, <2>1, TodoProgress, ZenonT(30)
  <1>6. CASE ret[r] = (i.op = "and") /\ i.items # <<>> /\ Continue(r, n)
    <2>1. Runs(n \o Tail(t), req[r], ret[r], ops[r])
      BY <1>1, <1>3, <1>6, AfterItem, ZenonT(30)
    <2> HIDE DEF n
    <2> QED
      BY <1>1, <1>6, <2>1, TodoProgress, ZenonT(30)
  <1> QED
    BY <1>4, <1>5, <1>6, ZenonT(30)

(* The return of "not". *)
LEMMA NegateProgress ==
    ASSUME GInv, ExecInv, NEW r \in Requests, Negate(r)
    PROVE  ExecInv'
  <1>1. /\ todo[r] # <<>> /\ Head(todo[r]).do = "negate" /\ req' = req /\ ops' = ops /\ answer' = answer
        /\ Continue(r, <<>>)
    BY DEF Negate, Doing
  <1>2. Head(todo[r]).do \notin {"exit", "refuse"}
    BY <1>1
  <1>3. /\ IsSeq(todo[r]) /\ Serving(todo[r], req[r], ret[r], ops[r]) /\ Increasing(ops[r])
        /\ DOMAIN ret = Requests /\ DOMAIN ops = Requests
    BY <1>1, <1>2, Served, ZenonT(30)
  <1>4. ret[r] \in BOOLEAN
    BY <1>3, HeadIs, ZenonT(30)
  <1>5. ret'[r] = ~ret[r] /\ DOMAIN ret' = Requests /\ \A q \in Requests \ {r} : ret'[q] = ret[q]
    BY <1>3, <1>4 DEF Negate
  <1>6. Runs(<<>> \o Tail(todo[r]), req[r], ret'[r], ops[r])
    <2>1. ret'[r] \in BOOLEAN /\ ret'[r] # ret[r]
      BY <1>4, <1>5
    <2> QED
      BY <1>1, <1>3, <2>1, AfterNegate, PopIsTail, ZenonT(30)
  <1>7. /\ Runs(<<>> \o Tail(todo[r]), req'[r], ret'[r], ops'[r]) /\ Increasing(ops'[r])
        /\ DOMAIN ops' = Requests
        /\ \A q \in Requests \ {r} : req'[q] = req[q] /\ ret'[q] = ret[q] /\ ops'[q] = ops[q]
    BY <1>1, <1>3, <1>5, <1>6, ZenonT(30)
  <1> QED
    BY <1>1, <1>5, <1>7, ContinueProgress, ZenonT(30)

(* A request that is answered. *)
LEMMA ReplyProgress ==
    ASSUME GInv, ExecInv, NEW r \in Requests, todo[r] # <<>>, NEW a, Reply(r, a),
           a \in FromDatabase => Faithful(req[r], ops[r]), UNCHANGED <<req, ret, ops>>
    PROVE  ExecInv'
  <1>1. /\ DOMAIN todo = Requests /\ DOMAIN answer = Requests
        /\ DOMAIN ret = Requests /\ DOMAIN ops = Requests /\ Increasing(ops[r])
    BY Served, ZenonT(30)
  <1>2. todo'[r] = <<>> /\ answer'[r] = a
    BY <1>1 DEF Reply
  <1>3. Apart(r)
    BY <1>1 DEF Apart, Reply
  <1>4. req' = req /\ ret' = ret /\ ops' = ops
    OBVIOUS
  <1>5. ExecReq(r)'
    BY <1>1, <1>2, <1>4, ProgressEnds, ZenonT(30) DEF ExecReq
  <1> QED
    BY <1>3, <1>5, ApartKeeps, ZenonT(30)

(* Decide after the conditions. *)
LEMMA RequireProgress ==
    ASSUME GInv, ExecInv, NEW r \in Requests, Require(r)
    PROVE  ExecInv'
  <1>1. todo[r] # <<>> /\ Head(todo[r]).do = "require" /\ req' = req /\ ret' = ret /\ ops' = ops
    BY DEF Require, Doing
  <1>2. Head(todo[r]).do \notin {"exit", "refuse"} /\ "denied" \notin FromDatabase
    BY <1>1 DEF FromDatabase
  <1>3. IsSeq(todo[r]) /\ Serving(todo[r], req[r], ret[r], ops[r])
    BY <1>1, <1>2, Served, ZenonT(30)
  <1>4. (ret[r] /\ Continue(r, <<>>) /\ answer' = answer) \/ Reply(r, "denied")
    BY ZenonT(30) DEF Require, Reply
  <1>5. CASE ret[r] /\ Continue(r, <<>>) /\ answer' = answer
    <2>1. Runs(<<>> \o Tail(todo[r]), req[r], ret[r], ops[r])
      BY <1>1, <1>3, <1>5, AfterRequire, PopIsTail, ZenonT(30)
    <2> QED
      BY <1>1, <1>5, <2>1, TodoProgress, ZenonT(30)
  <1>6. CASE Reply(r, "denied")
    BY <1>1, <1>2, <1>6, ReplyProgress, ZenonT(30)
  <1> QED
    BY <1>4, <1>5, <1>6, ZenonT(30)

(* One turn of runSteps' loop. *)
LEMMA StepProgress ==
    ASSUME GInv, ExecInv, NEW r \in Requests, NextStep(r)
    PROVE  ExecInv'
  <1> DEFINE t == todo[r]
             i == Head(todo[r])
             n == << Step, [do |-> "run", step |-> Head(i.steps), depth |-> i.depth],
                     [do |-> "steps", steps |-> Tail(i.steps), depth |-> i.depth] >>
  <1>1. /\ t # <<>> /\ i.do = "steps" /\ req' = req /\ ret' = ret /\ ops' = ops /\ answer' = answer
    BY DEF NextStep, Doing
  <1>2. i.do \notin {"exit", "refuse"}
    BY <1>1
  <1>3. IsSeq(t) /\ Serving(t, req[r], ret[r], ops[r])
    BY <1>1, <1>2, Served, ZenonT(30)
  <1>4. \/ i.steps = <<>> /\ Continue(r, <<>>)
        \/ i.steps # <<>> /\ Continue(r, n)
    BY ZenonT(30) DEF NextStep
  <1>5. CASE i.steps = <<>> /\ Continue(r, <<>>)
    <2>1. Runs(<<>> \o Tail(t), req[r], ret[r], ops[r])
      BY <1>1, <1>3, <1>5, AfterLastStep, PopIsTail, ZenonT(30)
    <2> QED
      BY <1>1, <1>5, <2>1, TodoProgress, ZenonT(30)
  <1>6. CASE i.steps # <<>> /\ Continue(r, n)
    <2>1. Runs(n \o Tail(t), req[r], ret[r], ops[r])
      BY <1>1, <1>3, <1>6, AfterSteps, ZenonT(30)
    <2> HIDE DEF n
    <2> QED
      BY <1>1, <1>6, <2>1, TodoProgress, ZenonT(30)
  <1> QED
    BY <1>4, <1>5, <1>6, ZenonT(30)

(* An operation that fails. *)
LEMMA FailProgress ==
    ASSUME GInv, ExecInv, NEW r \in Requests, OpFails(r)
    PROVE  ExecInv'
  <1>1. todo[r] # <<>> /\ Unwind(r, "operation") /\ req' = req /\ ret' = ret /\ ops' = ops /\ answer' = answer
    BY DEF OpFails, Running, Doing
  <1>2. "operation" \notin FromDatabase
    BY DEF FromDatabase
  <1> QED
    BY <1>1, <1>2, UnwindProgress, ZenonT(30)

(* The branch of an "if", after its condition. *)
LEMMA BranchProgress ==
    ASSUME GInv, ExecInv, NEW r \in Requests, Branch(r)
    PROVE  ExecInv'
  <1> DEFINE i == Head(todo[r])
             n == RunSteps(IF ret[r] THEN StepOf[i.step].then ELSE StepOf[i.step].else, i.depth)
  <1>1. /\ todo[r] # <<>> /\ i.do = "branch" /\ Continue(r, n)
        /\ req' = req /\ ret' = ret /\ ops' = ops /\ answer' = answer
    BY DEF Branch, Doing
  <1>2. i.do \notin {"exit", "refuse"}
    BY <1>1
  <1>3. Serving(todo[r], req[r], ret[r], ops[r])
    BY <1>1, <1>2, Served, ZenonT(30)
  <1>4. Runs(n \o Tail(todo[r]), req[r], ret[r], ops[r])
    BY <1>1, <1>3, AfterBranch, ZenonT(30)
  <1> HIDE DEF n
  <1> QED
    BY <1>1, <1>4, TodoProgress, ZenonT(30)

(* A "seq" step. *)
LEMMA SeqProgress ==
    ASSUME GInv, ExecInv, NEW r \in Requests, RunSeq(r)
    PROVE  ExecInv'
  <1> DEFINE i == Head(todo[r])
             n == RunSteps(StepOf[i.step].steps, i.depth + 1)
  <1>1. /\ todo[r] # <<>> /\ i.do = "run" /\ StepOf[i.step].kind = "seq" /\ Continue(r, n)
        /\ req' = req /\ ret' = ret /\ ops' = ops /\ answer' = answer
    BY DEF RunSeq, Running, Doing
  <1>2. i.do \notin {"exit", "refuse"}
    BY <1>1
  <1>3. Serving(todo[r], req[r], ret[r], ops[r])
    BY <1>1, <1>2, Served, ZenonT(30)
  <1>4. Runs(n \o Tail(todo[r]), req[r], ret[r], ops[r])
    BY <1>1, <1>3, AfterSeq, ZenonT(30)
  <1> HIDE DEF n
  <1> QED
    BY <1>1, <1>4, TodoProgress, ZenonT(30)

(* A request whose variables change, or that notes what a condition sees. *)
LEMMA RequestChanges ==
    ASSUME NEW q, Request(q), NEW p, NEW d, DOMAIN p = DOMAIN q, p.cn = q.cn, p.brought = q.brought,
           DOMAIN p.seen = DOMAIN q.seen, \A x \in DOMAIN q.seen \ {d} : p.seen[x] = q.seen[x]
    PROVE  Rebinds(q, p, d)
  BY ZenonT(30) DEF Rebinds, Request

(* An "if" step notes the facts its condition is evaluated on. *)
LEMMA IfProgress ==
    ASSUME GInv, ExecInv, NEW r \in Requests, RunIf(r)
    PROVE  ExecInv'
  <1> DEFINE i == Head(todo[r])
             d == i.step
             n == Append(EvalCondition(StepOf[d].cond, i.depth + 1),
                         [do |-> "branch", step |-> d, depth |-> i.depth + 1])
             q == req[r]
             p == req'[r]
  <1>1. /\ todo[r] # <<>> /\ i.do = "run" /\ StepOf[d].kind = "if" /\ Continue(r, n)
        /\ req' = [req EXCEPT ![r].seen[d] = req[r].facts]
        /\ ret' = ret /\ ops' = ops /\ answer' = answer
    BY DEF RunIf, Running, Doing
  <1>2. i.do \notin {"exit", "refuse"}
    BY <1>1
  <1>3. /\ Serving(todo[r], req[r], ret[r], ops[r]) /\ Increasing(ops[r])
        /\ DOMAIN req = Requests /\ DOMAIN ret = Requests /\ DOMAIN ops = Requests
    BY <1>1, <1>2, Served, ZenonT(30)
  <1>4. Request(q) /\ Shaped(i)
    BY <1>3, HeadIs, ZenonT(30)
  <1>5. d \in DOMAIN StepOf
    <2>1. i.do \in {"run", "branch"}
      BY <1>1
    <2> QED
      BY <1>4, <2>1, ZenonT(30) DEF Shaped
  <1>6. /\ p = [q EXCEPT !.seen[d] = q.facts]
        /\ \A x \in Requests \ {r} : req'[x] = req[x]
    BY <1>1, <1>3
  <1>7. /\ DOMAIN p = DOMAIN q /\ p.cn = q.cn /\ p.brought = q.brought /\ p.facts = q.facts
        /\ p.seen = [q.seen EXCEPT ![d] = q.facts]
    BY <1>4, <1>6 DEF Request
  <1>8. /\ DOMAIN p.seen = DOMAIN q.seen /\ \A x \in DOMAIN q.seen \ {d} : p.seen[x] = q.seen[x]
        /\ p.seen[d] = p.facts
    BY <1>4, <1>5, <1>7 DEF Request
  <1>9. Rebinds(q, p, d)
    BY <1>4, <1>7, <1>8, RequestChanges, ZenonT(30)
  <1>10. Runs(n \o Tail(todo[r]), p, ret[r], ops[r])
    BY <1>1, <1>3, <1>8, <1>9, AfterIf, ZenonT(30)
  <1> HIDE DEF n, p
  <1>11. /\ Runs(n \o Tail(todo[r]), req'[r], ret'[r], ops'[r]) /\ Increasing(ops'[r])
         /\ DOMAIN ops' = Requests /\ DOMAIN ret' = Requests
         /\ \A x \in Requests \ {r} : req'[x] = req[x] /\ ret'[x] = ret[x] /\ ops'[x] = ops[x]
    BY <1>1, <1>3, <1>6, <1>10, ZenonT(30) DEF p
  <1> QED
    BY <1>1, <1>11, ContinueProgress, ZenonT(30)

(* An operation is executed, and may set a variable. *)
LEMMA OpProgress ==
    ASSUME GInv, ExecInv, NEW r \in Requests, RunOp(r)
    PROVE  ExecInv'
  <1> DEFINE i == Head(todo[r])
             d == i.step
             q == req[r]
             p == req'[r]
  <1>1. /\ todo[r] # <<>> /\ i.do = "run" /\ StepOf[d].kind = "op" /\ Continue(r, <<>>)
        /\ ret' = ret /\ answer' = answer
    BY DEF RunOp, Running, Doing
  <1>2. i.do \notin {"exit", "refuse"}
    BY <1>1
  <1>3. /\ Serving(todo[r], req[r], ret[r], ops[r]) /\ Increasing(ops[r]) /\ IsSeq(todo[r])
        /\ DOMAIN req = Requests /\ DOMAIN ret = Requests /\ DOMAIN ops = Requests
    BY <1>1, <1>2, Served, ZenonT(30)
  <1>4. Request(q)
    BY <1>3, HeadIs, ZenonT(30)
  <1>5. /\ ops'[r] = Append(ops[r], d) /\ DOMAIN ops' = Requests
        /\ \A x \in Requests \ {r} : ops'[x] = ops[x]
    BY <1>3 DEF RunOp
  <1>6. req' = req \/ \E x, v : req' = [req EXCEPT ![r].facts[x] = v]
    BY ZenonT(30) DEF RunOp
  <1>7. /\ DOMAIN p = DOMAIN q /\ p.cn = q.cn /\ p.brought = q.brought /\ p.seen = q.seen
        /\ \A x \in Requests \ {r} : req'[x] = req[x]
    <2>1. CASE req' = req
      BY <2>1
    <2>2. CASE \E x, v : req' = [req EXCEPT ![r].facts[x] = v]
      <3>1. PICK x, v : req' = [req EXCEPT ![r].facts[x] = v]
        BY <2>2, ZenonT(30)
      <3>2. /\ p = [q EXCEPT !.facts[x] = v]
            /\ \A y \in Requests \ {r} : req'[y] = req[y]
        BY <1>3, <3>1
      <3> QED
        BY <1>4, <3>2 DEF Request
    <2> QED
      BY <1>6, <2>1, <2>2, ZenonT(30)
  <1>8. Rebinds(q, p, d)
    BY <1>4, <1>7, RequestChanges, ZenonT(30)
  <1>9. Runs(<<>> \o Tail(todo[r]), p, ret[r], Append(ops[r], d)) /\ Increasing(Append(ops[r], d))
    BY <1>1, <1>3, <1>8, AfterOp, PopIsTail, ZenonT(30)
  <1> HIDE DEF p
  <1>10. /\ Runs(<<>> \o Tail(todo[r]), req'[r], ret'[r], ops'[r]) /\ Increasing(ops'[r])
         /\ DOMAIN ops' = Requests /\ DOMAIN ret' = Requests
         /\ \A x \in Requests \ {r} : req'[x] = req[x] /\ ret'[x] = ret[x] /\ ops'[x] = ops[x]
    BY <1>1, <1>3, <1>5, <1>7, <1>9, ZenonT(30) DEF p
  <1> QED
    BY <1>1, <1>10, ContinueProgress, ZenonT(30)

(* The one table of a rule that allows the one requested. *)
LEMMA OnlyTable ==
    ASSUME NEW l, IsSeq(l), Len(l) = 1, NEW x \in Range(l)
    PROVE  l = <<x>>
  <1>1. l \in Seq(Range(l)) /\ DOMAIN l = 1 .. 1
    BY DEF IsSeq
  <1>2. x = l[1]
    BY <1>1 DEF Range
  <1> QED
    BY <1>1, <1>2

(* handleRows after an allow. *)
LEMMA AllowProgress ==
    ASSUME GInv, ExecInv, NEW r \in Requests, Allow(r)
    PROVE  ExecInv'
  <1> DEFINE q == req[r]
             rule == Rules[PluginOf(r)]
  <1>1. todo[r] # <<>> /\ Head(todo[r]).do = "allow" /\ req' = req /\ ret' = ret /\ ops' = ops
    BY DEF Allow, Doing
  <1>2. Head(todo[r]).do \notin {"exit", "refuse"}
    BY <1>1
  <1>3. Serving(todo[r], q, ret[r], ops[r])
    BY <1>1, <1>2, Served, ZenonT(30)
  <1>4. Permitted(q) /\ ops[r] = Goal(q, q.seen) /\ q.cn \in Plugins
    BY <1>1, <1>3, AtAllow, HeadIs, ZenonT(30) DEF Request
  <1>5. \/ Reply(r, "tableNotInRule") \/ Reply(r, "noStatement")
        \/ /\ q.table \in Range(rule.tables) /\ Len(rule.tables) = 1
           /\ Reply(r, "rows") \/ Reply(r, "queryError")
    BY ZenonT(30) DEF Allow
  <1>6. "tableNotInRule" \notin FromDatabase /\ "noStatement" \notin FromDatabase
    BY DEF FromDatabase
  <1>7. CASE Reply(r, "tableNotInRule")
    BY <1>1, <1>6, <1>7, ReplyProgress, ZenonT(30)
  <1>8. CASE Reply(r, "noStatement")
    BY <1>1, <1>6, <1>8, ReplyProgress, ZenonT(30)
  <1>9. CASE /\ q.table \in Range(rule.tables) /\ Len(rule.tables) = 1
             /\ Reply(r, "rows") \/ Reply(r, "queryError")
    <2>1. IsSeq(Rules[q.cn].tables)
      BY <1>4, TextAssumption, SeqIsSeq, ZenonT(30)
    <2>2. Rules[q.cn].tables = <<q.table>>
      BY <1>9, <2>1, OnlyTable, ZenonT(30) DEF PluginOf
    <2>3. Faithful(q, ops[r])
      BY <1>4, <2>2, ZenonT(30) DEF Faithful, Goal
    <2> QED
      BY <1>1, <1>9, <2>3, ReplyProgress, ZenonT(30)
  <1> QED
    BY <1>5, <1>7, <1>8, <1>9, ZenonT(30)

(* An error that has returned through every frame. *)
LEMMA RefuseProgress ==
    ASSUME GInv, ExecInv, NEW r \in Requests, Refuse(r)
    PROVE  ExecInv'
  <1>1. /\ todo[r] # <<>> /\ Head(todo[r]).do = "refuse" /\ Reply(r, Head(todo[r]).why)
        /\ req' = req /\ ret' = ret /\ ops' = ops
    BY DEF Refuse, Doing
  <1>2. Head(todo[r]).why \notin FromDatabase
    BY <1>1, Served, ZenonT(30)
  <1> QED
    BY <1>1, <1>2, ReplyProgress, ZenonT(30)

(* A request that has executed nothing. *)
LEMMA NothingDone == Increasing(<<>>)
  BY DEF Increasing

(* handleRows up to the interpreter. *)
LEMMA ReceiveProgress ==
    ASSUME GInv, ExecInv, NEW r \in Requests, NEW cn, NEW table, NEW facts, Receive(r, cn, table, facts)
    PROVE  ExecInv'
  <1> DEFINE q == [cn |-> cn, table |-> table, brought |-> facts, facts |-> facts,
                   seen |-> [s \in DOMAIN StepOf |-> None]]
  <1>1. /\ DOMAIN todo = Requests /\ DOMAIN answer = Requests /\ DOMAIN req = Requests
        /\ DOMAIN ret = Requests /\ DOMAIN ops = Requests
    BY ZenonT(30) DEF GInv, GShape, ExecInv
  <1>2. /\ todo[r] = <<>> /\ req' = [req EXCEPT ![r] = q] /\ ret' = [ret EXCEPT ![r] = FALSE]
        /\ ops' = [ops EXCEPT ![r] = <<>>]
    BY ZenonT(30) DEF Receive
  <1>3. \/ todo' = todo /\ answer' = [answer EXCEPT ![r] = "unauthorized"]
        \/ todo' = todo /\ answer' = [answer EXCEPT ![r] = "ruleError"]
        \/ /\ cn \in Plugins /\ answer' = [answer EXCEPT ![r] = "none"]
           /\ todo' = [todo EXCEPT ![r] = Decide(Rules[cn])]
    BY ZenonT(30) DEF Receive
  <1> HIDE DEF q
  <1>4. req'[r] = q /\ ret'[r] = FALSE /\ ops'[r] = <<>>
    BY <1>1, <1>2
  <1>5. Apart(r)
    <2>1. /\ DOMAIN ret' = Requests /\ DOMAIN ops' = Requests
          /\ \A x \in Requests \ {r} : req'[x] = req[x] /\ ret'[x] = ret[x] /\ ops'[x] = ops[x]
      BY <1>1, <1>2
    <2>2. \A x \in Requests \ {r} : todo'[x] = todo[x] /\ answer'[x] = answer[x]
      BY <1>1, <1>3
    <2> QED
      BY <2>1, <2>2, ZenonT(30) DEF Apart
  <1>6. CASE todo' = todo /\ answer'[r] \notin FromDatabase
    <2>1. todo'[r] = <<>>
      BY <1>2, <1>6
    <2>2. ExecReq(r)'
      BY <1>4, <1>6, <2>1, NothingDone, ProgressEnds, ZenonT(30) DEF ExecReq
    <2> QED
      BY <1>5, <2>2, ApartKeeps, ZenonT(30)
  <1>7. CASE cn \in Plugins /\ answer'[r] \notin FromDatabase /\ todo'[r] = Decide(Rules[cn])
    <2>1. /\ q.cn = cn /\ q.facts = q.brought
          /\ DOMAIN q = {"cn", "table", "brought", "facts", "seen"}
          /\ DOMAIN q.seen = DOMAIN StepOf
      BY DEF q
    <2>2. Request(q)
      BY <1>7, <2>1, ZenonT(30) DEF Request
    <2>3. Runs(Decide(Rules[cn]), q, FALSE, <<>>)
      BY <2>1, <2>2, RunsDecide, ZenonT(30)
    <2>4. ExecReq(r)'
      BY <1>4, <1>7, <2>3, NothingDone, ProgressRuns, ZenonT(30) DEF ExecReq
    <2> QED
      BY <1>5, <2>4, ApartKeeps, ZenonT(30)
  <1>8. "unauthorized" \notin FromDatabase /\ "ruleError" \notin FromDatabase /\ "none" \notin FromDatabase
    BY DEF FromDatabase
  <1>9. \/ todo' = todo /\ answer'[r] = "unauthorized"
        \/ todo' = todo /\ answer'[r] = "ruleError"
        \/ cn \in Plugins /\ answer'[r] = "none" /\ todo'[r] = Decide(Rules[cn])
    BY <1>1, <1>3
  <1> QED
    BY <1>6, <1>7, <1>8, <1>9, ZenonT(30)

(* The invariant holds at the start ... *)
LEMMA ExecInvInit == GatewayInit => ExecInv
  <1> SUFFICES ASSUME GatewayInit PROVE ExecInv
    OBVIOUS
  <1>1. /\ ret = [r \in Requests |-> FALSE] /\ ops = [r \in Requests |-> <<>>]
        /\ todo = [r \in Requests |-> <<>>] /\ answer = [r \in Requests |-> "none"]
    BY ZenonT(30) DEF GatewayInit
  <1>2. "none" \notin FromDatabase
    BY DEF FromDatabase
  <1>3. ASSUME NEW r \in Requests PROVE ExecReq(r)
    <2>1. todo[r] = <<>> /\ ops[r] = <<>> /\ answer[r] = "none"
      BY <1>1
    <2> QED
      BY <1>2, <2>1, NothingDone, ProgressEnds, ZenonT(30) DEF ExecReq
  <1> QED
    BY <1>1, <1>3 DEF ExecInv

(* ... and is kept by every step. *)
LEMMA ExecInvNext == GInv /\ ExecInv /\ [GatewayNext]_gatewayVars => ExecInv'
  <1> SUFFICES ASSUME GInv, ExecInv, [GatewayNext]_gatewayVars PROVE ExecInv'
    OBVIOUS
  <1>1. ASSUME NEW r \in Requests, Serve(r) PROVE ExecInv'
    BY <1>1, LoadProgress, CountProgress, EnterProgress, TooDeepProgress, ExitProgress,
       EvalProgress, ItemProgress, NegateProgress, RequireProgress, StepProgress, OpProgress,
       FailProgress, IfProgress, BranchProgress, SeqProgress, AllowProgress, RefuseProgress,
       ZenonT(30) DEF Serve
  <1>2. CASE UNCHANGED gatewayVars
    BY <1>2 DEF gatewayVars, ExecInv, ExecReq
  <1> QED
    BY <1>1, <1>2, ReceiveProgress, ZenonT(30) DEF GatewayNext, AllAnswered

(* No two of the operations are the same. *)
LEMMA IncreasingIsInjective == ASSUME NEW o, Increasing(o) PROVE IsInjective(o)
  <1>1. o \in Seq(DOMAIN StepOf)
    BY ZenonT(30) DEF Increasing
  <1>2. \A i \in DOMAIN o : StepOf[o[i]].from \in Nat
    BY <1>1, ElementsOf, TextAssumption, ZenonT(30)
  <1>3. ASSUME NEW i \in DOMAIN o, NEW j \in DOMAIN o, i # j PROVE o[i] # o[j]
    <2>1. i < j \/ j < i
      BY <1>1, <1>3
    <2>2. \/ StepOf[o[i]].from < StepOf[o[j]].from
          \/ StepOf[o[j]].from < StepOf[o[i]].from
      BY <2>1, ZenonT(30) DEF Increasing
    <2>3. \A n \in Nat : ~(n < n)
      OBVIOUS
    <2> QED
      BY <1>2, <2>2, <2>3, ZenonT(30)
  <1> QED
    BY <1>3, ZenonT(30) DEF IsInjective

(* It implies what is promised. *)
LEMMA ExecInvFaithful == ASSUME ExecInv PROVE ExecutionIsFaithful
  <1>1. ASSUME NEW r \in Requests
        PROVE  /\ IsInjective(ops[r])
               /\ Queried(r) => Faithful(req[r], ops[r])
    <2>1. Progress(todo[r], req[r], ret[r], ops[r], answer[r])
      BY ZenonT(30) DEF ExecInv, ExecReq
    <2> QED
      BY <2>1, IncreasingIsInjective, ZenonT(30) DEF Progress, Queried, FromDatabase
  <1>2. QueriesAreAuthorised
    BY <1>1, ZenonT(30) DEF QueriesAreAuthorised, Faithful, Permitted
  <1>3. FlowRunsToItsEnd
    BY <1>1, ZenonT(30) DEF FlowRunsToItsEnd, Faithful
  <1>4. NoAmplification
    BY <1>1, ZenonT(30) DEF NoAmplification
  <1> QED
    BY <1>2, <1>3, <1>4 DEF ExecutionIsFaithful

(* ExecutionIsFaithful in every reachable state: whatever the rules, the   *)
(* budget, the errors and the interleaving of requests, handleRows queries *)
(* the database only for an allowed table of the client's own rule, after  *)
(* its conditions were found to hold of the request and its flow has run   *)
(* to its end, and no operation is executed twice.                         *)
THEOREM ExecutionStaysFaithful == SafetySpec => []ExecutionIsFaithful
  <1>1. GatewayInit => GInv /\ ExecInv
    BY GInvInit, ExecInvInit
  <1>2. GInv /\ ExecInv /\ [GatewayNext]_gatewayVars => GInv' /\ ExecInv'
    BY GInvNext, ExecInvNext
  <1>3. GInv /\ ExecInv => ExecutionIsFaithful
    BY ExecInvFaithful
  <1> QED
    BY <1>1, <1>2, <1>3, PTL DEF SafetySpec
================================================================================
