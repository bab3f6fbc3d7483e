------------------------------ MODULE RuleGateway ------------------------------
(***************************************************************************)
(* The reference gateway of package ruleexec: HTTP requests served by      *)
(* concurrent goroutines, the rule plugin of the client's identity, and    *)
(* the interpreter that runs the plugin's rule (conditions, then flow)     *)
(* against the plugin's execution budget.                                  *)
(*                                                                         *)
(* A rule's conditions and steps are nodes: CondOf and StepOf give their   *)
(* fields.  The interpreter is a machine: todo is what a request has left  *)
(* to do, one instruction per call of Budget.Step, Enter or Exit, per      *)
(* operation and per return; an error drops everything but the deferred    *)
(* calls of Exit.  A budget is shared by the requests of its plugin and    *)
(* is not synchronised: every ++ and -- is a load and a store.             *)
(***************************************************************************)
EXTENDS Integers, Sequences, Functions

CONSTANTS
    Requests,       \* goroutines serving requests
    Clients,        \* identities of the mTLS layer
    Rules,          \* clients with a plugin -> rule [cond, hasFlow, flow, tables, renders]
    CondOf,         \* condition node -> [op, items, fact, size]
    StepOf,         \* step node -> [kind, cond, then, else, steps, sets, from, to]
    Facts,          \* the facts a request may bring: fact name -> value
    Tables,
    None,
    MaxSteps,       \* Budget.MaxSteps
    MaxDepth,       \* Budget.MaxDepth
    MaxNesting,     \* Budget.MaxNesting
    MaxServed       \* bound on the requests served

ASSUME BudgetAssumption ==
    /\ {MaxSteps, MaxDepth, MaxNesting} \subseteq Nat \ {0}
    /\ MaxServed \in Nat

Plugins == DOMAIN Rules

(* Steps that stand one after the other in the text of a rule, ... *)
Listed(list) ==
    /\ list \in Seq(DOMAIN StepOf)
    /\ \A i, j \in DOMAIN list : i < j => StepOf[list[i]].to < StepOf[list[j]].from

(* ... and inside the text of another. *)
Inside(list, s) ==
    /\ Listed(list)
    /\ \A i \in DOMAIN list :
          StepOf[s].from < StepOf[list[i]].from /\ StepOf[list[i]].to <= StepOf[s].to

(* A rule is decoded from JSON: the items of a condition are shorter than  *)
(* it is, and "a flow is a finite tree of op / if / seq"                   *)
(* (CheckStaticBounds), the parts of each step inside its text.            *)
ASSUME TextAssumption ==
    /\ \A c \in DOMAIN CondOf :
          /\ CondOf[c].size \in Nat /\ CondOf[c].items \in Seq(DOMAIN CondOf)
          /\ \A i \in DOMAIN CondOf[c].items : CondOf[CondOf[c].items[i]].size < CondOf[c].size
    /\ \A s \in DOMAIN StepOf : LET st == StepOf[s] IN
          /\ st.from \in Nat /\ st.to \in Nat /\ st.from <= st.to
          /\ st.kind = "if" =>
               st.cond \in DOMAIN CondOf /\ Inside(st.then, s) /\ Inside(st.else, s)
          /\ st.kind = "seq" => Inside(st.steps, s)
    /\ \A p \in Plugins :
          /\ Rules[p].cond = None \/ Rules[p].cond \in DOMAIN CondOf
          /\ Rules[p].hasFlow => Listed(Rules[p].flow)
          /\ Rules[p].tables \in Seq(Range(Rules[p].tables))

(* What a comparison finds at its path: a value it is true or false of, a  *)
(* value of a type it does not compare, an explicit null, or nothing.      *)
Values == {"true", "false", "mistyped", "null", "missing"}

VARIABLES
    steps,          \* Budget.steps, per plugin
    nesting,        \* Budget.nesting, per plugin
    req,            \* the request each goroutine serves: [cn, table, brought, facts, seen]
    todo,           \* its instructions
    ret,            \* the truth value the last condition returned
    reg,            \* the counter it has loaded, or None
    answer,         \* its answer, "none" while it is being served
    ops,            \* the operations it has executed, in order
    charged,        \* the steps charged by all requests, per plugin
    served          \* requests received so far

budget == <<steps, nesting>>
gatewayVars == <<budget, req, todo, ret, reg, answer, ops, charged, served>>

--------------------------------------------------------------------------------
Step == [do |-> "step"]
Exit(frame) == [do |-> "exit", frame |-> frame]
Enter(depth, body) == [do |-> "enter", depth |-> depth, body |-> body]

(* EvalCondition(c, ctx, b, depth), up to its operator. *)
EvalCondition(c, depth) == <<Step, Enter(depth, <<[do |-> "eval", c |-> c, depth |-> depth]>>)>>

(* The loop of "and" and "or" over the items left. *)
Items(op, items, depth) == [do |-> "items", op |-> op, items |-> items, depth |-> depth]

(* runSteps(steps, ctx, b, depth). *)
RunSteps(s, depth) == <<Enter(depth, <<[do |-> "steps", steps |-> s, depth |-> depth]>>)>>

(* The steps at a level of a flow, level 1 being the outermost. *)
Level(flow) ==
    LET level[i \in Nat] ==
          IF i <= 1 THEN Range(flow)
          ELSE UNION {CASE StepOf[s].kind = "if" -> Range(StepOf[s].then) \cup Range(StepOf[s].else)
                        [] StepOf[s].kind = "seq" -> Range(StepOf[s].steps)
                        [] OTHER -> {} : s \in level[i - 1]}
    IN  level

(* CheckStaticBounds: no list of steps lies deeper than MaxNesting. *)
CheckStaticBounds(flow) ==
    \A s \in Level(flow)[MaxNesting] : StepOf[s].kind \notin {"if", "seq"}

(* Decide after its checks: conditions, then flow, then the allow. *)
Decide(rule) ==
    (IF rule.cond = None THEN <<>> ELSE EvalCondition(rule.cond, 0) \o <<[do |-> "require"]>>)
    \o (IF rule.hasFlow THEN RunSteps(rule.flow, 0) ELSE <<>>)
    \o <<[do |-> "allow"]>>

--------------------------------------------------------------------------------
GatewayInit ==
    /\ steps = [p \in Plugins |-> 0]
    /\ nesting = [p \in Plugins |-> 0]
    /\ req = [r \in Requests |-> None]
    /\ todo = [r \in Requests |-> <<>>]
    /\ ret = [r \in Requests |-> FALSE]
    /\ reg = [r \in Requests |-> None]
    /\ answer = [r \in Requests |-> "none"]
    /\ ops = [r \in Requests |-> <<>>]
    /\ charged = [p \in Plugins |-> 0]
    /\ served = 0

(* handleRows up to the interpreter: identity, plugin, static bounds. *)
Receive(r, cn, table, facts) ==
    /\ todo[r] = <<>> /\ served < MaxServed
    /\ served' = served + 1
    /\ req' = [req EXCEPT ![r] = [cn |-> cn, table |-> table, brought |-> facts, facts |-> facts,
                                  seen |-> [s \in DOMAIN StepOf |-> None]]]
    /\ ret' = [ret EXCEPT ![r] = FALSE]
    /\ ops' = [ops EXCEPT ![r] = <<>>]
    /\ IF cn \notin Plugins
       THEN answer' = [answer EXCEPT ![r] = "unauthorized"] /\ UNCHANGED todo
       ELSE IF Rules[cn].hasFlow /\ ~CheckStaticBounds(Rules[cn].flow)
       THEN answer' = [answer EXCEPT ![r] = "ruleError"] /\ UNCHANGED todo
       ELSE /\ answer' = [answer EXCEPT ![r] = "none"]
            /\ todo' = [todo EXCEPT ![r] = Decide(Rules[cn])]
    /\ UNCHANGED <<budget, reg, charged>>

Doing(r, i) == todo[r] # <<>> /\ Head(todo[r]).do = i
PluginOf(r) == req[r].cn

(* The instruction is done: what it calls comes before what was left. *)
Continue(r, instructions) == todo' = [todo EXCEPT ![r] = instructions \o Tail(@)]

\* The frames that are open in what is left to do, each of which has its Exit there.
Open(instructions) ==
    LET exits == {i \in DOMAIN instructions : instructions[i].do = "exit"}
        frames == {instructions[i].frame : i \in exits}
    IN  CHOOSE n \in {0} \cup frames : \A f \in frames : f <= n

\* Variant: Exit is not deferred.
UnwindWithoutExit(r, why) == todo' = [todo EXCEPT ![r] = <<[do |-> "refuse", why |-> why]>>]

(* An error returns through every open frame, whose Exit was deferred. *)
Unwind(r, why) ==
    LET open == Open(Tail(todo[r]))
        deferred == [i \in 1 .. open |-> Exit(open + 1 - i)]
    IN  todo' = [todo EXCEPT ![r] = Append(deferred, [do |-> "refuse", why |-> why])]

Local == UNCHANGED <<budget, reg, charged, served>>

--------------------------------------------------------------------------------
(* The budget's counters: a load, then a store of the new value. *)
LoadCounter(r) ==
    /\ reg[r] = None
    /\ \/ Doing(r, "step") /\ reg' = [reg EXCEPT ![r] = steps[PluginOf(r)]]
       \/ /\ Doing(r, "enter") /\ Head(todo[r]).depth <= MaxDepth
          /\ reg' = [reg EXCEPT ![r] = nesting[PluginOf(r)]]
       \/ Doing(r, "exit") /\ reg' = [reg EXCEPT ![r] = nesting[PluginOf(r)]]
    /\ UNCHANGED <<budget, req, todo, ret, answer, ops, charged, served>>

\* Variant: the count is compared with the limit one step early.
StoreStepEarly(r) ==
    /\ Doing(r, "step") /\ reg[r] # None
    /\ steps' = [steps EXCEPT ![PluginOf(r)] = reg[r] + 1]
    /\ charged' = [charged EXCEPT ![PluginOf(r)] = @ + 1]
    /\ IF reg[r] + 1 >= MaxSteps THEN Unwind(r, "steps") ELSE Continue(r, <<>>)
    /\ reg' = [reg EXCEPT ![r] = None]
    /\ UNCHANGED <<nesting, req, ret, answer, ops, served>>

(* Budget.Step. *)
StoreStep(r) ==
    /\ Doing(r, "step") /\ reg[r] # None
    /\ steps' = [steps EXCEPT ![PluginOf(r)] = reg[r] + 1]
    /\ charged' = [charged EXCEPT ![PluginOf(r)] = @ + 1]
    /\ IF reg[r] + 1 > MaxSteps THEN Unwind(r, "steps") ELSE Continue(r, <<>>)
    /\ reg' = [reg EXCEPT ![r] = None]
    /\ UNCHANGED <<nesting, req, ret, answer, ops, served>>

(* Budget.Enter past its depth check; Exit is deferred once it succeeds. *)
StoreEnter(r) ==
    /\ Doing(r, "enter") /\ reg[r] # None
    /\ nesting' = [nesting EXCEPT ![PluginOf(r)] = reg[r] + 1]
    /\ IF reg[r] + 1 > MaxNesting THEN Unwind(r, "nesting")
       ELSE Continue(r, Append(Head(todo[r]).body, Exit(Open(Tail(todo[r])) + 1)))
    /\ reg' = [reg EXCEPT ![r] = None]
    /\ UNCHANGED <<steps, req, ret, answer, ops, charged, served>>

\* Variant: Enter is retried.
EnterTooDeepSpins(r) ==
    /\ Doing(r, "enter") /\ Head(todo[r]).depth > MaxDepth
    /\ UNCHANGED gatewayVars

EnterTooDeep(r) ==
    /\ Doing(r, "enter") /\ Head(todo[r]).depth > MaxDepth
    /\ Unwind(r, "depth")
    /\ UNCHANGED <<req, ret, answer, ops>> /\ Local

(* Budget.Exit. *)
StoreExit(r) ==
    /\ Doing(r, "exit") /\ reg[r] # None
    /\ nesting' = [nesting EXCEPT ![PluginOf(r)] = IF reg[r] > 0 THEN reg[r] - 1 ELSE @]
    /\ Continue(r, <<>>)
    /\ reg' = [reg EXCEPT ![r] = None]
    /\ UNCHANGED <<steps, req, ret, answer, ops, charged, served>>

--------------------------------------------------------------------------------
Value(r, c) == req[r].facts[CondOf[c].fact]

(* EvalCondition's switch: "and" and "or" start their loops, "not" calls   *)
(* for its one item, is-null and the comparisons return.  No comparison is *)
(* true of null; a value of another type, or none, is an error.            *)
Eval(r) ==
    /\ Doing(r, "eval")
    /\ LET i == Head(todo[r])
           c == CondOf[i.c]
       IN  \/ /\ c.op \in {"and", "or"}
              /\ Continue(r, <<Items(c.op, c.items, i.depth)>>)
              /\ ret' = [ret EXCEPT ![r] = c.op = "and"]
           \/ /\ c.op = "not" /\ UNCHANGED ret
              /\ IF Len(c.items) = 1
                 THEN Continue(r, Append(EvalCondition(c.items[1], i.depth + 1), [do |-> "negate"]))
                 ELSE Unwind(r, "condition")
           \/ /\ c.op = "is-null"
              /\ Continue(r, <<>>)
              /\ ret' = [ret EXCEPT ![r] = Value(r, i.c) \in {"null", "missing"}]
           \/ /\ c.op = "compare" /\ Value(r, i.c) \notin {"mistyped", "missing"}
              /\ Continue(r, <<>>)
              /\ ret' = [ret EXCEPT ![r] = Value(r, i.c) = "true"]
           \/ /\ c.op = "compare" /\ Value(r, i.c) \in {"mistyped", "missing"} /\ UNCHANGED ret
              /\ Unwind(r, "condition")
    /\ UNCHANGED <<req, answer, ops>> /\ Local

\* Variant: "and" does not stop at a false item, so its last item decides.
NextItemLastWins(r) ==
    /\ Doing(r, "items")
    /\ LET i == Head(todo[r]) IN
       IF (i.op = "or" /\ ret[r]) \/ i.items = <<>>
       THEN Continue(r, <<>>)
       ELSE Continue(r, Append(EvalCondition(Head(i.items), i.depth + 1),
                           Items(i.op, Tail(i.items), i.depth)))
    /\ UNCHANGED <<req, ret, answer, ops>> /\ Local

(* One turn of the loop of "and" or "or": stop at the first item that      *)
(* decides, or after the last.                                             *)
NextItem(r) ==
    /\ Doing(r, "items")
    /\ LET i == Head(todo[r]) IN
       IF ret[r] # (i.op = "and") \/ i.items = <<>>
       THEN Continue(r, <<>>)
       ELSE Continue(r, Append(EvalCondition(Head(i.items), i.depth + 1),
                           Items(i.op, Tail(i.items), i.depth)))
    /\ UNCHANGED <<req, ret, answer, ops>> /\ Local

Negate(r) ==
    /\ Doing(r, "negate")
    /\ ret' = [ret EXCEPT ![r] = ~@]
    /\ Continue(r, <<>>)
    /\ UNCHANGED <<req, answer, ops>> /\ Local

(* Decide denies when the rule's conditions are not satisfied. *)
Require(r) ==
    /\ Doing(r, "require")
    /\ IF ret[r] THEN Continue(r, <<>>) /\ UNCHANGED answer
       ELSE /\ todo' = [todo EXCEPT ![r] = <<>>]
            /\ answer' = [answer EXCEPT ![r] = "denied"]
    /\ UNCHANGED <<req, ret, ops>> /\ Local

--------------------------------------------------------------------------------
(* One turn of runSteps' loop. *)
NextStep(r) ==
    /\ Doing(r, "steps")
    /\ LET i == Head(todo[r]) IN
       IF i.steps = <<>> THEN Continue(r, <<>>)
       ELSE Continue(r, << Step, [do |-> "run", step |-> Head(i.steps), depth |-> i.depth],
                       [do |-> "steps", steps |-> Tail(i.steps), depth |-> i.depth] >>)
    /\ UNCHANGED <<req, ret, answer, ops>> /\ Local

Running(r, kind) == Doing(r, "run") /\ StepOf[Head(todo[r]).step].kind = kind

\* Variant: the operation is retried.
RunOpAgain(r) ==
    /\ Running(r, "op")
    /\ ops' = [ops EXCEPT ![r] = Append(@, Head(todo[r]).step)]
    /\ Continue(r, <<Step, Head(todo[r])>>)
    /\ UNCHANGED <<req, ret, answer>> /\ Local

(* The handler runs an operation; what it returns is merged into the task  *)
(* variables that later conditions may read.                               *)
RunOp(r) ==
    /\ Running(r, "op")
    /\ LET s == Head(todo[r]).step IN
       /\ ops' = [ops EXCEPT ![r] = Append(@, s)]
       /\ IF StepOf[s].sets = None THEN UNCHANGED req
          ELSE \E v \in Values \ {"missing"} : req' = [req EXCEPT ![r].facts[StepOf[s].sets] = v]
    /\ Continue(r, <<>>)
    /\ UNCHANGED <<ret, answer>> /\ Local

OpFails(r) ==
    /\ Running(r, "op")
    /\ Unwind(r, "operation")
    /\ UNCHANGED <<req, ret, answer, ops>> /\ Local

(* The condition is evaluated on a copy of the facts and variables. *)
RunIf(r) ==
    /\ Running(r, "if")
    /\ LET i == Head(todo[r]) IN
       /\ Continue(r, Append(EvalCondition(StepOf[i.step].cond, i.depth + 1),
                         [do |-> "branch", step |-> i.step, depth |-> i.depth + 1]))
       /\ req' = [req EXCEPT ![r].seen[i.step] = req[r].facts]
    /\ UNCHANGED <<ret, answer, ops>> /\ Local

Branch(r) ==
    /\ Doing(r, "branch")
    /\ LET i == Head(todo[r]) IN
       Continue(r, RunSteps(IF ret[r] THEN StepOf[i.step].then ELSE StepOf[i.step].else, i.depth))
    /\ UNCHANGED <<req, ret, answer, ops>> /\ Local

RunSeq(r) ==
    /\ Running(r, "seq")
    /\ LET i == Head(todo[r]) IN Continue(r, RunSteps(StepOf[i.step].steps, i.depth + 1))
    /\ UNCHANGED <<req, ret, answer, ops>> /\ Local

--------------------------------------------------------------------------------
Reply(r, a) == todo' = [todo EXCEPT ![r] = <<>>] /\ answer' = [answer EXCEPT ![r] = a]

(* handleRows after an allow: the requested table must be one of the       *)
(* rule's, and the statement generated from the rule's params is executed. *)
Allow(r) ==
    /\ Doing(r, "allow")
    /\ LET rule == Rules[PluginOf(r)] IN
       IF req[r].table \notin Range(rule.tables) THEN Reply(r, "tableNotInRule")
       ELSE IF Len(rule.tables) # 1 \/ ~rule.renders THEN Reply(r, "noStatement")
       ELSE Reply(r, "rows") \/ Reply(r, "queryError")
    /\ UNCHANGED <<req, ret, ops>> /\ Local

Refuse(r) ==
    /\ Doing(r, "refuse")
    /\ Reply(r, Head(todo[r]).why)
    /\ UNCHANGED <<req, ret, ops>> /\ Local

Serve(r) ==
    \/ LoadCounter(r) \/ StoreStep(r) \/ StoreEnter(r) \/ EnterTooDeep(r) \/ StoreExit(r)
    \/ Eval(r) \/ NextItem(r) \/ Negate(r) \/ Require(r)
    \/ NextStep(r) \/ RunOp(r) \/ OpFails(r) \/ RunIf(r) \/ Branch(r) \/ RunSeq(r)
    \/ Allow(r) \/ Refuse(r)

\* All the requests of the model are answered.
AllAnswered == served = MaxServed /\ (\A r \in Requests : todo[r] = <<>>) /\ UNCHANGED gatewayVars

GatewayNext ==
    \/ \E r \in Requests :
          \/ \E cn \in Clients, t \in Tables, facts \in Facts : Receive(r, cn, t, facts)
          \/ Serve(r)
    \/ AllAnswered

SafetySpec == GatewayInit /\ [][GatewayNext]_gatewayVars

(* net/http runs the goroutine of every request it has accepted. *)
GatewaySpec == SafetySpec /\ \A r \in Requests : WF_gatewayVars(Serve(r))

--------------------------------------------------------------------------------
(* What a condition means, without budget, order or errors. *)
Holds(facts) ==
    LET holds[c \in DOMAIN CondOf] ==
          CASE CondOf[c].op = "and" -> \A i \in DOMAIN CondOf[c].items : holds[CondOf[c].items[i]]
            [] CondOf[c].op = "or" -> \E i \in DOMAIN CondOf[c].items : holds[CondOf[c].items[i]]
            [] CondOf[c].op = "not" -> \A i \in DOMAIN CondOf[c].items : ~holds[CondOf[c].items[i]]
            [] CondOf[c].op = "is-null" -> facts[CondOf[c].fact] \in {"null", "missing"}
            [] OTHER -> facts[CondOf[c].fact] = "true"
    IN  holds

\* The sequences of a list, one after the other.
Concat(list) ==
    LET rest[i \in 1 .. Len(list) + 1] == IF i > Len(list) THEN <<>> ELSE list[i] \o rest[i + 1]
    IN  rest[1]

(* The steps that a step selects, given what the conditions saw. *)
Body(s, seen) ==
    CASE StepOf[s].kind = "if" ->
           IF Holds(seen[s])[StepOf[s].cond] THEN StepOf[s].then ELSE StepOf[s].else
      [] StepOf[s].kind = "seq" -> StepOf[s].steps
      [] OTHER -> <<>>

(* The operations of a step, and of a flow, in order. *)
StepTrace(seen) ==
    LET trace[s \in DOMAIN StepOf] ==
          IF StepOf[s].kind = "op" THEN <<s>>
          ELSE Concat([i \in DOMAIN Body(s, seen) |-> trace[Body(s, seen)[i]]])
    IN  trace

Trace(flow, seen) == Concat([i \in DOMAIN flow |-> StepTrace(seen)[flow[i]]])

Queried(r) == answer[r] \in {"rows", "queryError"}

(* A statement reaches the database only for the table of the client's own *)
(* rule, and only when the rule's conditions hold of what the request      *)
(* brought, whatever the flow has added to it since: no error path, short  *)
(* circuit or interleaving of requests on a shared budget lets             *)
(* another one through (handleRows, "fail-closed").                        *)
QueriesAreAuthorised ==
    \A r \in Requests : Queried(r) =>
        /\ req[r].cn \in Plugins
        /\ Rules[req[r].cn].tables = <<req[r].table>>
        /\ LET c == Rules[req[r].cn].cond IN c = None \/ Holds(req[r].brought)[c]

(* Before a statement is executed, the flow has run to its end: exactly    *)
(* the operations of the branches that its conditions select on the        *)
(* variables of the moment, in the order the rule lists them (Decide,      *)
(* runSteps).                                                              *)
FlowRunsToItsEnd ==
    \A r \in Requests : Queried(r) /\ Rules[req[r].cn].hasFlow =>
        ops[r] = Trace(Rules[req[r].cn].flow, req[r].seen)

(* "a single authorization can trigger at most one execution of each       *)
(* operation (no amplification factor)" (CheckStaticBounds), whether the   *)
(* request is answered with rows or refused half way.                      *)
NoAmplification == \A r \in Requests : IsInjective(ops[r])

(* What a request may do, together: a query is authorised, comes after the *)
(* whole flow, and no operation is repeated.                               *)
ExecutionIsFaithful == QueriesAreAuthorised /\ FlowRunsToItsEnd /\ NoAmplification

(* Requests within the nesting limit give back every level they enter, on  *)
(* every error path: the budget of an idle plugin is at level 0.           *)
NestingBalanced ==
    \A p \in Plugins :
        (\A r \in Requests : todo[r] # <<>> => PluginOf(r) # p) => nesting[p] = 0

(* "termination is structural" (CheckStaticBounds): every request is       *)
(* answered.                                                               *)
EveryRequestAnswered == \A r \in Requests : todo[r] # <<>> ~> todo[r] = <<>>

(* A request is refused for its steps only when the requests its plugin    *)
(* has served so far took more than MaxSteps between them: one budget      *)
(* lasts for the life of the plugin (LoadRulePlugin), and updates lost     *)
(* between goroutines only ever make its counter smaller.                  *)
RefusedForSpentSteps ==
    /\ \A p \in Plugins : steps[p] <= charged[p]
    /\ \A r \in Requests : answer[r] = "steps" => charged[PluginOf(r)] > MaxSteps
================================================================================
