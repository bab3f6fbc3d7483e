---------------------------- MODULE SchemeRegistry ----------------------------
(***************************************************************************)
(* The scheme registry of package register: the loader that builds it from *)
(* a directory of definitions, and the calls of goroutines that share it.  *)
(* Every method is a program over the registry's sync.RWMutex, one         *)
(* instruction per step.                                                   *)
(*                                                                         *)
(* The mutex is Go's: a writer first takes the writers' mutex and thereby  *)
(* announces itself, which holds back every reader that comes later; it    *)
(* enters when the readers before it have left, and on leaving lets the    *)
(* readers it held back in.                                                *)
(***************************************************************************)
EXTENDS Integers, Sequences

CONSTANTS
    Procs,          \* goroutines
    NoProc,
    Ids,            \* scheme ids
    Defs,           \* scheme definitions: [id, caps, valid]
    Caps,           \* capability ids
    NoDef,
    Directories,    \* the directories to load from, each a sequence of Defs
    Ops             \* the methods the goroutines call

ASSUME DefsAssumption ==
    /\ \A d \in Defs : d.id \in Ids /\ d.caps \subseteq Caps
    /\ NoDef \notin Defs
    /\ NoProc \notin Procs

Methods == {"Register", "Get", "Has", "HasCapability", "ValidateCapability", "SchemeIDs", "Summary"}

ASSUME OpsAssumption == Ops \subseteq Methods

VARIABLES
    phase,          \* the loader: "load", "failed" or "serve"
    walk,           \* the files not yet visited
    schemes,        \* LoadFromDir's map, then Registry.schemes
    pending,        \* the goroutine holding the writers' mutex
    writer,         \* the goroutine holding the write lock
    readers,        \* read locks held, per goroutine
    held,           \* goroutines whose RLock waits for the writer
    code,           \* the instructions each goroutine has left
    arg,            \* the argument of its call
    ret,            \* the definitions the call has read
    won             \* definitions whose Register returned nil, for the properties

lock == <<pending, writer, readers, held>>
load == <<phase, walk>>
vars == <<load, lock, schemes, code, arg, ret, won>>

\* What the plain lookups read.
ReadOf == [Get |-> "get", Has |-> "has", HasCapability |-> "hasCapability", SchemeIDs |-> "ids"]

\* Variant: Register takes the read lock.
ProgramReadLocked(op) ==
    CASE op = "Register"           -> <<"RLock", "check", "insert", "RUnlock">>
      [] op = "ValidateCapability" -> <<"RLock", "get", "RUnlock", "scan">>
      [] op = "Summary"            -> <<"RLock", "RLock", "ids", "RUnlock", "render", "RUnlock">>
      [] OTHER                     -> <<"RLock", ReadOf[op], "RUnlock">>

\* Variant: ValidateCapability calls Get with the lock held.
ProgramNested(op) ==
    CASE op = "Register"           -> <<"Lock", "Drain", "check", "insert", "Unlock">>
      [] op = "ValidateCapability" -> <<"RLock", "RLock", "get", "RUnlock", "scan", "RUnlock">>
      [] op = "Summary"            -> <<"RLock", "RLock", "ids", "RUnlock", "render", "RUnlock">>
      [] OTHER                     -> <<"RLock", ReadOf[op], "RUnlock">>

\* Variant: Summary does not hold its own read lock.
ProgramUnnested(op) ==
    CASE op = "Register"           -> <<"Lock", "Drain", "check", "insert", "Unlock">>
      [] op = "ValidateCapability" -> <<"RLock", "get", "RUnlock", "scan">>
      [] op = "Summary"            -> <<"RLock", "ids", "RUnlock", "render">>
      [] OTHER                     -> <<"RLock", ReadOf[op], "RUnlock">>

(* The instructions of each method, the locks it takes included; Summary   *)
(* calls SchemeIDs with its own read lock held.                            *)
Program(op) ==
    CASE op = "Register"           -> <<"Lock", "Drain", "check", "insert", "Unlock">>
      [] op = "ValidateCapability" -> <<"RLock", "get", "RUnlock", "scan">>
      [] op = "Summary"            -> <<"RLock", "RLock", "ids", "RUnlock", "render", "RUnlock">>
      [] OTHER                     -> <<"RLock", ReadOf[op], "RUnlock">>

Registered == {schemes[i] : i \in DOMAIN schemes}

\* The map with a definition stored under its id.
Store(d) == [i \in DOMAIN schemes \cup {d.id} |-> IF i = d.id THEN d ELSE schemes[i]]

At(p, i) == code[p] # <<>> /\ Head(code[p]) = i

Init ==
    /\ phase = "load"
    /\ walk \in Directories
    /\ schemes = <<>>
    /\ pending = NoProc /\ writer = NoProc
    /\ readers = [p \in Procs |-> 0]
    /\ held = {}
    /\ code = [p \in Procs |-> <<>>]
    /\ arg = [p \in Procs |-> NoDef]
    /\ ret = [p \in Procs |-> {}]
    /\ won = {}

--------------------------------------------------------------------------------
(* LoadFromDir visits one file: an invalid definition fails the load, and  *)
(* the map keeps the last definition of an id.                             *)
LoadFile ==
    /\ phase = "load" /\ walk # <<>>
    /\ LET d == Head(walk) IN
       IF d.valid
       THEN schemes' = Store(d) /\ UNCHANGED phase
       ELSE phase' = "failed" /\ UNCHANGED schemes
    /\ walk' = Tail(walk)
    /\ UNCHANGED <<lock, code, arg, ret, won>>

(* NewRegistryFromDisk registers what the map holds, one per id. *)
NewRegistryFromDisk ==
    /\ phase = "load" /\ walk = <<>>
    /\ phase' = "serve"
    /\ won' = Registered
    /\ UNCHANGED <<walk, lock, schemes, code, arg, ret>>

(* A goroutine calls a method; lookups take the id and the capabilities of *)
(* a definition the caller has in mind, registered or not.                 *)
Call(p, op, d) ==
    /\ phase = "serve" /\ code[p] = <<>>
    /\ code' = [code EXCEPT ![p] = Program(op)]
    /\ arg' = [arg EXCEPT ![p] = d]
    /\ ret' = [ret EXCEPT ![p] = {}]
    /\ UNCHANGED <<load, lock, schemes, won>>

Proceed(p) ==
    /\ code' = [code EXCEPT ![p] = Tail(@)]
    /\ arg' = [arg EXCEPT ![p] = IF Len(code[p]) = 1 THEN NoDef ELSE @]
    /\ UNCHANGED load

--------------------------------------------------------------------------------
(* RWMutex.Lock, first half: take the writers' mutex. *)
Lock(p) ==
    /\ At(p, "Lock") /\ pending = NoProc
    /\ pending' = p
    /\ Proceed(p)
    /\ UNCHANGED <<writer, readers, held, schemes, ret, won>>

(* Its second half: wait until the readers before it have left. *)
Drain(p) ==
    /\ At(p, "Drain") /\ \A q \in Procs : readers[q] = 0
    /\ writer' = p
    /\ Proceed(p)
    /\ UNCHANGED <<pending, readers, held, schemes, ret, won>>

(* RWMutex.Unlock: the readers held back enter, then other writers may. *)
Unlock(p) ==
    /\ At(p, "Unlock")
    /\ writer' = NoProc /\ pending' = NoProc
    /\ readers' = [q \in Procs |-> IF q \in held THEN readers[q] + 1 ELSE readers[q]]
    /\ held' = {}
    /\ code' = [q \in Procs |-> IF q = p \/ q \in held THEN Tail(code[q]) ELSE code[q]]
    /\ arg' = [arg EXCEPT ![p] = NoDef]
    /\ UNCHANGED <<load, schemes, ret, won>>

(* RWMutex.RLock: enter, or wait behind an announced writer even with a    *)
(* read lock already held.                                                 *)
RLock(p) ==
    /\ At(p, "RLock") /\ p \notin held
    /\ IF pending = NoProc
       THEN readers' = [readers EXCEPT ![p] = @ + 1] /\ Proceed(p) /\ UNCHANGED held
       ELSE held' = held \cup {p} /\ UNCHANGED <<readers, code, load, arg>>
    /\ UNCHANGED <<pending, writer, schemes, ret, won>>

RUnlock(p) ==
    /\ At(p, "RUnlock")
    /\ readers' = [readers EXCEPT ![p] = @ - 1]
    /\ Proceed(p)
    /\ UNCHANGED <<pending, writer, held, schemes, ret, won>>

--------------------------------------------------------------------------------
(* The registered definition of the id asked for, as a set of at most one. *)
Found(p) == {schemes[i] : i \in DOMAIN schemes \cap {arg[p].id}}

WithCapability(p, ds) == {d \in ds : arg[p].caps \cap d.caps # {}}

(* The map reads of the methods; a Boolean answer is the set of what makes *)
(* it true.                                                                *)
Read(p, i, value) ==
    /\ At(p, i)
    /\ ret' = [ret EXCEPT ![p] = value]
    /\ Proceed(p)
    /\ UNCHANGED <<lock, schemes, won>>

(* Register looks for a duplicate, and stores its definition without one. *)
Check(p) == Read(p, "check", Found(p))

Insert(p) ==
    /\ At(p, "insert")
    /\ IF ret[p] # {}
       THEN UNCHANGED <<schemes, won>>
       ELSE /\ schemes' = Store(arg[p])
            /\ won' = won \cup {arg[p]}
    /\ Proceed(p)
    /\ UNCHANGED <<lock, ret>>

Get(p) == Read(p, "get", Found(p))

Has(p) == Read(p, "has", Found(p))

HasCapability(p) == Read(p, "hasCapability", WithCapability(p, Found(p)))

(* ValidateCapability scans the definition after Get has released the lock. *)
Scan(p) == Read(p, "scan", WithCapability(p, ret[p]))

(* The ids are those of the definitions registered now. *)
SchemeIDs(p) == Read(p, "ids", Registered)

(* Summary looks every id up in the map again to print its line. *)
Render(p) == Read(p, "render", {schemes[d.id] : d \in ret[p]})

Step(p) ==
    \/ Lock(p) \/ Drain(p) \/ Unlock(p) \/ RLock(p) \/ RUnlock(p)
    \/ Check(p) \/ Insert(p) \/ Get(p) \/ Has(p) \/ HasCapability(p) \/ Scan(p)
    \/ SchemeIDs(p) \/ Render(p)

Next ==
    \/ LoadFile
    \/ NewRegistryFromDisk
    \/ \E p \in Procs : \/ \E op \in Ops, d \in Defs : Call(p, op, d)
                        \/ Step(p)

(* The Go scheduler runs every goroutine that can run; the writers' mutex  *)
(* is a sync.Mutex, whose starvation mode is fair among those that wait.   *)
Fairness ==
    /\ WF_vars(LoadFile) /\ WF_vars(NewRegistryFromDisk)
    /\ \A p \in Procs : WF_vars(Step(p)) /\ SF_vars(Lock(p))

SafetySpec == Init /\ [][Next]_vars

Spec == SafetySpec /\ Fairness

--------------------------------------------------------------------------------
(* "a silently overwritten duplicate masks a data problem" (Register):     *)
(* whatever goroutines register at the same time, Register returns nil for *)
(* exactly one definition of an id, and that one is in the map.            *)
OneWinnerPerScheme ==
    phase = "serve" =>
        /\ won = Registered
        /\ \A i \in DOMAIN schemes : schemes[i].id = i

(* No goroutine touches the map while another one writes it, which the Go  *)
(* runtime answers by ending the program.                                  *)
MapWritesAreExclusive ==
    \A p, q \in Procs :
        p # q /\ At(p, "insert") =>
            \A i \in {"check", "insert", "get", "has", "hasCapability", "ids", "render"} : ~At(q, i)

(* What Summary prints is one state of the registry: the ids it got from   *)
(* SchemeIDs are the registered ones until it has printed the last line.   *)
SummaryIsSnapshot == \A p \in Procs : At(p, "render") => ret[p] = Registered

\* A Summary waits for its second read lock with the first one held.
SummaryBlocked == \E q \in held : readers[q] > 0 /\ \E i \in DOMAIN code[q] : code[q][i] = "render"

(* Register and the lookups never wait for one another forever: a call     *)
(* that does not return waits behind a Summary that a Register caught      *)
(* between its two read locks.                                             *)
OnlySummaryBlocks == \A p \in Procs : code[p] # <<>> ~> (code[p] = <<>> \/ SummaryBlocked)
================================================================================
