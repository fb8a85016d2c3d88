------------------------------- MODULE Config -------------------------------
(***************************************************************************)
(* The configuration (vity/config.h, vity/config.cc): a table of named,    *)
(* typed variables that any thread may create, set, load from YAML and     *)
(* listen to.  One lock guards the table, one lock each variable; both     *)
(* let readers in while other readers are there (pthread_rwlock_t with its *)
(* default attributes prefers readers).                                    *)
(*                                                                         *)
(* What may be seen by another thread is a step of its own: a setValue     *)
(* notifies under the read lock and assigns under a write lock it takes    *)
(* later; the counter behind addListener's keys is not guarded by the lock *)
(* held there, since it is shared by all the variables of a type.          *)
(***************************************************************************)
EXTENDS Naturals, FiniteSets, FiniteSetsExt, Sequences

CONSTANTS
    Threads,
    Setters,    (* the threads that call setValue or LoadFromYaml          *)
    Names,
    ValidNames, (* those made of the characters Lookup allows              *)
    Types,      (* the T of ConfigVar<T>                                   *)
    TypesOf,    (* the types the program looks a name up with              *)
    Vars,       (* bound: ConfigVar objects                                *)
    Values,
    Default,    (* default_value                                           *)
    Bad,        (* text that does not convert to T                         *)
    Roots,      (* YAML documents: sequences of <<name, text>>             *)
    Listeners,  (* bound: callbacks, each passed to addListener once       *)
    Throwing,   (* those that may throw                                    *)
    None,
    MaxCalls    (* bound: calls of the program                             *)

(* Config::GetMutex(), and the m_mutex of each variable. *)
Datas == "GetMutex"
Locks == {Datas} \cup Vars

ASSUME ConfigAssumption ==
    /\ Setters \subseteq Threads
    /\ ValidNames \subseteq Names
    /\ TypesOf \in [Names -> SUBSET Types]
    /\ Default \in Values /\ Bad \notin Values
    /\ Roots \subseteq Seq(Names \X (Values \cup {Bad})) \ {<<>>}
    /\ Throwing \subseteq Listeners
    /\ None \notin Vars \cup Types \cup Threads \cup Names \cup Values
    /\ Datas \notin Vars
    /\ MaxCalls \in Nat

VARIABLES
    s_datas,    (* the table: name to variable                             *)
    type,       (* the T of a variable, None before it is made             *)
    m_val,
    m_cbs,      (* of each variable: key to listener                       *)
    s_fun_id,   (* of each type: addListener's static counter              *)
    readers, writer,    (* who holds a lock                                *)
    pc,         (* where a thread is in a call                             *)
    arg,        (* the arguments and locals of that call                   *)
    todo,       (* LoadFromYaml's nodes to come                            *)
    calls,
    handed,     (* history: what Lookup returned, as <<name, type, var>>   *)
    reg,        (* history: <<variable, key, listener>> of the callers     *)
    used,       (* history: listeners passed to addListener                *)
    overlapped, (* history: types of which two threads were in addListener,
                   each for a variable of its own, at once                 *)
    heard,      (* history: the new_value a listener was last told         *)
    torn        (* history: variables whose last round ended in a throw    *)

tableVars == <<s_datas, type, handed>>
cbsVars   == <<m_cbs, s_fun_id, reg, used, overlapped>>
valVars   == <<m_val, heard, torn>>
lockVars  == <<readers, writer>>
callVars  == <<pc, arg, todo, calls>>
vars == <<tableVars, cbsVars, valVars, lockVars, callVars>>

Arg   == [name : Names \cup {None}, type : Types \cup {None},
          var : Vars \cup {None}, val : Values \cup {None},
          cb : Listeners \cup {None}, at : Nat, left : SUBSET Vars]
NoArg == [name |-> None, type |-> None, var |-> None, val |-> None, cb |-> None,
          at |-> 0, left |-> {}]

Label == {"ready", "lookup", "visit", "load", "set", "notify", "assign", "add",
          "insert", "inserted"}
Adding == {"add", "insert", "inserted"}

(* Wrong on purpose: what some definitions below would be if a line of the  *)
(* code were missing or wrong.  Each one in the place of the right one      *)
(* breaks a property, which shows that the property is about that line.     *)
NotExclusive(l)      == TRUE
KeepsValue(v, val)   == UNCHANGED m_val
ErasesFrom(v, key)   == m_cbs' = [m_cbs EXCEPT ![v] = [k \in {i \in DOMAIN @ : i < key} |-> @[k]]]
CounterStays(ty, at) == UNCHANGED s_fun_id
KeepsLock(t, l)      == UNCHANGED readers

-----------------------------------------------------------------------------
(* Locks and calls *)

Shared(l)    == writer[l] = None
Exclusive(l) == writer[l] = None /\ readers[l] = {}

RdLock(t, l)   == Shared(l) /\ readers' = [readers EXCEPT ![l] = @ \cup {t}]
RdUnlock(t, l) == readers' = [readers EXCEPT ![l] = @ \ {t}]
WrLock(t, l)   == Exclusive(l) /\ writer' = [writer EXCEPT ![l] = t]
WrUnlock(l)    == writer' = [writer EXCEPT ![l] = None]

Goto(t, label) == pc' = [pc EXCEPT ![t] = label]

(* A thread makes a call, and is in it. *)
Calls(t, label, a) ==
    /\ pc[t] = "ready"
    /\ calls < MaxCalls
    /\ calls' = calls + 1
    /\ arg' = [arg EXCEPT ![t] = a]
    /\ Goto(t, label)

(* A call that one step ends. *)
CallsBriefly(t) ==
    /\ pc[t] = "ready"
    /\ calls < MaxCalls
    /\ calls' = calls + 1
    /\ UNCHANGED <<pc, arg>>

(* The call of setValue, or the whole call, is over. *)
Finish(t) ==
    /\ Goto(t, IF todo[t] # <<>> THEN "load" ELSE "ready")
    /\ arg' = [arg EXCEPT ![t] = NoArg]

(* The variables the program has pointers to. *)
Known == {p[3] : p \in handed}

-----------------------------------------------------------------------------
(* The table *)

(* Lookup(name, default_value), up to find(); var is what it found. *)
Lookup(t) ==
    /\ \E n \in Names : \E ty \in TypesOf[n] :
          Calls(t, "lookup", [NoArg EXCEPT !.name = n, !.type = ty, !.var = s_datas[n]])
    /\ WrLock(t, Datas)
    /\ UNCHANGED <<tableVars, cbsVars, valVars, readers, todo>>

(* The name is there: the variable, if it has that type.  (If not, its      *)
(* toString() is logged, which takes its lock.)                             *)
LookupFound(t) ==
    LET n == arg[t].name  v == arg[t].var IN
    /\ pc[t] = "lookup"
    /\ v # None
    /\ IF type[v] = arg[t].type
       THEN handed' = handed \cup {<<n, arg[t].type, v>>}
       ELSE Shared(v) /\ UNCHANGED handed
    /\ WrUnlock(Datas)
    /\ Finish(t)
    /\ UNCHANGED <<s_datas, type, cbsVars, valVars, readers, todo, calls>>

(* It is not: the variable is made.  An invalid name throws. *)
LookupCreate(t) ==
    LET n == arg[t].name IN
    /\ pc[t] = "lookup"
    /\ arg[t].var = None
    /\ IF n \notin ValidNames THEN UNCHANGED tableVars
       ELSE \E v \in Vars :
              /\ type[v] = None
              /\ type' = [type EXCEPT ![v] = arg[t].type]
              /\ s_datas' = [s_datas EXCEPT ![n] = v]
              /\ handed' = handed \cup {<<n, arg[t].type, v>>}
    /\ WrUnlock(Datas)
    /\ Finish(t)
    /\ UNCHANGED <<cbsVars, valVars, readers, todo, calls>>

(* Lookup(name): the variable or nullptr. *)
LookupOnly(t) ==
    /\ CallsBriefly(t)
    /\ Shared(Datas)
    /\ \E n \in Names : \E ty \in TypesOf[n] :
          /\ s_datas[n] # None /\ type[s_datas[n]] = ty
          /\ handed' = handed \cup {<<n, ty, s_datas[n]>>}
    /\ UNCHANGED <<s_datas, type, cbsVars, valVars, lockVars, todo>>

(* Visit: cb reads every variable while the table is locked. *)
Visit(t) ==
    /\ Calls(t, "visit", [NoArg EXCEPT !.left = {s_datas[n] : n \in Names} \ {None}])
    /\ RdLock(t, Datas)
    /\ UNCHANGED <<tableVars, cbsVars, valVars, writer, todo>>

VisitOne(t) ==
    /\ pc[t] = "visit"
    /\ \E v \in arg[t].left :
          Shared(v) /\ arg' = [arg EXCEPT ![t].left = @ \ {v}]
    /\ UNCHANGED <<tableVars, cbsVars, valVars, lockVars, pc, todo, calls>>

VisitEnd(t) ==
    /\ pc[t] = "visit"
    /\ arg[t].left = {}
    /\ RdUnlock(t, Datas)
    /\ Finish(t)
    /\ UNCHANGED <<tableVars, cbsVars, valVars, writer, todo, calls>>

(* LoadFromYaml. *)
Load(t) ==
    /\ t \in Setters
    /\ \E root \in Roots : todo' = [todo EXCEPT ![t] = root]
    /\ Calls(t, "load", NoArg)
    /\ UNCHANGED <<tableVars, cbsVars, valVars, lockVars>>

(* The next node: LookupBase, and fromString of a variable found.  It       *)
(* catches what the conversion throws.                                      *)
LoadNode(t) ==
    LET v == s_datas[Head(todo[t])[1]]  text == Head(todo[t])[2] IN
    /\ pc[t] = "load"
    /\ Shared(Datas)
    /\ todo' = [todo EXCEPT ![t] = Tail(@)]
    /\ IF v # None /\ text # Bad
       THEN Goto(t, "set") /\ arg' = [arg EXCEPT ![t] = [NoArg EXCEPT !.var = v, !.val = text]]
       ELSE Goto(t, IF Len(todo[t]) > 1 THEN "load" ELSE "ready") /\ UNCHANGED arg
    /\ UNCHANGED <<tableVars, cbsVars, valVars, lockVars, calls>>

-----------------------------------------------------------------------------
(* setValue *)

Set(t) ==
    /\ t \in Setters
    /\ \E v \in Known, x \in Values :
          Calls(t, "set", [NoArg EXCEPT !.var = v, !.val = x])
    /\ UNCHANGED <<tableVars, cbsVars, valVars, lockVars, todo>>

(* Nothing to do if the variable has the value. *)
SetSame(t) ==
    LET v == arg[t].var IN
    /\ pc[t] = "set"
    /\ Shared(v)
    /\ m_val[v] = arg[t].val
    /\ Finish(t)
    /\ UNCHANGED <<tableVars, cbsVars, valVars, lockVars, todo, calls>>

SetBegin(t) ==
    LET v == arg[t].var IN
    /\ pc[t] = "set"
    /\ m_val[v] # arg[t].val
    /\ RdLock(t, v)
    /\ Goto(t, "notify")
    /\ UNCHANGED <<tableVars, cbsVars, valVars, writer, arg, todo, calls>>

(* What the iterator over m_cbs has still to come to. *)
Ahead(v, at) == {k \in DOMAIN m_cbs[v] : k > at}

(* The next listener is told.  If it throws setValue ends there; fromString *)
(* catches it.                                                              *)
Notify(t) ==
    LET v == arg[t].var  k == Min(Ahead(v, arg[t].at)) IN
    /\ pc[t] = "notify"
    /\ Ahead(v, arg[t].at) # {}
    /\ heard' = [heard EXCEPT ![m_cbs[v][k]] = arg[t].val]
    /\ \/ /\ arg' = [arg EXCEPT ![t].at = k]
          /\ UNCHANGED <<torn, readers, pc>>
       \/ /\ m_cbs[v][k] \in Throwing
          /\ torn' = torn \cup {v}
          /\ RdUnlock(t, v)
          /\ Finish(t)
    /\ UNCHANGED <<tableVars, cbsVars, m_val, writer, todo, calls>>

NotifyEnd(t) ==
    /\ pc[t] = "notify"
    /\ Ahead(arg[t].var, arg[t].at) = {}
    /\ RdUnlock(t, arg[t].var)
    /\ Goto(t, "assign")
    /\ UNCHANGED <<tableVars, cbsVars, valVars, writer, arg, todo, calls>>

Store(v, val) == m_val' = [m_val EXCEPT ![v] = val]

Assign(t) ==
    LET v == arg[t].var IN
    /\ pc[t] = "assign"
    /\ Exclusive(v)
    /\ Store(v, arg[t].val)
    /\ torn' = torn \ {v}
    /\ Finish(t)
    /\ UNCHANGED <<tableVars, cbsVars, heard, lockVars, todo, calls>>

-----------------------------------------------------------------------------
(* Listeners.  arg.at is the counter as ++s_fun_id has loaded it.           *)

AddsTo(u, ty) == pc[u] \in Adding /\ type[arg[u].var] = ty

AddListener(t) ==
    /\ \E v \in Known, l \in Listeners \ used :
          /\ Calls(t, "add", [NoArg EXCEPT !.var = v, !.cb = l,
                                            !.at = s_fun_id[type[v]]])
          /\ WrLock(t, v)
          /\ used' = used \cup {l}
          /\ overlapped' = overlapped \cup {ty \in {type[v]} : \E u \in Threads : AddsTo(u, ty)}
    /\ UNCHANGED <<tableVars, m_cbs, s_fun_id, reg, valVars, readers, todo>>

CountUp(ty, at) == s_fun_id' = [s_fun_id EXCEPT ![ty] = at + 1]

AddCount(t) ==
    /\ pc[t] = "add"
    /\ CountUp(type[arg[t].var], arg[t].at)
    /\ Goto(t, "insert")
    /\ UNCHANGED <<tableVars, m_cbs, reg, used, overlapped, valVars, lockVars, arg, todo, calls>>

(* m_cbs[s_fun_id] = cb reads the counter again ... *)
AddInsert(t) ==
    LET v == arg[t].var  key == s_fun_id[type[v]] IN
    /\ pc[t] = "insert"
    /\ m_cbs' = [m_cbs EXCEPT ![v] =
                   [k \in DOMAIN @ \cup {key} |-> IF k = key THEN arg[t].cb ELSE @[k]]]
    /\ Goto(t, "inserted")
    /\ UNCHANGED <<tableVars, s_fun_id, reg, used, overlapped, valVars, lockVars, arg, todo, calls>>

(* ... and so does return s_fun_id. *)
AddReturn(t) ==
    LET v == arg[t].var IN
    /\ pc[t] = "inserted"
    /\ reg' = reg \cup {<<v, s_fun_id[type[v]], arg[t].cb>>}
    /\ WrUnlock(v)
    /\ Finish(t)
    /\ UNCHANGED <<tableVars, m_cbs, s_fun_id, used, overlapped, valVars, readers, todo, calls>>

Erase(v, key) == m_cbs' = [m_cbs EXCEPT ![v] = [k \in DOMAIN @ \ {key} |-> @[k]]]

(* delListener with a key that addListener gave. *)
DelListener(t) ==
    /\ CallsBriefly(t)
    /\ \E r \in reg :
          /\ Exclusive(r[1])
          /\ Erase(r[1], r[2])
          /\ reg' = reg \ {r}
    /\ UNCHANGED <<tableVars, s_fun_id, used, overlapped, valVars, lockVars, todo>>

ClearListener(t) ==
    /\ CallsBriefly(t)
    /\ \E v \in Known :
          /\ DOMAIN m_cbs[v] # {}
          /\ Exclusive(v)
          /\ m_cbs' = [m_cbs EXCEPT ![v] = <<>>]
          /\ reg' = {r \in reg : r[1] # v}
    /\ UNCHANGED <<tableVars, s_fun_id, used, overlapped, valVars, lockVars, todo>>

-----------------------------------------------------------------------------
Init ==
    /\ s_datas = [n \in Names |-> None]
    /\ type = [v \in Vars |-> None]
    /\ m_val = [v \in Vars |-> Default]
    /\ m_cbs = [v \in Vars |-> <<>>]
    /\ s_fun_id = [ty \in Types |-> 0]
    /\ readers = [l \in Locks |-> {}]
    /\ writer = [l \in Locks |-> None]
    /\ pc = [t \in Threads |-> "ready"]
    /\ arg = [t \in Threads |-> NoArg]
    /\ todo = [t \in Threads |-> <<>>]
    /\ calls = 0
    /\ handed = {}
    /\ reg = {}
    /\ used = {}
    /\ overlapped = {}
    /\ heard = [l \in Listeners |-> None]
    /\ torn = {}

Begin(t) == \/ Lookup(t) \/ LookupOnly(t) \/ Visit(t) \/ Load(t) \/ Set(t)
            \/ AddListener(t) \/ DelListener(t) \/ ClearListener(t)

Continue(t) ==
    \/ LookupFound(t) \/ LookupCreate(t) \/ VisitOne(t) \/ VisitEnd(t)
    \/ LoadNode(t) \/ SetSame(t) \/ SetBegin(t) \/ Notify(t) \/ NotifyEnd(t)
    \/ Assign(t) \/ AddCount(t) \/ AddInsert(t) \/ AddReturn(t)

(* A thread that is in no call need not make one. *)
Rest == (\E t \in Threads : pc[t] = "ready") /\ UNCHANGED vars

Next == (\E t \in Threads : Begin(t) \/ Continue(t)) \/ Rest

Spec == Init /\ [][Next]_vars

(* A thread that is in a call goes on with it. *)
Fairness == \A t \in Threads : WF_vars(Continue(t))

FairSpec == Spec /\ Fairness

-----------------------------------------------------------------------------
(* The variables have their types. *)
TypeOK ==
    /\ s_datas \in [Names -> Vars \cup {None}]
    /\ type \in [Vars -> Types \cup {None}]
    /\ m_val \in [Vars -> Values]
    /\ \A v \in Vars : /\ DOMAIN m_cbs[v] \subseteq Nat \ {0}
                      /\ \A k \in DOMAIN m_cbs[v] : m_cbs[v][k] \in Listeners
    /\ s_fun_id \in [Types -> Nat]
    /\ readers \in [Locks -> SUBSET Threads]
    /\ writer \in [Locks -> Threads \cup {None}]
    /\ pc \in [Threads -> Label]
    /\ arg \in [Threads -> Arg]
    /\ todo \in [Threads -> Seq(Names \X (Values \cup {Bad}))]
    /\ calls \in 0 .. MaxCalls
    /\ handed \subseteq Names \X Types \X Vars
    /\ reg \subseteq Vars \X Nat \X Listeners
    /\ used \subseteq Listeners
    /\ overlapped \subseteq Types
    /\ heard \in [Listeners -> Values \cup {None}]
    /\ torn \subseteq Vars

(* Whoever looks a name up, at whatever moment, gets the same variable, and *)
(* it has the type that was asked for: two threads that look a new name up  *)
(* at once do not each make one.                                            *)
OneVariable ==
    \A p \in handed :
        /\ type[p[3]] = p[2]
        /\ \A q \in handed : (p[1] = q[1]) <=> (p[3] = q[3])

(* While setValue goes through the listeners of a variable, no thread       *)
(* changes the list it iterates over or the old value it passes on.         *)
RoundIsStable ==
    [][\A t \in Threads : \A v \in {arg[t].var} :
          (pc[t] = "notify" /\ pc'[t] = "notify")
             => m_cbs'[v] = m_cbs[v] /\ m_val'[v] = m_val[v]]_vars

(* The key addListener returned is the key of that listener, until it is    *)
(* deleted or cleared, among all the variables that share a counter and     *)
(* through any calls of other threads, unless two threads were once in      *)
(* addListener at the same time for two variables of the type: from then on *)
(* a key may be another listener's, or be given again.                      *)
KeysHold == \A r \in reg : type[r[1]] \notin overlapped =>
               /\ r[2] \in DOMAIN m_cbs[r[1]]
               /\ m_cbs[r[1]][r[2]] = r[3]

(* "The keys of the callbacks must be unique" (config.h:415): a callback is *)
(* never put in the place of another.  (It may be once two calls overlapped.) *)
KeysUnique ==
    [][\A v \in Vars : \A k \in DOMAIN m_cbs[v] \cap DOMAIN m_cbs'[v] :
          m_cbs'[v][k] = m_cbs[v][k]]_vars

(* A listener that has been told of a value knows the one the variable has, *)
(* except while a setValue is under way or after one that a throw cut short.*)
(* With a single thread that sets variables: two may notify in one order    *)
(* and assign in the other.                                                 *)
Setting(v) == \E t \in Threads : arg[t].var = v /\ pc[t] \in {"notify", "assign"}

ListenersInStep ==
    \A v \in Vars \ torn : ~Setting(v) =>
        \A k \in DOMAIN m_cbs[v] : heard[m_cbs[v][k]] \in {None, m_val[v]}

(* No call waits for a lock for ever. *)
EveryCallEnds == \A t \in Threads : pc[t] # "ready" ~> pc[t] = "ready"
=============================================================================
