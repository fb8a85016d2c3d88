-------------------------- MODULE ConfigInvariant --------------------------
(***************************************************************************)
(* Why the table, the lists of listeners and what the listeners were told  *)
(* agree: a thread in a call holds the lock of what it works on.  Where it *)
(* holds none others may come in between: the counter of a type is right   *)
(* as long as no two threads have been at it, and what was told is what is *)
(* assigned if a single thread sets variables.                             *)
(***************************************************************************)
EXTENDS Config

TableTypes ==
    /\ s_datas \in [Names -> Vars \cup {None}]
    /\ type \in [Vars -> Types \cup {None}]
    /\ handed \subseteq Names \X Types \X Vars
    /\ writer \in [Locks -> Threads \cup {None}]
    /\ pc \in [Threads -> Label]
    /\ arg = [t \in Threads |-> arg[t]]

(* A thread between find() and the insertion holds the table's lock, so     *)
(* what it found is still so.                                               *)
Finding(t) ==
    /\ writer[Datas] = t
    /\ arg[t].name \in Names
    /\ arg[t].type \in Types
    /\ arg[t].var = s_datas[arg[t].name]

CallsKnow ==
    \A t \in Threads : /\ pc[t] = "lookup" => Finding(t)
                       /\ pc[t] \in Adding => arg[t].var \in Vars

(* Variables in the table have been made, no two names share one, and the   *)
(* table agrees with what was handed out.                                   *)
TableAgrees ==
    /\ \A n \in Names : s_datas[n] # None => type[s_datas[n]] # None
    /\ \A n, m \in Names : s_datas[n] # None /\ s_datas[n] = s_datas[m] => n = m
    /\ \A p \in handed : s_datas[p[1]] = p[3] /\ type[p[3]] = p[2]

TableInv == TableTypes /\ CallsKnow /\ TableAgrees

Nodes == Names \X (Values \cup {Bad})

(* A lock has a writer or readers. *)
LocksInv == /\ readers \in [Locks -> SUBSET Threads]
            /\ writer \in [Locks -> Threads \cup {None}]
            /\ \A l \in Locks : writer[l] = None \/ readers[l] = {}

(* A thread that goes through the listeners is a reader of the variable,    *)
(* one that adds a listener its writer.                                     *)
Locked(t) ==
    /\ pc[t] \in {"set", "notify", "assign"} \cup Adding => arg[t].var \in Vars
    /\ pc[t] = "notify" => t \in readers[arg[t].var]
    /\ pc[t] \in Adding => writer[arg[t].var] = t
    /\ pc[t] = "load" => todo[t] # <<>>

CallTypes == /\ pc \in [Threads -> Label]
             /\ arg = [u \in Threads |-> arg[u]]

RoundInv == /\ LocksInv /\ CallTypes
            /\ todo \in [Threads -> Seq(Nodes)]
            /\ \A t \in Threads : Locked(t)

-----------------------------------------------------------------------------
(* What a call has in its arguments and locals. *)
Changing == {"set", "notify", "assign"}

InCall(t) ==
    /\ pc[t] = "lookup" => arg[t].type \in TypesOf[arg[t].name]
    /\ pc[t] \in Changing => arg[t].val \in Values
    /\ pc[t] = "set" => arg[t].at = 0
    /\ pc[t] \in Adding => type[arg[t].var] \in Types /\ arg[t].cb \in used
    /\ pc[t] \in {"insert", "inserted"} => s_fun_id[type[arg[t].var]] > 0
    /\ pc[t] \in {"load"} \cup Changing \/ todo[t] # <<>> => t \in Setters

InCalls == \A t \in Threads : InCall(t)

Lists == m_cbs = [v \in Vars |-> m_cbs[v]]

(* A variable that has been made is in the table under a name looked up     *)
(* with its type; one that has not has no listeners.                        *)
Made == \A v \in Vars :
           IF type[v] = None THEN DOMAIN m_cbs[v] = {}
           ELSE \E n \in ValidNames : s_datas[n] = v /\ type[v] \in TypesOf[n]

CallInv == TypeOK /\ Lists /\ Made /\ InCalls

-----------------------------------------------------------------------------
(* The counter behind the keys, while no two calls have overlapped.         *)

Alone == \A t, u \in Threads : \A ty \in Types \ overlapped :
            AddsTo(t, ty) /\ AddsTo(u, ty) => t = u

Keyed(t) ==
    LET v == arg[t].var  key == s_fun_id[type[v]] IN
    /\ pc[t] = "add" => arg[t].at = key
    /\ pc[t] = "insert" => key \notin DOMAIN m_cbs[v]
    /\ pc[t] = "inserted" => key \in DOMAIN m_cbs[v] /\ m_cbs[v][key] = arg[t].cb

KeysBelow == \A v \in Vars : type[v] \in Types \ overlapped =>
                \A k \in DOMAIN m_cbs[v] : k <= s_fun_id[type[v]]

KeyInv == /\ Alone /\ KeysHold /\ KeysBelow
          /\ \A t \in Threads, ty \in Types \ overlapped : AddsTo(t, ty) => Keyed(t)

-----------------------------------------------------------------------------
(* A listener is in one list at most, and in none before it is inserted. *)
Offered(t) == pc[t] \in {"add", "insert"}

PlacedOnce ==
    /\ \A v, w \in Vars : \A j \in DOMAIN m_cbs[v], k \in DOMAIN m_cbs[w] :
          m_cbs[v][j] = m_cbs[w][k] => v = w /\ j = k
    /\ \A t, u \in Threads : Offered(t) /\ Offered(u) /\ arg[t].cb = arg[u].cb => t = u

Fresh(l) == /\ heard[l] = None
            /\ \A v \in Vars : \A k \in DOMAIN m_cbs[v] : m_cbs[v][k] # l

NotYetPlaced ==
    /\ \A l \in Listeners \ used : Fresh(l)
    /\ \A t \in Threads : Offered(t) => Fresh(arg[t].cb)

PlaceInv == PlacedOnce /\ NotYetPlaced

(* If a single thread sets variables, what it has told the listeners of a   *)
(* round is what it will assign, and nobody tells them anything else.       *)
OneSetter == \A t, u \in Setters : t = u

Told(t) ==
    LET v == arg[t].var
        Knows(k) == heard[m_cbs[v][k]] \in {None, arg[t].val}
    IN  /\ pc[t] = "notify" => \A k \in DOMAIN m_cbs[v] : k <= arg[t].at => Knows(k)
        /\ pc[t] = "assign" => \A k \in DOMAIN m_cbs[v] : Knows(k)

SetInv == ListenersInStep /\ \A t \in Threads : Told(t)

IInv == /\ TableInv /\ RoundInv /\ CallInv /\ KeyInv /\ PlaceInv
        /\ OneSetter => SetInv
=============================================================================
