---------------------------- MODULE ConfigProofs ----------------------------
(* Proofs about Config, for any threads, names, types, listeners and        *)
(* documents and however the calls interleave: Lookup makes one variable of *)
(* a name, the variables have their types, and, under conditions that are   *)
(* named, keys stay with their listeners and listeners in step.             *)
EXTENDS ConfigInvariant, TLAPS, WellFoundedInduction

LEMMA TableInvSuffices == ConfigAssumption /\ TableInv => OneVariable
BY DEF ConfigAssumption, TableInv, TableTypes, TableAgrees, OneVariable

LEMMA TableInvInit == ConfigAssumption /\ Init => TableInv
BY DEF ConfigAssumption, Init, TableInv, TableTypes, CallsKnow, TableAgrees, Label,
       Adding, Locks

(* A step of t that leaves the table and its lock alone and is not in the   *)
(* middle of a Lookup.                                                      *)
LEMMA OtherStep ==
    ASSUME ConfigAssumption, TableInv, NEW t \in Threads,
           UNCHANGED tableVars,
           writer' \in [Locks -> Threads \cup {None}],
           writer'[Datas] = writer[Datas],
           pc' \in [Threads -> Label],
           arg' = [u \in Threads |-> arg'[u]],
           \A u \in Threads \ {t} : pc'[u] = pc[u] /\ arg'[u] = arg[u],
           pc'[t] # "lookup",
           pc'[t] \in Adding => arg'[t].var \in Vars
    PROVE  TableInv'
<1>1. TableTypes'
  BY DEF TableInv, TableTypes, tableVars
<1>2. CallsKnow'
  BY DEF TableInv, CallsKnow, Finding, tableVars
<1>3. TableAgrees'
  BY DEF TableInv, TableAgrees, tableVars
<1> QED
  BY <1>1, <1>2, <1>3 DEF TableInv
(* Up to find(): nobody else is between find() and the insertion.           *)
LEMMA LookupStep ==
    ASSUME ConfigAssumption, TableInv, NEW t \in Threads, Lookup(t)
    PROVE  TableInv'
<1> USE DEF Lookup, Calls, WrLock, Exclusive, Goto
<1>1. PICK n \in Names : \E ty \in TypesOf[n] :
         Calls(t, "lookup", [NoArg EXCEPT !.name = n, !.type = ty, !.var = s_datas[n]])
  OBVIOUS
<1>2. PICK ty \in TypesOf[n] :
         Calls(t, "lookup", [NoArg EXCEPT !.name = n, !.type = ty, !.var = s_datas[n]])
  BY <1>1
<1>3. ty \in Types
  BY <1>2 DEF ConfigAssumption
<1>4. /\ UNCHANGED tableVars
      /\ writer[Datas] = None
      /\ writer' = [writer EXCEPT ![Datas] = t]
      /\ pc' = [pc EXCEPT ![t] = "lookup"]
      /\ arg' = [arg EXCEPT ![t] =
                   [NoArg EXCEPT !.name = n, !.type = ty, !.var = s_datas[n]]]
  BY <1>2
<1>5. TableTypes'
  <2>1. pc' \in [Threads -> Label]
    BY <1>4 DEF TableInv, TableTypes, Label
  <2>2. writer' \in [Locks -> Threads \cup {None}]
    <3>1. writer \in [Locks -> Threads \cup {None}]
      BY DEF TableInv, TableTypes
    <3> HIDE DEF Lookup, TableInv
    <3> QED
      BY <3>1, <1>4
  <2>3. arg' = [u \in Threads |-> arg'[u]]
    BY <1>4 DEF TableInv, TableTypes
  <2> HIDE DEF Lookup
  <2> QED
    BY <1>4, <2>1, <2>2, <2>3 DEF TableInv, TableTypes, tableVars
<1>6. CallsKnow'
  <2>1. Finding(t)'
    BY <1>3, <1>4 DEF TableInv, TableTypes, Finding, NoArg, tableVars, Locks
  <2>2. \A u \in Threads \ {t} : pc'[u] = pc[u] /\ arg'[u] = arg[u] /\ pc[u] # "lookup"
    BY <1>4 DEF TableInv, TableTypes, CallsKnow, Finding, ConfigAssumption
  <2>3. pc'[t] = "lookup"
    BY <1>4 DEF TableInv, TableTypes
  <2> QED
    BY <2>1, <2>2, <2>3 DEF TableInv, CallsKnow, Adding
<1>7. TableAgrees'
  BY <1>4 DEF TableInv, TableAgrees, tableVars
<1> QED
  BY <1>5, <1>6, <1>7 DEF TableInv

(* After a Lookup nobody is between find() and the insertion.               *)
LEMMA LookupEnds ==
    ASSUME ConfigAssumption, TableInv, NEW t \in Threads, pc[t] = "lookup",
           WrUnlock(Datas), Finish(t)
    PROVE  /\ CallsKnow'
           /\ writer' \in [Locks -> Threads \cup {None}]
           /\ pc' \in [Threads -> Label]
           /\ arg' = [u \in Threads |-> arg'[u]]
<1>1. \A u \in Threads \ {t} : pc'[u] = pc[u] /\ arg'[u] = arg[u] /\ pc[u] # "lookup"
  BY DEF TableInv, TableTypes, CallsKnow, Finding, Finish, Goto
<1>2. pc'[t] \in {"load", "ready"}
  BY DEF TableInv, TableTypes, Finish, Goto
<1>3. CallsKnow'
  BY <1>1, <1>2 DEF TableInv, CallsKnow, Adding
<1> QED
  BY <1>3 DEF TableInv, TableTypes, Finish, Goto, WrUnlock, Label

LEMMA LookupFoundStep ==
    ASSUME ConfigAssumption, TableInv, NEW t \in Threads, LookupFound(t)
    PROVE  TableInv'
<1> DEFINE n == arg[t].name
           v == arg[t].var
<1>1. /\ pc[t] = "lookup" /\ v # None
      /\ WrUnlock(Datas) /\ Finish(t)
      /\ UNCHANGED <<s_datas, type>>
      /\ \/ type[v] = arg[t].type /\ handed' = handed \cup {<<n, arg[t].type, v>>}
         \/ handed' = handed
  BY DEF LookupFound
<1>2. n \in Names /\ arg[t].type \in Types /\ v = s_datas[n] /\ v \in Vars
  BY <1>1 DEF TableInv, TableTypes, CallsKnow, Finding
<1>3. TableTypes'
  BY <1>1, <1>2, LookupEnds DEF TableInv, TableTypes
<1>4. TableAgrees'
  BY <1>1, <1>2 DEF TableInv, TableAgrees
<1> QED
  BY <1>1, <1>3, <1>4, LookupEnds DEF TableInv

(* What is inserted was not there, and the variable is new.                 *)
LEMMA LookupCreateStep ==
    ASSUME ConfigAssumption, TableInv, NEW t \in Threads, LookupCreate(t)
    PROVE  TableInv'
<1> DEFINE n == arg[t].name
<1>1. pc[t] = "lookup" /\ arg[t].var = None /\ WrUnlock(Datas) /\ Finish(t)
  BY DEF LookupCreate
<1>2. n \in Names /\ arg[t].type \in Types /\ s_datas[n] = None
  BY <1>1 DEF TableInv, CallsKnow, Finding
<1>3. CASE UNCHANGED tableVars
  BY <1>1, <1>3, LookupEnds DEF TableInv, TableTypes, TableAgrees, tableVars
<1>4. ASSUME NEW v \in Vars,
             type[v] = None,
             type' = [type EXCEPT ![v] = arg[t].type],
             s_datas' = [s_datas EXCEPT ![n] = v],
             handed' = handed \cup {<<n, arg[t].type, v>>}
      PROVE  TableInv'
  <2>1. TableTypes'
    BY <1>1, <1>2, <1>4, LookupEnds DEF TableInv, TableTypes
  <2>2. \A m \in Names : s_datas[m] # v
    BY <1>4 DEF TableInv, TableAgrees, ConfigAssumption
  <2>3. arg[t].type # None
    BY <1>2 DEF ConfigAssumption
  <2>4. TableAgrees'
    <3> USE DEF TableInv, TableTypes, TableAgrees
    <3>1. \A m \in Names : s_datas'[m] # None => type'[s_datas'[m]] # None
      BY <1>2, <1>4, <2>2, <2>3
    <3>2. \A m, k \in Names :
             s_datas'[m] # None /\ s_datas'[m] = s_datas'[k] => m = k
      BY <1>2, <1>4, <2>2
    <3>3. \A p \in handed' : s_datas'[p[1]] = p[3] /\ type'[p[3]] = p[2]
      <4> SUFFICES ASSUME NEW p \in handed'
                   PROVE  s_datas'[p[1]] = p[3] /\ type'[p[3]] = p[2]
        OBVIOUS
      <4>1. CASE p = <<n, arg[t].type, v>>
        BY <1>2, <1>4, <4>1
      <4>2. CASE p \in handed
        <5>1. /\ p[1] \in Names /\ p[3] \in Vars
              /\ s_datas[p[1]] = p[3] /\ type[p[3]] = p[2]
          BY <4>2
        <5>2. p[1] # n /\ p[3] # v
          BY <1>2, <2>2, <5>1 DEF ConfigAssumption
        <5> QED
          BY <1>4, <5>1, <5>2
      <4> QED
        BY <1>4, <4>1, <4>2
    <3> QED
      BY <3>1, <3>2, <3>3
  <2> QED
    BY <1>1, <2>1, <2>4, LookupEnds DEF TableInv
<1> QED
  BY <1>3, <1>4 DEF LookupCreate, tableVars

(* What a call that begins, and one that is over, change of their thread;   *)
(* other threads are where they were.                                       *)
OthersStay(t) == \A u \in Threads \ {t} : pc'[u] = pc[u] /\ arg'[u] = arg[u]

LEMMA CallBegins ==
    ASSUME CallTypes, NEW t \in Threads, NEW label \in Label, NEW a, Calls(t, label, a)
    PROVE  CallTypes' /\ OthersStay(t) /\ pc[t] = "ready" /\ pc'[t] = label /\ arg'[t] = a
BY DEF CallTypes, OthersStay, Calls, Goto

LEMMA CallEnds ==
    ASSUME CallTypes, NEW t \in Threads, Finish(t)
    PROVE  /\ CallTypes' /\ OthersStay(t)
           /\ pc'[t] \in {"load", "ready"}
           /\ pc'[t] = "load" => todo[t] # <<>>
<1>1. (IF todo[t] # <<>> THEN "load" ELSE "ready") \in Label
  BY DEF Label
<1> QED
  BY <1>1 DEF CallTypes, OthersStay, Finish, Goto

LEMMA CallGoes ==
    ASSUME CallTypes, NEW t \in Threads, NEW label \in Label, Goto(t, label)
    PROVE  /\ pc' \in [Threads -> Label] /\ pc'[t] = label
           /\ \A u \in Threads \ {t} : pc'[u] = pc[u]
BY DEF CallTypes, Goto

LEMMA TableInvStep ==
    ASSUME ConfigAssumption, TableInv, [Next]_vars
    PROVE  TableInv'
<1> USE DEF tableVars, lockVars, cbsVars, valVars, callVars
<1>k. Known \subseteq Vars
  BY DEF Known, TableInv, TableTypes
<1>t. /\ CallTypes
      /\ writer \in [Locks -> Threads \cup {None}]
      /\ \A u \in Threads : pc[u] \in Adding => arg[u].var \in Vars
  BY DEF TableInv, TableTypes, CallsKnow, CallTypes
(* OtherStep, for a step of t that ends outside Lookup and addListener.     *)
<1>o. ASSUME NEW t \in Threads, UNCHANGED tableVars, UNCHANGED writer, CallTypes',
             OthersStay(t), pc'[t] \notin {"lookup"} \cup Adding
      PROVE  TableInv'
  BY <1>t, <1>o, OtherStep DEF CallTypes, OthersStay
<1>l. {"ready", "visit", "load", "set", "notify", "assign", "add", "insert", "inserted"}
         \subseteq Label
  BY DEF Label
<1>u. CASE UNCHANGED vars
  BY <1>u DEF vars, TableInv, TableTypes, CallsKnow, Finding, TableAgrees
<1>1. ASSUME NEW t \in Threads, Lookup(t) PROVE TableInv'
  BY <1>1, LookupStep
<1>2. ASSUME NEW t \in Threads, LookupFound(t) PROVE TableInv'
  BY <1>2, LookupFoundStep
<1>3. ASSUME NEW t \in Threads, LookupCreate(t) PROVE TableInv'
  BY <1>3, LookupCreateStep
<1>4. ASSUME NEW t \in Threads, LookupOnly(t) PROVE TableInv'
  <2>1. PICK n \in Names : \E ty \in TypesOf[n] :
           /\ s_datas[n] # None /\ type[s_datas[n]] = ty
           /\ handed' = handed \cup {<<n, ty, s_datas[n]>>}
    BY <1>4 DEF LookupOnly
  <2>2. UNCHANGED <<s_datas, type, writer, pc, arg>>
    BY <1>4 DEF LookupOnly, CallsBriefly
  <2>3. PICK ty \in Types :
           /\ s_datas[n] # None /\ type[s_datas[n]] = ty
           /\ handed' = handed \cup {<<n, ty, s_datas[n]>>}
    BY <2>1 DEF ConfigAssumption
  <2>4. TableTypes'
    BY <2>2, <2>3 DEF TableInv, TableTypes
  <2>5. CallsKnow'
    BY <2>2 DEF TableInv, CallsKnow, Finding
  <2>6. TableAgrees'
    BY <2>2, <2>3 DEF TableInv, TableAgrees
  <2> QED
    BY <2>4, <2>5, <2>6 DEF TableInv
<1>5. ASSUME NEW t \in Threads, Visit(t) PROVE TableInv'
  <2>1. PICK a : Calls(t, "visit", a)
    BY <1>5 DEF Visit
  <2> QED
    BY <1>5, <1>t, <1>o, <1>l, <2>1, CallBegins DEF Visit, RdLock, Adding
<1>6. ASSUME NEW t \in Threads, Load(t) PROVE TableInv'
  <2>1. PICK a : Calls(t, "load", a)
    BY <1>6 DEF Load
  <2> QED
    BY <1>6, <1>t, <1>o, <1>l, <2>1, CallBegins DEF Load, RdLock, Adding
<1>7. ASSUME NEW t \in Threads, Set(t) PROVE TableInv'
  <2>1. PICK a : Calls(t, "set", a)
    BY <1>7 DEF Set
  <2> QED
    BY <1>7, <1>t, <1>o, <1>l, <2>1, CallBegins DEF Set, RdLock, Adding
<1>8. ASSUME NEW t \in Threads, VisitEnd(t) PROVE TableInv'
  BY <1>8, <1>t, <1>o, CallEnds DEF VisitEnd, RdUnlock, Adding
<1>9. ASSUME NEW t \in Threads, SetSame(t) PROVE TableInv'
  BY <1>9, <1>t, <1>o, CallEnds DEF SetSame, RdUnlock, Adding
<1>10. ASSUME NEW t \in Threads, Assign(t) PROVE TableInv'
  BY <1>10, <1>t, <1>o, CallEnds DEF Assign, RdUnlock, Adding
<1>11. ASSUME NEW t \in Threads, VisitOne(t) PROVE TableInv'
  BY <1>11, <1>t, <1>o DEF VisitOne, CallTypes, OthersStay, Adding
<1>12. ASSUME NEW t \in Threads, LoadNode(t) PROVE TableInv'
  <2>1. UNCHANGED tableVars /\ UNCHANGED writer
    BY <1>12 DEF LoadNode
  <2>2. \E label \in {"set", "load", "ready"} : Goto(t, label)
    BY <1>12 DEF LoadNode
  <2>3. arg' = [u \in Threads |-> arg'[u]] /\ \A u \in Threads \ {t} : arg'[u] = arg[u]
    BY <1>12, <1>t DEF LoadNode, CallTypes
  <2>4. CallTypes' /\ OthersStay(t) /\ pc'[t] \in {"set", "load", "ready"}
    BY <1>t, <1>l, <2>2, <2>3, CallGoes DEF CallTypes, OthersStay
  <2> QED
    BY <1>o, <2>1, <2>4 DEF Adding
<1>13. ASSUME NEW t \in Threads, SetBegin(t) PROVE TableInv'
  BY <1>13, <1>t, <1>o, <1>l, CallGoes DEF SetBegin, RdLock, RdUnlock, CallTypes,
     OthersStay, Adding
<1>14. ASSUME NEW t \in Threads, NotifyEnd(t) PROVE TableInv'
  BY <1>14, <1>t, <1>o, <1>l, CallGoes DEF NotifyEnd, RdLock, RdUnlock, CallTypes,
     OthersStay, Adding
<1>15. ASSUME NEW t \in Threads, Notify(t) PROVE TableInv'
  <2>1. UNCHANGED tableVars /\ UNCHANGED writer /\ pc[t] = "notify"
    BY <1>15 DEF Notify
  <2>2. CASE Finish(t)
    BY <1>t, <1>o, <2>1, <2>2, CallEnds DEF Adding
  <2>3. CASE \E key : arg' = [arg EXCEPT ![t].at = key] /\ UNCHANGED pc
    BY <1>t, <1>o, <2>1, <2>3 DEF CallTypes, OthersStay, Adding
  <2> QED
    BY <1>15, <2>2, <2>3 DEF Notify
<1>16. ASSUME NEW t \in Threads, AddListener(t) PROVE TableInv'
  <2>1. PICK v \in Known, l \in Listeners \ used :
           /\ Calls(t, "add", [NoArg EXCEPT !.var = v, !.cb = l, !.at = s_fun_id[type[v]]])
           /\ WrLock(t, v)
    BY <1>16 DEF AddListener
  <2>2. v # Datas /\ v \in Vars
    BY <1>k DEF ConfigAssumption
  <2> DEFINE a == [NoArg EXCEPT !.var = v, !.cb = l, !.at = s_fun_id[type[v]]]
  <2>a. a.var = v
    BY DEF NoArg
  <2> HIDE DEF a
  <2>3. CallTypes' /\ OthersStay(t) /\ pc'[t] = "add" /\ arg'[t] = a
    BY <1>t, <1>l, <2>1, CallBegins DEF a
  <2>4. UNCHANGED tableVars /\ writer' = [writer EXCEPT ![v] = t]
    BY <1>16, <2>1 DEF AddListener, WrLock
  <2>5. writer' \in [Locks -> Threads \cup {None}] /\ writer'[Datas] = writer[Datas]
    BY <1>t, <2>2, <2>4 DEF Locks
  <2> QED
    BY <2>a, <2>2, <2>3, <2>4, <2>5, OtherStep DEF CallTypes, OthersStay
<1>17. ASSUME NEW t \in Threads, AddCount(t) PROVE TableInv'
  <2>1. UNCHANGED tableVars /\ UNCHANGED lockVars /\ UNCHANGED arg /\ Goto(t, "insert")
        /\ pc[t] \in Adding
    BY <1>17 DEF AddCount, Adding
  <2>2. CallTypes' /\ OthersStay(t) /\ pc'[t] = "insert" /\ arg'[t].var \in Vars
    BY <1>t, <1>l, <2>1, CallGoes DEF CallTypes, OthersStay
  <2> QED
    BY <1>t, <2>1, <2>2, OtherStep DEF CallTypes, OthersStay
<1>18. ASSUME NEW t \in Threads, AddInsert(t) PROVE TableInv'
  <2>1. UNCHANGED tableVars /\ UNCHANGED lockVars /\ UNCHANGED arg /\ Goto(t, "inserted")
        /\ pc[t] \in Adding
    BY <1>18 DEF AddInsert, Adding
  <2>2. CallTypes' /\ OthersStay(t) /\ pc'[t] = "inserted" /\ arg'[t].var \in Vars
    BY <1>t, <1>l, <2>1, CallGoes DEF CallTypes, OthersStay
  <2> QED
    BY <1>t, <2>1, <2>2, OtherStep DEF CallTypes, OthersStay
<1>19. ASSUME NEW t \in Threads, AddReturn(t) PROVE TableInv'
  <2>1. arg[t].var \in Vars /\ arg[t].var # Datas
    BY <1>19, <1>t DEF AddReturn, Adding, ConfigAssumption
  <2>2. UNCHANGED tableVars /\ writer' = [writer EXCEPT ![arg[t].var] = None] /\ Finish(t)
    BY <1>19 DEF AddReturn, WrUnlock
  <2>3. writer' \in [Locks -> Threads \cup {None}] /\ writer'[Datas] = writer[Datas]
    BY <1>t, <2>1, <2>2 DEF Locks
  <2>4. CallTypes' /\ OthersStay(t) /\ pc'[t] \in {"load", "ready"}
    BY <1>t, <2>2, CallEnds
  <2> QED
    BY <2>2, <2>3, <2>4, OtherStep DEF CallTypes, OthersStay, Adding
<1>20. ASSUME NEW t \in Threads, DelListener(t) PROVE TableInv'
  BY <1>20 DEF DelListener, CallsBriefly, TableInv, TableTypes, CallsKnow, Finding,
     TableAgrees
<1>21. ASSUME NEW t \in Threads, ClearListener(t) PROVE TableInv'
  BY <1>21 DEF ClearListener, CallsBriefly, TableInv, TableTypes, CallsKnow, Finding,
     TableAgrees
<1> QED
  BY <1>u, <1>1, <1>2, <1>3, <1>4, <1>5, <1>6, <1>7, <1>8, <1>9, <1>10, <1>11, <1>12,
     <1>13, <1>14, <1>15, <1>16, <1>17, <1>18, <1>19, <1>20, <1>21 DEF Next, Begin,
     Continue, Rest

(* However many threads look a name up, and whatever else they do with the  *)
(* configuration meanwhile, they all get one variable, of the type they     *)
(* asked for: Config::Lookup (config.h:426-457) under its lock.             *)
THEOREM OneVariableOfAName == Spec => []OneVariable
<1>1. ConfigAssumption /\ Init => TableInv
  BY TableInvInit
<1>2. ConfigAssumption /\ TableInv /\ [Next]_vars => TableInv'
  BY TableInvStep
<1>3. ConfigAssumption /\ TableInv => OneVariable
  BY TableInvSuffices
<1> QED
  BY ConfigAssumption, <1>1, <1>2, <1>3, PTL DEF Spec

-----------------------------------------------------------------------------
LEMMA RoundInvInit == ConfigAssumption /\ Init => RoundInv
BY DEF ConfigAssumption, Init, RoundInv, LocksInv, CallTypes, Locked, Label, Adding,
       Locks, Nodes

(* Other threads keep the locks they have. *)
OthersKeep(t) ==
    \A u \in Threads \ {t}, l \in Locks : /\ u \in readers[l] => u \in readers'[l]
                                          /\ writer[l] = u => writer'[l] = u

LEMMA LockMoves ==
    ASSUME None \notin Threads, LocksInv, NEW t \in Threads, NEW l \in Locks,
           \/ RdLock(t, l) /\ UNCHANGED writer
           \/ RdUnlock(t, l) /\ UNCHANGED writer
           \/ WrLock(t, l) /\ UNCHANGED readers
           \/ writer[l] = t /\ WrUnlock(l) /\ UNCHANGED readers
           \/ UNCHANGED lockVars
    PROVE  LocksInv' /\ OthersKeep(t)
BY DEF LocksInv, OthersKeep, RdLock, RdUnlock, WrLock, WrUnlock, Shared, Exclusive, lockVars

(* A step of t within or between its own calls. *)
LEMMA RoundStep ==
    ASSUME ConfigAssumption, RoundInv, NEW t \in Threads,
           LocksInv', OthersKeep(t), CallTypes', OthersStay(t),
           todo' \in [Threads -> Seq(Nodes)], \A u \in Threads \ {t} : todo'[u] = todo[u],
           Locked(t)'
    PROVE  RoundInv'
<1>1. ASSUME NEW u \in Threads \ {t} PROVE Locked(u)'
  <2>1. Locked(u) /\ pc'[u] = pc[u] /\ arg'[u] = arg[u] /\ todo'[u] = todo[u]
    BY DEF RoundInv, OthersStay
  <2>2. \A l \in Vars : /\ u \in readers[l] => u \in readers'[l]
                        /\ writer[l] = u => writer'[l] = u
    BY DEF OthersKeep, Locks
  <2> QED
    BY <2>1, <2>2 DEF Locked, Adding
<1> QED
  BY <1>1 DEF RoundInv

LEMMA RoundInvStep ==
    ASSUME ConfigAssumption, TableInv, RoundInv, [Next]_vars
    PROVE  RoundInv'
<1> USE DEF tableVars, cbsVars, valVars, callVars
<1>k. /\ Known \subseteq Vars
      /\ Datas \in Locks /\ \A v \in Vars : v \in Locks /\ v # Datas
      /\ None \notin Threads
  BY DEF Known, TableInv, TableTypes, ConfigAssumption, Locks
<1>t. LocksInv /\ CallTypes /\ todo \in [Threads -> Seq(Nodes)]
  BY DEF RoundInv
<1>l. {"ready", "lookup", "visit", "load", "set", "notify", "assign", "add", "insert",
       "inserted"} \subseteq Label
  BY DEF Label
<1>c. \A t \in Threads : Locked(t)
  BY DEF RoundInv
<1>u. CASE UNCHANGED vars
  BY <1>u DEF vars, RoundInv, LocksInv, CallTypes, Locked, lockVars
<1>1. ASSUME NEW t \in Threads, Lookup(t) PROVE RoundInv'
  <2>1. PICK a : Calls(t, "lookup", a)
    BY <1>1 DEF Lookup
  <2>2. WrLock(t, Datas) /\ UNCHANGED readers /\ UNCHANGED todo
    BY <1>1 DEF Lookup
  <2>3. CallTypes' /\ OthersStay(t) /\ pc'[t] = "lookup"
    BY <1>t, <1>l, <2>1, CallBegins
  <2>4. LocksInv' /\ OthersKeep(t)
    BY <1>t, <1>k, <2>2, LockMoves
  <2> QED
    BY <1>t, <2>2, <2>3, <2>4, RoundStep DEF Locked, Adding
<1>2. ASSUME NEW t \in Threads, LookupFound(t) PROVE RoundInv'
  <2>1. Finish(t) /\ WrUnlock(Datas) /\ UNCHANGED readers /\ UNCHANGED todo
    BY <1>2 DEF LookupFound
  <2>2. writer[Datas] = t
    BY <1>2 DEF LookupFound, TableInv, CallsKnow, Finding
  <2>3. LocksInv' /\ OthersKeep(t)
    BY <1>t, <1>k, <2>1, <2>2, LockMoves
  <2>4. /\ CallTypes' /\ OthersStay(t) /\ pc'[t] \in {"load", "ready"}
        /\ pc'[t] = "load" => todo[t] # <<>>
    BY <1>t, <2>1, CallEnds
  <2> QED
    BY <1>t, <2>1, <2>3, <2>4, RoundStep DEF Locked, Adding
<1>3. ASSUME NEW t \in Threads, LookupCreate(t) PROVE RoundInv'
  <2>1. Finish(t) /\ WrUnlock(Datas) /\ UNCHANGED readers /\ UNCHANGED todo
    BY <1>3 DEF LookupCreate
  <2>2. writer[Datas] = t
    BY <1>3 DEF LookupCreate, TableInv, CallsKnow, Finding
  <2>3. LocksInv' /\ OthersKeep(t)
    BY <1>t, <1>k, <2>1, <2>2, LockMoves
  <2>4. /\ CallTypes' /\ OthersStay(t) /\ pc'[t] \in {"load", "ready"}
        /\ pc'[t] = "load" => todo[t] # <<>>
    BY <1>t, <2>1, CallEnds
  <2> QED
    BY <1>t, <2>1, <2>3, <2>4, RoundStep DEF Locked, Adding
<1>4. ASSUME NEW t \in Threads, LookupOnly(t) PROVE RoundInv'
  BY <1>4 DEF LookupOnly, CallsBriefly, RoundInv, LocksInv, CallTypes, Locked, lockVars
<1>5. ASSUME NEW t \in Threads, DelListener(t) PROVE RoundInv'
  BY <1>5 DEF DelListener, CallsBriefly, RoundInv, LocksInv, CallTypes, Locked, lockVars
<1>6. ASSUME NEW t \in Threads, ClearListener(t) PROVE RoundInv'
  BY <1>6 DEF ClearListener, CallsBriefly, RoundInv, LocksInv, CallTypes, Locked,
     lockVars
<1>7. ASSUME NEW t \in Threads, Visit(t) PROVE RoundInv'
  <2>1. PICK a : Calls(t, "visit", a)
    BY <1>7 DEF Visit
  <2>2. RdLock(t, Datas) /\ UNCHANGED writer /\ UNCHANGED todo
    BY <1>7 DEF Visit
  <2>3. CallTypes' /\ OthersStay(t) /\ pc'[t] = "visit"
    BY <1>t, <1>l, <2>1, CallBegins
  <2>4. LocksInv' /\ OthersKeep(t)
    BY <1>t, <1>k, <2>2, LockMoves
  <2> QED
    BY <1>t, <2>2, <2>3, <2>4, RoundStep DEF Locked, Adding
<1>8. ASSUME NEW t \in Threads, VisitOne(t) PROVE RoundInv'
  <2>1. pc[t] = "visit" /\ UNCHANGED lockVars /\ UNCHANGED todo /\ UNCHANGED pc
    BY <1>8 DEF VisitOne
  <2>2. CallTypes' /\ OthersStay(t)
    BY <1>8, <1>t DEF VisitOne, CallTypes, OthersStay
  <2>3. LocksInv' /\ OthersKeep(t)
    BY <1>t, <1>k, <2>1, LockMoves
  <2> QED
    BY <1>t, <2>1, <2>2, <2>3, RoundStep DEF Locked, Adding
<1>9. ASSUME NEW t \in Threads, VisitEnd(t) PROVE RoundInv'
  <2>1. Finish(t) /\ RdUnlock(t, Datas) /\ UNCHANGED writer /\ UNCHANGED todo
    BY <1>9 DEF VisitEnd
  <2>2. LocksInv' /\ OthersKeep(t)
    BY <1>t, <1>k, <2>1, LockMoves
  <2>3. /\ CallTypes' /\ OthersStay(t) /\ pc'[t] \in {"load", "ready"}
        /\ pc'[t] = "load" => todo[t] # <<>>
    BY <1>t, <2>1, CallEnds
  <2> QED
    BY <1>t, <2>1, <2>2, <2>3, RoundStep DEF Locked, Adding
<1>10. ASSUME NEW t \in Threads, Load(t) PROVE RoundInv'
  <2>1. Calls(t, "load", NoArg) /\ UNCHANGED lockVars
    BY <1>10 DEF Load
  <2>2. PICK root \in Roots : todo' = [todo EXCEPT ![t] = root]
    BY <1>10 DEF Load
  <2>3. root \in Seq(Nodes) /\ root # <<>>
    BY DEF ConfigAssumption, Nodes
  <2>4. /\ todo' \in [Threads -> Seq(Nodes)] /\ todo'[t] # <<>>
        /\ \A u \in Threads \ {t} : todo'[u] = todo[u]
    BY <1>t, <2>2, <2>3
  <2>5. CallTypes' /\ OthersStay(t) /\ pc'[t] = "load"
    BY <1>t, <1>l, <2>1, CallBegins
  <2>6. LocksInv' /\ OthersKeep(t)
    BY <1>t, <1>k, <2>1, LockMoves
  <2> QED
    BY <1>t, <2>4, <2>5, <2>6, RoundStep DEF Locked, Adding
<1>11. ASSUME NEW t \in Threads, LoadNode(t) PROVE RoundInv'
  <2> DEFINE v == s_datas[Head(todo[t])[1]]
             rest == Tail(todo[t])
             text == Head(todo[t])[2]
  <2>1. pc[t] = "load" /\ UNCHANGED lockVars /\ todo' = [todo EXCEPT ![t] = rest]
    BY <1>11 DEF LoadNode
  <2>2. todo[t] \in Seq(Nodes) /\ todo[t] # <<>>
    BY <1>t, <1>c, <2>1 DEF Locked
  <2>3. rest \in Seq(Nodes) /\ Len(rest) = Len(todo[t]) - 1 /\ Head(todo[t])[1] \in Names
    BY <2>2 DEF Nodes
  <2>4. v \in Vars \cup {None}
    BY <2>3 DEF TableInv, TableTypes
  <2>5. /\ todo' \in [Threads -> Seq(Nodes)] /\ todo'[t] = rest
        /\ \A u \in Threads \ {t} : todo'[u] = todo[u]
    BY <1>t, <2>1, <2>3
  <2>6. LocksInv' /\ OthersKeep(t)
    BY <1>t, <1>k, <2>1, LockMoves
  <2>7. \/ /\ v # None /\ Goto(t, "set")
           /\ arg' = [arg EXCEPT ![t] = [NoArg EXCEPT !.var = v, !.val = text]]
        \/ /\ Goto(t, IF Len(todo[t]) > 1 THEN "load" ELSE "ready")
           /\ UNCHANGED arg
    BY <1>11 DEF LoadNode
  <2> HIDE DEF v, rest, text
  <2>8. CASE /\ v # None /\ Goto(t, "set")
             /\ arg' = [arg EXCEPT ![t] = [NoArg EXCEPT !.var = v, !.val = text]]
    <3>1. CallTypes' /\ OthersStay(t) /\ pc'[t] = "set"
      BY <1>t, <1>l, <2>8, CallGoes DEF CallTypes, OthersStay
    <3>2. arg'[t].var = v
      BY <1>t, <2>8 DEF CallTypes, NoArg
    <3> QED
      BY <2>4, <2>5, <2>6, <2>8, <3>1, <3>2, RoundStep DEF Locked, Adding
  <2>9. CASE Goto(t, IF Len(todo[t]) > 1 THEN "load" ELSE "ready") /\ UNCHANGED arg
    <3>1. CASE Len(todo[t]) > 1
      <4>1. Goto(t, "load") /\ rest # <<>>
        BY <2>2, <2>3, <2>9, <3>1
      <4>2. CallTypes' /\ OthersStay(t) /\ pc'[t] = "load"
        BY <1>t, <1>l, <2>9, <4>1, CallGoes DEF CallTypes, OthersStay
      <4> QED
        BY <2>5, <2>6, <4>1, <4>2, RoundStep DEF Locked, Adding
    <3>2. CASE ~(Len(todo[t]) > 1)
      <4>1. Goto(t, "ready")
        BY <2>9, <3>2
      <4>2. CallTypes' /\ OthersStay(t) /\ pc'[t] = "ready"
        BY <1>t, <1>l, <2>9, <4>1, CallGoes DEF CallTypes, OthersStay
      <4> QED
        BY <2>5, <2>6, <4>2, RoundStep DEF Locked, Adding
    <3> QED
      BY <3>1, <3>2
  <2> QED
    BY <2>7, <2>8, <2>9
<1>12. ASSUME NEW t \in Threads, Set(t) PROVE RoundInv'
  <2>1. PICK v \in Vars, x \in Values :
           Calls(t, "set", [NoArg EXCEPT !.var = v, !.val = x])
    BY <1>12, <1>k DEF Set
  <2> DEFINE a == [NoArg EXCEPT !.var = v, !.val = x]
  <2>2. a.var = v
    BY DEF NoArg
  <2> HIDE DEF a
  <2>3. CallTypes' /\ OthersStay(t) /\ pc'[t] = "set" /\ arg'[t] = a
    BY <1>t, <1>l, <2>1, CallBegins DEF a
  <2>4. UNCHANGED lockVars /\ UNCHANGED todo
    BY <1>12 DEF Set
  <2>5. LocksInv' /\ OthersKeep(t)
    BY <1>t, <1>k, <2>4, LockMoves
  <2> QED
    BY <1>t, <2>2, <2>3, <2>4, <2>5, RoundStep DEF Locked, Adding
<1>13. ASSUME NEW t \in Threads, SetSame(t) PROVE RoundInv'
  <2>1. Finish(t) /\ UNCHANGED lockVars /\ UNCHANGED todo
    BY <1>13 DEF SetSame
  <2>2. LocksInv' /\ OthersKeep(t)
    BY <1>t, <1>k, <2>1, LockMoves
  <2>3. /\ CallTypes' /\ OthersStay(t) /\ pc'[t] \in {"load", "ready"}
        /\ pc'[t] = "load" => todo[t] # <<>>
    BY <1>t, <2>1, CallEnds
  <2> QED
    BY <1>t, <2>1, <2>2, <2>3, RoundStep DEF Locked, Adding
<1>14. ASSUME NEW t \in Threads, Assign(t) PROVE RoundInv'
  <2>1. Finish(t) /\ UNCHANGED lockVars /\ UNCHANGED todo
    BY <1>14 DEF Assign
  <2>2. LocksInv' /\ OthersKeep(t)
    BY <1>t, <1>k, <2>1, LockMoves
  <2>3. /\ CallTypes' /\ OthersStay(t) /\ pc'[t] \in {"load", "ready"}
        /\ pc'[t] = "load" => todo[t] # <<>>
    BY <1>t, <2>1, CallEnds
  <2> QED
    BY <1>t, <2>1, <2>2, <2>3, RoundStep DEF Locked, Adding
<1>15. ASSUME NEW t \in Threads, SetBegin(t) PROVE RoundInv'
  <2>1. /\ pc[t] = "set" /\ RdLock(t, arg[t].var) /\ Goto(t, "notify")
        /\ UNCHANGED <<writer, arg, todo>>
    BY <1>15 DEF SetBegin
  <2>2. arg[t].var \in Vars
    BY <1>c, <2>1 DEF Locked
  <2>3. LocksInv' /\ OthersKeep(t)
    BY <1>t, <1>k, <2>1, <2>2, LockMoves
  <2>4. t \in readers'[arg[t].var]
    BY <1>t, <1>k, <2>1, <2>2 DEF RdLock, LocksInv
  <2>5. CallTypes' /\ OthersStay(t) /\ pc'[t] = "notify"
    BY <1>t, <1>l, <2>1, CallGoes DEF CallTypes, OthersStay
  <2> QED
    BY <1>t, <2>1, <2>2, <2>3, <2>4, <2>5, RoundStep DEF Locked, Adding
<1>16. ASSUME NEW t \in Threads, Notify(t) PROVE RoundInv'
  <2>1. pc[t] = "notify" /\ UNCHANGED <<writer, todo>>
    BY <1>16 DEF Notify
  <2>2. arg[t].var \in Vars /\ t \in readers[arg[t].var]
    BY <1>c, <2>1 DEF Locked
  <2>3. CASE RdUnlock(t, arg[t].var) /\ Finish(t)
    <3>1. LocksInv' /\ OthersKeep(t)
      BY <1>t, <1>k, <2>1, <2>2, <2>3, LockMoves
    <3>2. /\ CallTypes' /\ OthersStay(t) /\ pc'[t] \in {"load", "ready"}
          /\ pc'[t] = "load" => todo[t] # <<>>
      BY <1>t, <2>3, CallEnds
    <3> QED
      BY <1>t, <2>1, <3>1, <3>2, RoundStep DEF Locked, Adding
  <2>4. CASE /\ \E key : arg' = [arg EXCEPT ![t].at = key]
             /\ UNCHANGED <<readers, pc>>
    <3>1. LocksInv' /\ OthersKeep(t)
      BY <1>t, <1>k, <2>1, <2>2, <2>4, LockMoves DEF lockVars
    <3>2. PICK key : arg' = [arg EXCEPT ![t] = [arg[t] EXCEPT !.at = key]]
      BY <2>4
    <3>3. [arg[t] EXCEPT !.at = key].var = arg[t].var
      OBVIOUS
    <3>4. arg'[t].var = arg[t].var /\ CallTypes' /\ OthersStay(t)
      <4> DEFINE a == [arg[t] EXCEPT !.at = key]
      <4>1. a.var = arg[t].var
        BY <3>3
      <4>2. arg' = [arg EXCEPT ![t] = a]
        BY <3>2
      <4> HIDE DEF a
      <4>3. arg'[t] = a /\ CallTypes' /\ OthersStay(t)
        BY <1>t, <2>4, <4>2 DEF CallTypes, OthersStay
      <4> QED
        BY <4>1, <4>3
    <3> QED
      BY <1>t, <2>1, <2>2, <2>4, <3>1, <3>4, RoundStep DEF Locked, Adding
  <2> QED
    BY <1>16, <2>3, <2>4 DEF Notify
<1>17. ASSUME NEW t \in Threads, NotifyEnd(t) PROVE RoundInv'
  <2>1. /\ pc[t] = "notify" /\ RdUnlock(t, arg[t].var) /\ Goto(t, "assign")
        /\ UNCHANGED <<writer, arg, todo>>
    BY <1>17 DEF NotifyEnd
  <2>2. arg[t].var \in Vars
    BY <1>c, <2>1 DEF Locked
  <2>3. LocksInv' /\ OthersKeep(t)
    BY <1>t, <1>k, <2>1, <2>2, LockMoves
  <2>4. CallTypes' /\ OthersStay(t) /\ pc'[t] = "assign"
    BY <1>t, <1>l, <2>1, CallGoes DEF CallTypes, OthersStay
  <2> QED
    BY <1>t, <2>1, <2>2, <2>3, <2>4, RoundStep DEF Locked, Adding
<1>18. ASSUME NEW t \in Threads, AddListener(t) PROVE RoundInv'
  <2>1. PICK v \in Vars, l \in Listeners \ used :
           /\ Calls(t, "add", [NoArg EXCEPT !.var = v, !.cb = l, !.at = s_fun_id[type[v]]])
           /\ WrLock(t, v)
    BY <1>18, <1>k DEF AddListener
  <2> DEFINE a == [NoArg EXCEPT !.var = v, !.cb = l, !.at = s_fun_id[type[v]]]
  <2>2. a.var = v
    BY DEF NoArg
  <2> HIDE DEF a
  <2>3. CallTypes' /\ OthersStay(t) /\ pc'[t] = "add" /\ arg'[t] = a
    BY <1>t, <1>l, <2>1, CallBegins DEF a
  <2>4. UNCHANGED readers /\ UNCHANGED todo
    BY <1>18 DEF AddListener
  <2>5. LocksInv' /\ OthersKeep(t)
    BY <1>t, <1>k, <2>1, <2>4, LockMoves
  <2>6. writer'[v] = t
    BY <1>t, <1>k, <2>1 DEF WrLock, LocksInv
  <2> QED
    BY <1>t, <2>2, <2>3, <2>4, <2>5, <2>6, RoundStep DEF Locked, Adding
<1>19. ASSUME NEW t \in Threads, AddCount(t) PROVE RoundInv'
  <2>1. /\ pc[t] \in Adding /\ Goto(t, "insert")
        /\ UNCHANGED lockVars /\ UNCHANGED <<arg, todo>>
    BY <1>19 DEF AddCount, Adding
  <2>2. arg[t].var \in Vars /\ writer[arg[t].var] = t
    BY <1>c, <2>1 DEF Locked
  <2>3. LocksInv' /\ OthersKeep(t)
    BY <1>t, <1>k, <2>1, LockMoves
  <2>4. CallTypes' /\ OthersStay(t) /\ pc'[t] = "insert"
    BY <1>t, <1>l, <2>1, CallGoes DEF CallTypes, OthersStay
  <2> QED
    BY <1>t, <2>1, <2>2, <2>3, <2>4, RoundStep DEF Locked, Adding, lockVars
<1>20. ASSUME NEW t \in Threads, AddInsert(t) PROVE RoundInv'
  <2>1. /\ pc[t] \in Adding /\ Goto(t, "inserted")
        /\ UNCHANGED lockVars /\ UNCHANGED <<arg, todo>>
    BY <1>20 DEF AddInsert, Adding
  <2>2. arg[t].var \in Vars /\ writer[arg[t].var] = t
    BY <1>c, <2>1 DEF Locked
  <2>3. LocksInv' /\ OthersKeep(t)
    BY <1>t, <1>k, <2>1, LockMoves
  <2>4. CallTypes' /\ OthersStay(t) /\ pc'[t] = "inserted"
    BY <1>t, <1>l, <2>1, CallGoes DEF CallTypes, OthersStay
  <2> QED
    BY <1>t, <2>1, <2>2, <2>3, <2>4, RoundStep DEF Locked, Adding, lockVars
<1>21. ASSUME NEW t \in Threads, AddReturn(t) PROVE RoundInv'
  <2>1. /\ pc[t] \in Adding /\ WrUnlock(arg[t].var) /\ Finish(t)
        /\ UNCHANGED readers /\ UNCHANGED todo
    BY <1>21 DEF AddReturn, Adding
  <2>2. arg[t].var \in Vars /\ writer[arg[t].var] = t
    BY <1>c, <2>1 DEF Locked
  <2>3. LocksInv' /\ OthersKeep(t)
    BY <1>t, <1>k, <2>1, <2>2, LockMoves
  <2>4. /\ CallTypes' /\ OthersStay(t) /\ pc'[t] \in {"load", "ready"}
        /\ pc'[t] = "load" => todo[t] # <<>>
    BY <1>t, <2>1, CallEnds
  <2> QED
    BY <1>t, <2>1, <2>3, <2>4, RoundStep DEF Locked, Adding
<1> QED
  BY <1>u, <1>1, <1>2, <1>3, <1>4, <1>5, <1>6, <1>7, <1>8, <1>9, <1>10, <1>11, <1>12,
     <1>13, <1>14, <1>15, <1>16, <1>17, <1>18, <1>19, <1>20, <1>21 DEF Next, Begin,
     Continue, Rest

(* What a step changes of a variable, it changes with nobody reading. *)
LEMMA ChangesAlone ==
    ASSUME ConfigAssumption, RoundInv, [Next]_vars, NEW v \in Vars, readers[v] # {}
    PROVE  m_cbs'[v] = m_cbs[v] /\ m_val'[v] = m_val[v]
<1> USE DEF cbsVars, valVars
<1>1. CASE UNCHANGED <<m_cbs, m_val>>
  BY <1>1
<1>2. ASSUME NEW t \in Threads, Assign(t)
      PROVE  m_cbs'[v] = m_cbs[v] /\ m_val'[v] = m_val[v]
  <2>1. arg[t].var # v
    BY <1>2 DEF Assign, Exclusive
  <2> QED
    BY <1>2, <2>1 DEF Assign, Store
<1>3. ASSUME NEW t \in Threads, AddInsert(t)
      PROVE  m_cbs'[v] = m_cbs[v] /\ m_val'[v] = m_val[v]
  <2>1. writer[v] = None
    BY DEF RoundInv, LocksInv, Locks
  <2>2. writer[arg[t].var] = t /\ t # None
    BY <1>3 DEF AddInsert, RoundInv, Locked, Adding, ConfigAssumption
  <2>3. arg[t].var # v
    BY <2>1, <2>2
  <2> QED
    BY <1>3, <2>3 DEF AddInsert
<1>4. ASSUME NEW t \in Threads, DelListener(t)
      PROVE  m_cbs'[v] = m_cbs[v] /\ m_val'[v] = m_val[v]
  BY <1>4 DEF DelListener, Exclusive, Erase
<1>5. ASSUME NEW t \in Threads, ClearListener(t)
      PROVE  m_cbs'[v] = m_cbs[v] /\ m_val'[v] = m_val[v]
  BY <1>5 DEF ClearListener, Exclusive
<1>6. ASSUME NEW t \in Threads, Begin(t) \/ Continue(t), ~Assign(t), ~AddInsert(t),
             ~DelListener(t), ~ClearListener(t)
      PROVE  UNCHANGED <<m_cbs, m_val>>
  BY <1>6 DEF Begin, Continue, Lookup, LookupOnly, Visit, Load, Set, AddListener,
     LookupFound, LookupCreate, VisitOne, VisitEnd, LoadNode, SetSame, SetBegin, Notify,
     NotifyEnd, AddCount, AddReturn
<1>7. CASE UNCHANGED vars \/ Rest
  BY <1>7 DEF vars, Rest
<1> QED
  BY <1>1, <1>2, <1>3, <1>4, <1>5, <1>6, <1>7 DEF Next

(* Whatever the other threads do, setValue tells all its listeners from one *)
(* list and with one old value (config.h:371-380).                          *)
THEOREM RoundsAreStable == Spec => RoundIsStable
<1>1. ConfigAssumption /\ Init => TableInv /\ RoundInv
  BY TableInvInit, RoundInvInit
<1>2. ConfigAssumption /\ TableInv /\ RoundInv /\ [Next]_vars => TableInv' /\ RoundInv'
  BY TableInvStep, RoundInvStep
<1>3. ASSUME ConfigAssumption, RoundInv, [Next]_vars
      PROVE  [\A t \in Threads : \A v \in {arg[t].var} :
                 (pc[t] = "notify" /\ pc'[t] = "notify")
                    => m_cbs'[v] = m_cbs[v] /\ m_val'[v] = m_val[v]]_vars
  BY <1>3, ChangesAlone DEF RoundInv, Locked
<1> QED
  BY ConfigAssumption, <1>1, <1>2, <1>3, PTL DEF Spec, RoundIsStable

-----------------------------------------------------------------------------
(* Types and arguments of calls *)

(* Min of FiniteSetsExt, which is defined by CHOOSE. *)
LEMMA MinIn ==
    ASSUME NEW S \in SUBSET Nat, S # {}
    PROVE  Min(S) \in S /\ \A y \in S : Min(S) <= y
<1> DEFINE R == {p \in Nat \X Nat : p[1] < p[2]}
<1>1. IsWellFoundedOn(R, Nat)
  BY NatLessThanWellFounded DEF OpToRel
<1>2. \A x, y \in Nat : <<y, x>> \in R <=> y < x
  OBVIOUS
<1> HIDE DEF R
<1>3. \E x \in S : \A y \in S : <<y, x>> \notin R
  BY <1>1, WFMin
<1>4. PICK x \in S : \A y \in S : <<y, x>> \notin R
  BY <1>3
<1>5. \A y \in S : x <= y
  <2> SUFFICES ASSUME NEW y \in S PROVE x <= y
    OBVIOUS
  <2>1. x \in Nat /\ y \in Nat /\ ~(y < x)
    BY <1>2, <1>4
  <2> QED
    BY <2>1
<1> QED
  BY <1>5 DEF Min

(* Who a step moves, and where to. *)
LEMMA Moves ==
    ASSUME ConfigAssumption, RoundInv, NEW t \in Threads, Begin(t) \/ Continue(t)
    PROVE  /\ OthersStay(t)
           /\ \A u \in Threads \ {t} : todo'[u] = todo[u]
           /\ pc'[t] = "lookup" => Lookup(t)
           /\ pc'[t] = "set" => Set(t) \/ LoadNode(t)
           /\ pc'[t] = "notify" => SetBegin(t) \/ (Notify(t) /\ pc[t] = pc'[t])
           /\ pc'[t] = "assign" => NotifyEnd(t)
           /\ pc'[t] = "add" => AddListener(t)
           /\ pc'[t] = "insert" => AddCount(t)
           /\ pc'[t] = "inserted" => AddInsert(t)
           /\ pc'[t] = "load" \/ todo'[t] # <<>> =>
                 Load(t) \/ pc[t] = "load" \/ todo[t] # <<>>
<1>t. CallTypes /\ todo \in [Threads -> Seq(Nodes)]
  BY DEF RoundInv
<1>l. {"ready", "lookup", "visit", "load", "set", "notify", "assign", "add", "insert",
       "inserted"} \subseteq Label
  BY DEF Label
<1>1. CASE Lookup(t)
  <2>1. PICK a : Calls(t, "lookup", a)
    BY <1>1 DEF Lookup
  <2> QED
    BY <1>t, <1>l, <1>1, <2>1, CallBegins DEF Lookup
<1>2. CASE LookupOnly(t) \/ DelListener(t) \/ ClearListener(t)
  BY <1>t, <1>2 DEF LookupOnly, DelListener, ClearListener, CallsBriefly, OthersStay
<1>3. CASE Visit(t)
  <2>1. PICK a : Calls(t, "visit", a)
    BY <1>3 DEF Visit
  <2> QED
    BY <1>t, <1>l, <1>3, <2>1, CallBegins DEF Visit
<1>4. CASE Load(t)
  <2>1. Calls(t, "load", NoArg)
    BY <1>4 DEF Load
  <2>2. OthersStay(t) /\ pc'[t] = "load"
    BY <1>t, <1>l, <2>1, CallBegins
  <2>3. \A u \in Threads \ {t} : todo'[u] = todo[u]
    BY <1>t, <1>4 DEF Load
  <2> QED
    BY <1>4, <2>2, <2>3
<1>5. CASE Set(t)
  <2>1. PICK a : Calls(t, "set", a)
    BY <1>5 DEF Set
  <2> QED
    BY <1>t, <1>l, <1>5, <2>1, CallBegins DEF Set
<1>6. CASE AddListener(t)
  <2>1. PICK a : Calls(t, "add", a)
    BY <1>6 DEF AddListener
  <2>2. UNCHANGED todo
    BY <1>6 DEF AddListener
  <2> QED
    BY <1>t, <1>l, <1>6, <2>1, <2>2, CallBegins
<1>7. CASE LookupFound(t) \/ LookupCreate(t) \/ VisitEnd(t) \/ SetSame(t) \/ Assign(t) \/ AddReturn(t)
  <2>1. Finish(t) /\ UNCHANGED todo
    BY <1>7 DEF LookupFound, LookupCreate, VisitEnd, SetSame, Assign, AddReturn
  <2> QED
    BY <1>t, <2>1, CallEnds
<1>8. CASE VisitOne(t)
  BY <1>t, <1>8 DEF VisitOne, CallTypes, OthersStay
<1>9. CASE LoadNode(t)
  <2>1. \E label \in {"set", "load", "ready"} : Goto(t, label)
    BY <1>9 DEF LoadNode
  <2>2. pc'[t] \in {"set", "load", "ready"} /\ OthersStay(t)
    BY <1>t, <1>l, <1>9, <2>1 DEF LoadNode, OthersStay, CallTypes, Goto
  <2>3. pc[t] = "load" /\ \A u \in Threads \ {t} : todo'[u] = todo[u]
    BY <1>t, <1>9 DEF LoadNode
  <2> QED
    BY <1>9, <2>2, <2>3
<1>10. CASE SetBegin(t)
  BY <1>t, <1>l, <1>10, CallGoes DEF SetBegin, OthersStay
<1>11. CASE NotifyEnd(t)
  BY <1>t, <1>l, <1>11, CallGoes DEF NotifyEnd, OthersStay
<1>12. CASE AddCount(t)
  BY <1>t, <1>l, <1>12, CallGoes DEF AddCount, OthersStay
<1>13. CASE AddInsert(t)
  BY <1>t, <1>l, <1>13, CallGoes DEF AddInsert, OthersStay
<1>14. CASE Notify(t)
  <2>1. pc[t] = "notify" /\ UNCHANGED todo
    BY <1>14 DEF Notify
  <2>2. CASE Finish(t)
    BY <1>t, <2>1, <2>2, CallEnds
  <2>3. CASE \E key : arg' = [arg EXCEPT ![t].at = key] /\ UNCHANGED pc
    BY <1>t, <1>14, <2>1, <2>3 DEF CallTypes, OthersStay
  <2> QED
    BY <1>14, <2>2, <2>3 DEF Notify
<1> QED
  BY <1>1, <1>2, <1>3, <1>4, <1>5, <1>6, <1>7, <1>8, <1>9, <1>10, <1>11, <1>12, <1>13,
     <1>14 DEF Begin, Continue

(* The actions that change the table, the lists of listeners, the values.   *)
LEMMA TableSteps ==
    ASSUME NEW t \in Threads, Begin(t) \/ Continue(t)
    PROVE  UNCHANGED <<s_datas, type>> \/ LookupCreate(t)
BY DEF Begin, Continue, tableVars, Lookup, LookupOnly, Visit, Load, Set, AddListener,
   DelListener, ClearListener, LookupFound, VisitOne, VisitEnd, LoadNode, SetSame,
   SetBegin, Notify, NotifyEnd, Assign, AddCount, AddInsert, AddReturn

LEMMA ListSteps ==
    ASSUME NEW t \in Threads, Begin(t) \/ Continue(t)
    PROVE  \/ UNCHANGED cbsVars
           \/ AddListener(t) \/ AddCount(t) \/ AddInsert(t) \/ AddReturn(t)
           \/ DelListener(t) \/ ClearListener(t)
BY DEF Begin, Continue, Lookup, LookupOnly, Visit, Load, Set, LookupFound, LookupCreate,
   VisitOne, VisitEnd, LoadNode, SetSame, SetBegin, Notify, NotifyEnd, Assign

LEMMA ValueSteps ==
    ASSUME NEW t \in Threads, Begin(t) \/ Continue(t)
    PROVE  UNCHANGED valVars \/ Notify(t) \/ Assign(t)
BY DEF Begin, Continue, Lookup, LookupOnly, Visit, Load, Set, AddListener, DelListener,
   ClearListener, LookupFound, LookupCreate, VisitOne, VisitEnd, LoadNode, SetSame,
   SetBegin, NotifyEnd, AddCount, AddInsert, AddReturn

-----------------------------------------------------------------------------
(* CallInv *)

LEMMA CallInvInit == ConfigAssumption /\ Init => CallInv
<1> SUFFICES ASSUME ConfigAssumption, Init PROVE CallInv
  OBVIOUS
<1>1. NoArg \in Arg
  BY DEF NoArg, Arg
<1>2. TypeOK
  BY <1>1 DEF ConfigAssumption, Init, TypeOK, Locks, Label
<1>3. Lists /\ Made
  BY DEF Init, Lists, Made
<1>4. InCalls
  BY DEF Init, InCalls, InCall, Changing, Adding
<1> QED
  BY <1>2, <1>3, <1>4 DEF CallInv

(* What Known gives: variables that have been made. *)
LEMMA KnownMade ==
    ASSUME ConfigAssumption, TableInv, NEW v \in Known
    PROVE  v \in Vars /\ type[v] \in Types
BY DEF Known, TableInv, TableTypes, TableAgrees

LEMMA AddListenerDoes ==
    ASSUME ConfigAssumption, TableInv, RoundInv, NEW t \in Threads, AddListener(t)
    PROVE  \E v \in Vars, l \in Listeners \ used :
              /\ type[v] \in Types /\ writer[v] = None /\ readers[v] = {}
              /\ pc[t] = "ready" /\ pc'[t] = "add"
              /\ arg'[t].var = v /\ arg'[t].cb = l /\ arg'[t].at = s_fun_id[type[v]]
              /\ used' = used \cup {l}
              /\ overlapped' = overlapped \cup {ty \in {type[v]} : \E u \in Threads : AddsTo(u, ty)}
              /\ UNCHANGED <<s_datas, type, handed, m_cbs, s_fun_id, reg, valVars, todo>>
<1>1. PICK v \in Known, l \in Listeners \ used :
         /\ Calls(t, "add", [NoArg EXCEPT !.var = v, !.cb = l, !.at = s_fun_id[type[v]]])
         /\ WrLock(t, v)
         /\ used' = used \cup {l}
         /\ overlapped' = overlapped \cup {ty \in {type[v]} : \E u \in Threads : AddsTo(u, ty)}
  BY DEF AddListener
<1> DEFINE a == [NoArg EXCEPT !.var = v, !.cb = l, !.at = s_fun_id[type[v]]]
<1>2. a.var = v /\ a.cb = l /\ a.at = s_fun_id[type[v]]
  BY DEF NoArg
<1>3. Calls(t, "add", a)
  BY <1>1
<1> HIDE DEF a
<1>4. pc[t] = "ready" /\ pc'[t] = "add" /\ arg'[t] = a
  BY <1>3, CallBegins DEF RoundInv, Label
<1>5. writer[v] = None /\ readers[v] = {}
  BY <1>1 DEF WrLock, Exclusive
<1>6. UNCHANGED <<s_datas, type, handed, m_cbs, s_fun_id, reg, valVars, todo>>
  BY DEF AddListener, tableVars
<1> QED
  BY <1>1, <1>2, <1>4, <1>5, <1>6, KnownMade

(* What a round of setValue is about to do. *)
LEMMA NotifyDoes ==
    ASSUME ConfigAssumption, RoundInv, CallInv, NEW t \in Threads, Notify(t)
    PROVE  \E k \in DOMAIN m_cbs[arg[t].var] :
              /\ k > arg[t].at
              /\ \A j \in DOMAIN m_cbs[arg[t].var] : j <= k => j <= arg[t].at \/ j = k
              /\ heard' = [heard EXCEPT ![m_cbs[arg[t].var][k]] = arg[t].val]
              /\ \/ /\ arg' = [arg EXCEPT ![t] = [arg[t] EXCEPT !.at = k]]
                    /\ UNCHANGED <<torn, readers, pc>>
                 \/ /\ torn' = torn \cup {arg[t].var}
                    /\ RdUnlock(t, arg[t].var)
                    /\ Finish(t)
<1> DEFINE v == arg[t].var
           S == Ahead(v, arg[t].at)
<1>1. v \in Vars
  BY DEF Notify, RoundInv, Locked
<1>2. DOMAIN m_cbs[v] \subseteq Nat /\ arg[t].at \in Nat
  BY <1>1 DEF CallInv, TypeOK, Arg
<1>3. S \subseteq Nat /\ S # {} /\ S = {k \in DOMAIN m_cbs[v] : k > arg[t].at}
  BY <1>2 DEF Notify, Ahead
<1>4. Min(S) \in S /\ \A j \in S : Min(S) <= j
  BY <1>3, MinIn
<1>5. PICK k : k = Min(S)
  OBVIOUS
<1>6. /\ heard' = [heard EXCEPT ![m_cbs[v][k]] = arg[t].val]
      /\ \/ /\ arg' = [arg EXCEPT ![t].at = k]
            /\ UNCHANGED <<torn, readers, pc>>
         \/ /\ torn' = torn \cup {v}
            /\ RdUnlock(t, v)
            /\ Finish(t)
  BY <1>5 DEF Notify
<1> HIDE DEF S
<1>7. k \in DOMAIN m_cbs[v] /\ k > arg[t].at
  BY <1>3, <1>4, <1>5
<1>8. \A j \in DOMAIN m_cbs[v] : j <= k => j <= arg[t].at \/ j = k
  <2> SUFFICES ASSUME NEW j \in DOMAIN m_cbs[v], j <= k, ~(j <= arg[t].at)
               PROVE  j = k
    OBVIOUS
  <2>1. j \in S
    BY <1>2, <1>3
  <2>2. k <= j /\ k \in Nat /\ j \in Nat
    BY <1>2, <1>4, <1>5, <1>7, <2>1
  <2> QED
    BY <2>2
<1> QED
  BY <1>6, <1>7, <1>8

(* The types of the lists and the values. *)
ListTypes ==
    /\ Lists
    /\ \A v \in Vars : /\ DOMAIN m_cbs[v] \subseteq Nat \ {0}
                      /\ \A k \in DOMAIN m_cbs[v] : m_cbs[v][k] \in Listeners
    /\ s_fun_id \in [Types -> Nat]
    /\ reg \subseteq Vars \X Nat \X Listeners
    /\ used \subseteq Listeners
    /\ overlapped \subseteq Types

LEMMA ListTypesStep ==
    ASSUME ConfigAssumption, TableInv, RoundInv, CallInv, [Next]_vars
    PROVE  ListTypes'
<1>t. ListTypes
  BY DEF CallInv, TypeOK, ListTypes
<1>u. CASE UNCHANGED cbsVars
  BY <1>t, <1>u DEF ListTypes, Lists, cbsVars
<1>1. ASSUME NEW t \in Threads, AddListener(t) PROVE ListTypes'
  <2>1. PICK v \in Vars, l \in Listeners \ used :
           /\ type[v] \in Types /\ used' = used \cup {l}
           /\ overlapped' = overlapped \cup {ty \in {type[v]} : \E u \in Threads : AddsTo(u, ty)}
           /\ UNCHANGED <<m_cbs, s_fun_id, reg>>
    BY <1>1, AddListenerDoes
  <2> QED
    BY <1>t, <2>1 DEF ListTypes, Lists
<1>2. ASSUME NEW t \in Threads, AddCount(t) PROVE ListTypes'
  <2>1. type[arg[t].var] \in Types /\ arg[t].at \in Nat
    BY <1>2 DEF AddCount, CallInv, InCalls, InCall, Adding, TypeOK, Arg
  <2> QED
    BY <1>t, <1>2, <2>1 DEF AddCount, CountUp, ListTypes, Lists
<1>3. ASSUME NEW t \in Threads, AddInsert(t) PROVE ListTypes'
  <2>1. /\ arg[t].var \in Vars /\ type[arg[t].var] \in Types
        /\ arg[t].cb \in Listeners /\ s_fun_id[type[arg[t].var]] > 0
    BY <1>3 DEF AddInsert, CallInv, InCalls, InCall, Adding, RoundInv, Locked, TypeOK
  <2> DEFINE v == arg[t].var
             key == s_fun_id[type[v]]
             new == [k \in DOMAIN m_cbs[v] \cup {key} |->
                       IF k = key THEN arg[t].cb ELSE m_cbs[v][k]]
  <2>2. m_cbs' = [m_cbs EXCEPT ![v] = new] /\ UNCHANGED <<s_fun_id, reg, used, overlapped>>
    BY <1>3 DEF AddInsert
  <2>3. key \in Nat \ {0}
    BY <1>t, <2>1 DEF ListTypes
  <2>4. DOMAIN new \subseteq Nat \ {0} /\ \A k \in DOMAIN new : new[k] \in Listeners
    BY <1>t, <2>1, <2>3 DEF ListTypes
  <2> HIDE DEF new, key
  <2> QED
    BY <1>t, <2>1, <2>2, <2>4 DEF ListTypes, Lists
<1>4. ASSUME NEW t \in Threads, AddReturn(t) PROVE ListTypes'
  <2>1. /\ arg[t].var \in Vars /\ type[arg[t].var] \in Types
        /\ arg[t].cb \in Listeners
    BY <1>4 DEF AddReturn, CallInv, InCalls, InCall, Adding, RoundInv, Locked, TypeOK
  <2> QED
    BY <1>t, <1>4, <2>1 DEF AddReturn, ListTypes, Lists
<1>5. ASSUME NEW t \in Threads, DelListener(t) PROVE ListTypes'
  <2>1. PICK r \in reg : Erase(r[1], r[2]) /\ reg' = reg \ {r}
    BY <1>5 DEF DelListener
  <2>2. r[1] \in Vars /\ UNCHANGED <<s_fun_id, used, overlapped>>
    BY <1>t, <1>5 DEF DelListener, ListTypes
  <2> DEFINE new == [k \in DOMAIN m_cbs[r[1]] \ {r[2]} |-> m_cbs[r[1]][k]]
  <2>3. m_cbs' = [m_cbs EXCEPT ![r[1]] = new]
    BY <2>1 DEF Erase
  <2>4. DOMAIN new \subseteq Nat \ {0} /\ \A k \in DOMAIN new : new[k] \in Listeners
    BY <1>t, <2>2 DEF ListTypes
  <2> HIDE DEF new
  <2> QED
    BY <1>t, <2>1, <2>2, <2>3, <2>4 DEF ListTypes, Lists
<1>6. ASSUME NEW t \in Threads, ClearListener(t) PROVE ListTypes'
  <2>1. PICK v \in Known : m_cbs' = [m_cbs EXCEPT ![v] = <<>>]
                           /\ reg' = {r \in reg : r[1] # v}
    BY <1>6 DEF ClearListener
  <2>2. v \in Vars /\ UNCHANGED <<s_fun_id, used, overlapped>>
    BY <1>6, KnownMade DEF ClearListener
  <2> QED
    BY <1>t, <2>1, <2>2 DEF ListTypes, Lists
<1> QED
  BY <1>u, <1>1, <1>2, <1>3, <1>4, <1>5, <1>6, ListSteps DEF Next, Rest, vars

ValueTypes ==
    /\ m_val \in [Vars -> Values]
    /\ heard \in [Listeners -> Values \cup {None}]
    /\ torn \subseteq Vars

LEMMA ValueTypesStep ==
    ASSUME ConfigAssumption, TableInv, RoundInv, CallInv, [Next]_vars
    PROVE  ValueTypes'
<1>t. ValueTypes
  BY DEF CallInv, TypeOK, ValueTypes
<1>u. CASE UNCHANGED valVars
  BY <1>t, <1>u DEF ValueTypes, valVars
<1>1. ASSUME NEW t \in Threads, Notify(t) PROVE ValueTypes'
  <2>1. arg[t].var \in Vars /\ arg[t].val \in Values /\ UNCHANGED m_val
    BY <1>1 DEF Notify, RoundInv, Locked, CallInv, InCalls, InCall, Changing
  <2>2. PICK k \in DOMAIN m_cbs[arg[t].var] :
           /\ heard' = [heard EXCEPT ![m_cbs[arg[t].var][k]] = arg[t].val]
           /\ torn' \in {torn, torn \cup {arg[t].var}}
    BY <1>1, NotifyDoes
  <2>3. m_cbs[arg[t].var][k] \in Listeners
    BY <2>1 DEF CallInv, TypeOK
  <2> QED
    BY <1>t, <2>1, <2>2, <2>3 DEF ValueTypes
<1>2. ASSUME NEW t \in Threads, Assign(t) PROVE ValueTypes'
  BY <1>t, <1>2 DEF Assign, Store, ValueTypes, RoundInv, Locked, CallInv, InCalls, InCall,
     Changing
<1> QED
  BY <1>u, <1>1, <1>2, ValueSteps DEF Next, Rest, vars

LEMMA ArgTypesStep ==
    ASSUME ConfigAssumption, TableInv, RoundInv, CallInv, [Next]_vars
    PROVE  arg' \in [Threads -> Arg] /\ calls' \in 0 .. MaxCalls
<1>t. arg \in [Threads -> Arg] /\ calls \in 0 .. MaxCalls /\ MaxCalls \in Nat
  BY DEF CallInv, TypeOK, ConfigAssumption
<1>n. NoArg \in Arg
  BY DEF NoArg, Arg
<1>u. CASE UNCHANGED <<arg, calls>>
  BY <1>t, <1>u
(* The step sets the arguments of t. *)
<1>o. ASSUME NEW t \in Threads, NEW a \in Arg, arg' = [arg EXCEPT ![t] = a],
             calls' \in {calls, calls + 1}, calls' = calls \/ calls < MaxCalls
      PROVE  arg' \in [Threads -> Arg] /\ calls' \in 0 .. MaxCalls
  BY <1>t, <1>o
<1>1. ASSUME NEW t \in Threads, Lookup(t)
      PROVE  arg' \in [Threads -> Arg] /\ calls' \in 0 .. MaxCalls
  <2>1. PICK n \in Names : \E ty \in TypesOf[n] :
           Calls(t, "lookup", [NoArg EXCEPT !.name = n, !.type = ty, !.var = s_datas[n]])
    BY <1>1 DEF Lookup
  <2>2. PICK ty \in TypesOf[n] :
           Calls(t, "lookup", [NoArg EXCEPT !.name = n, !.type = ty, !.var = s_datas[n]])
    BY <2>1
  <2>3. ty \in Types /\ s_datas[n] \in Vars \cup {None}
    BY DEF ConfigAssumption, TableInv, TableTypes
  <2>4. [NoArg EXCEPT !.name = n, !.type = ty, !.var = s_datas[n]] \in Arg
    BY <2>3 DEF NoArg, Arg
  <2> QED
    BY <1>o, <2>2, <2>4 DEF Calls
<1>2. ASSUME NEW t \in Threads, LookupOnly(t) \/ DelListener(t) \/ ClearListener(t)
      PROVE  arg' \in [Threads -> Arg] /\ calls' \in 0 .. MaxCalls
  BY <1>t, <1>2 DEF LookupOnly, DelListener, ClearListener, CallsBriefly
<1>3. ASSUME NEW t \in Threads, Visit(t)
      PROVE  arg' \in [Threads -> Arg] /\ calls' \in 0 .. MaxCalls
  <2>1. Calls(t, "visit", [NoArg EXCEPT !.left = {s_datas[n] : n \in Names} \ {None}])
    BY <1>3 DEF Visit
  <2>2. {s_datas[n] : n \in Names} \ {None} \subseteq Vars
    BY DEF TableInv, TableTypes
  <2>3. [NoArg EXCEPT !.left = {s_datas[n] : n \in Names} \ {None}] \in Arg
    BY <2>2 DEF NoArg, Arg
  <2> QED
    BY <1>o, <2>1, <2>3 DEF Calls
<1>4. ASSUME NEW t \in Threads, Load(t)
      PROVE  arg' \in [Threads -> Arg] /\ calls' \in 0 .. MaxCalls
  BY <1>n, <1>o, <1>4 DEF Load, Calls
<1>5. ASSUME NEW t \in Threads, Set(t)
      PROVE  arg' \in [Threads -> Arg] /\ calls' \in 0 .. MaxCalls
  <2>1. PICK v \in Known, x \in Values :
           Calls(t, "set", [NoArg EXCEPT !.var = v, !.val = x])
    BY <1>5 DEF Set
  <2>2. [NoArg EXCEPT !.var = v, !.val = x] \in Arg
    BY KnownMade DEF NoArg, Arg
  <2> QED
    BY <1>o, <2>1, <2>2 DEF Calls
<1>6. ASSUME NEW t \in Threads, AddListener(t)
      PROVE  arg' \in [Threads -> Arg] /\ calls' \in 0 .. MaxCalls
  <2>1. PICK v \in Known, l \in Listeners \ used :
           Calls(t, "add", [NoArg EXCEPT !.var = v, !.cb = l, !.at = s_fun_id[type[v]]])
    BY <1>6 DEF AddListener
  <2>2. v \in Vars /\ s_fun_id[type[v]] \in Nat
    BY KnownMade DEF CallInv, TypeOK
  <2>3. [NoArg EXCEPT !.var = v, !.cb = l, !.at = s_fun_id[type[v]]] \in Arg
    BY <2>2 DEF NoArg, Arg
  <2> QED
    BY <1>o, <2>1, <2>3 DEF Calls
<1>7. ASSUME NEW t \in Threads,
             LookupFound(t) \/ LookupCreate(t) \/ VisitEnd(t) \/ SetSame(t) \/ Assign(t)
                \/ AddReturn(t)
      PROVE  arg' \in [Threads -> Arg] /\ calls' \in 0 .. MaxCalls
  <2>1. arg' = [arg EXCEPT ![t] = NoArg] /\ UNCHANGED calls
    BY <1>7 DEF Finish, LookupFound, LookupCreate, VisitEnd, SetSame, Assign, AddReturn
  <2> QED
    BY <1>n, <1>o, <2>1
<1>8. ASSUME NEW t \in Threads, VisitOne(t)
      PROVE  arg' \in [Threads -> Arg] /\ calls' \in 0 .. MaxCalls
  <2>1. PICK v : arg' = [arg EXCEPT ![t] = [arg[t] EXCEPT !.left = @ \ {v}]]
    BY <1>8 DEF VisitOne
  <2>2. [arg[t] EXCEPT !.left = @ \ {v}] \in Arg
    BY <1>t DEF Arg
  <2> QED
    BY <1>8, <1>o, <2>1, <2>2 DEF VisitOne
<1>9. ASSUME NEW t \in Threads, LoadNode(t)
      PROVE  arg' \in [Threads -> Arg] /\ calls' \in 0 .. MaxCalls
  <2> DEFINE v == s_datas[Head(todo[t])[1]]
             text == Head(todo[t])[2]
  <2>1. todo[t] \in Seq(Nodes) /\ todo[t] # <<>>
    BY <1>9 DEF LoadNode, RoundInv, Locked
  <2>2. Head(todo[t]) \in Nodes
    BY <2>1
  <2>3. v \in Vars \cup {None} /\ text \in Values \cup {Bad}
    BY <2>2 DEF Nodes, TableInv, TableTypes
  <2>4. \/ UNCHANGED arg
        \/ text # Bad /\ arg' = [arg EXCEPT ![t] = [NoArg EXCEPT !.var = v, !.val = text]]
    BY <1>9 DEF LoadNode
  <2>5. UNCHANGED calls
    BY <1>9 DEF LoadNode
  <2> HIDE DEF v, text
  <2>6. text # Bad => [NoArg EXCEPT !.var = v, !.val = text] \in Arg
    BY <2>3 DEF NoArg, Arg
  <2> QED
    BY <1>o, <1>u, <2>4, <2>5, <2>6
<1>10. ASSUME NEW t \in Threads,
              SetBegin(t) \/ NotifyEnd(t) \/ AddCount(t) \/ AddInsert(t)
       PROVE  arg' \in [Threads -> Arg] /\ calls' \in 0 .. MaxCalls
  BY <1>u, <1>10 DEF SetBegin, NotifyEnd, AddCount, AddInsert
<1>11. ASSUME NEW t \in Threads, Notify(t)
       PROVE  arg' \in [Threads -> Arg] /\ calls' \in 0 .. MaxCalls
  <2>1. arg[t].var \in Vars /\ UNCHANGED calls
    BY <1>11 DEF Notify, RoundInv, Locked
  <2>2. DOMAIN m_cbs[arg[t].var] \subseteq Nat
    BY <2>1 DEF CallInv, TypeOK
  <2>3. \/ \E k \in Nat : arg' = [arg EXCEPT ![t] = [arg[t] EXCEPT !.at = k]]
        \/ arg' = [arg EXCEPT ![t] = NoArg]
    BY <1>11, <2>2, NotifyDoes DEF Finish
  <2>4. \A k \in Nat : [arg[t] EXCEPT !.at = k] \in Arg
    BY <1>t DEF Arg
  <2> QED
    BY <1>n, <1>o, <2>1, <2>3, <2>4
<1> QED
  BY <1>u, <1>1, <1>2, <1>3, <1>4, <1>5, <1>6, <1>7, <1>8, <1>9, <1>10, <1>11
  DEF Next, Begin, Continue, Rest, vars, callVars

LEMMA MadeStep ==
    ASSUME ConfigAssumption, TableInv, RoundInv, CallInv, [Next]_vars
    PROVE  /\ Made'
           /\ \A v \in Vars : type[v] # None => type'[v] = type[v]
<1>t. Made /\ Lists /\ s_datas \in [Names -> Vars \cup {None}] /\ type \in [Vars -> Types \cup {None}]
  BY DEF CallInv, TypeOK
(* Lists change for variables that have been made only. *)
<1>m. \A v \in Vars : type[v] = None => DOMAIN m_cbs'[v] = {}
  <2> SUFFICES ASSUME NEW v \in Vars, type[v] = None PROVE DOMAIN m_cbs'[v] = {}
    OBVIOUS
  <2>v. DOMAIN m_cbs[v] = {} /\ None \notin Types
    BY <1>t DEF Made, ConfigAssumption
  <2>u. CASE UNCHANGED m_cbs
    BY <2>u, <2>v
  <2>1. ASSUME NEW t \in Threads, AddInsert(t) PROVE DOMAIN m_cbs'[v] = {}
    <3>1. type[arg[t].var] \in Types
      BY <2>1 DEF AddInsert, CallInv, InCalls, InCall, Adding
    <3>2. arg[t].var # v
      BY <2>v, <3>1
    <3> QED
      BY <1>t, <2>1, <2>v, <3>2 DEF AddInsert, Lists
  <2>2. ASSUME NEW t \in Threads, DelListener(t) PROVE DOMAIN m_cbs'[v] = {}
    <3>1. PICK r \in reg : Erase(r[1], r[2])
      BY <2>2 DEF DelListener
    <3> QED
      BY <1>t, <2>v, <3>1 DEF Erase, Lists
  <2>3. ASSUME NEW t \in Threads, ClearListener(t) PROVE DOMAIN m_cbs'[v] = {}
    BY <1>t, <2>3, <2>v DEF ClearListener, Lists
  <2>4. ASSUME NEW t \in Threads, AddListener(t) \/ AddCount(t) \/ AddReturn(t)
        PROVE  UNCHANGED m_cbs
    BY <2>4 DEF AddListener, AddCount, AddReturn
  <2> QED
    BY <2>u, <2>1, <2>2, <2>3, <2>4, ListSteps DEF Next, Rest, vars, cbsVars
<1>l. ASSUME NEW v \in Vars, type[v] # None, UNCHANGED <<s_datas, type>>
      PROVE  \E n \in ValidNames : s_datas'[n] = v /\ type'[v] \in TypesOf[n]
  BY <1>l, <1>t DEF Made
<1>u. CASE UNCHANGED <<s_datas, type>>
  BY <1>m, <1>l, <1>u DEF Made
<1>1. ASSUME NEW t \in Threads, LookupCreate(t)
      PROVE  Made' /\ \A v \in Vars : type[v] # None => type'[v] = type[v]
  <2> DEFINE n == arg[t].name
  <2>1. /\ n \in Names /\ s_datas[n] = None /\ arg[t].type \in TypesOf[n]
        /\ arg[t].type \in Types /\ None \notin Types
    BY <1>1 DEF LookupCreate, TableInv, CallsKnow, Finding, CallInv, InCalls, InCall,
       ConfigAssumption
  <2>2. CASE UNCHANGED tableVars
    BY <1>u, <2>2 DEF tableVars
  <2>3. ASSUME NEW w \in Vars, n \in ValidNames, type[w] = None,
               type' = [type EXCEPT ![w] = arg[t].type],
               s_datas' = [s_datas EXCEPT ![n] = w]
        PROVE  Made' /\ \A v \in Vars : type[v] # None => type'[v] = type[v]
    <3>1. type'[w] = arg[t].type /\ s_datas'[n] = w
      BY <1>t, <2>1, <2>3
    <3>2. \A v \in Vars : v # w => type'[v] = type[v]
      BY <1>t, <2>3
    <3>3. ASSUME NEW v \in Vars, v # w, type[v] # None
          PROVE  \E m \in ValidNames : s_datas'[m] = v /\ type'[v] \in TypesOf[m]
      <4>1. PICK m \in ValidNames : s_datas[m] = v /\ type[v] \in TypesOf[m]
        BY <1>t, <3>3 DEF Made
      <4>2. m # n /\ m \in Names
        BY <2>1, <4>1 DEF ConfigAssumption
      <4> QED
        BY <1>t, <2>3, <3>2, <3>3, <4>1, <4>2
    <3> QED
      BY <1>m, <2>1, <2>3, <3>1, <3>2, <3>3 DEF Made
  <2> QED
    BY <1>1, <2>2, <2>3 DEF LookupCreate
<1> QED
  BY <1>u, <1>1, TableSteps DEF Next, Rest, vars, tableVars

LEMMA InCallsStep ==
    ASSUME ConfigAssumption, TableInv, RoundInv, CallInv, [Next]_vars
    PROVE  InCalls'
<1>t. /\ InCalls /\ CallTypes /\ todo \in [Threads -> Seq(Nodes)]
      /\ used \subseteq Listeners /\ s_fun_id \in [Types -> Nat] /\ None \notin Types
      /\ \A v \in Vars : type[v] \in Types => type'[v] = type[v]
  BY MadeStep DEF CallInv, TypeOK, RoundInv, ConfigAssumption
<1>w. used \subseteq used'
  <2>1. ASSUME NEW t \in Threads, AddListener(t) PROVE used \subseteq used'
    <3>1. PICK v \in Vars, l \in Listeners \ used : used' = used \cup {l}
      BY <2>1, AddListenerDoes
    <3> QED
      BY <3>1
  <2>2. ASSUME NEW t \in Threads, AddCount(t) \/ AddInsert(t) \/ AddReturn(t)
                  \/ DelListener(t) \/ ClearListener(t)
        PROVE  UNCHANGED used
    BY <2>2 DEF AddCount, AddInsert, AddReturn, DelListener, ClearListener
  <2> QED
    BY <2>1, <2>2, ListSteps DEF Next, Rest, vars, cbsVars
<1>c. \A ty \in Types : s_fun_id[ty] > 0 => s_fun_id'[ty] > 0
  <2>1. ASSUME NEW t \in Threads, AddCount(t), NEW ty \in Types, s_fun_id[ty] > 0
        PROVE  s_fun_id'[ty] > 0
    <3>1. arg[t].at \in Nat
      BY DEF CallInv, TypeOK, Arg
    <3> QED
      BY <1>t, <2>1, <3>1 DEF AddCount, CountUp
  <2>2. ASSUME NEW t \in Threads, AddListener(t) \/ AddInsert(t) \/ AddReturn(t)
                  \/ DelListener(t) \/ ClearListener(t)
        PROVE  UNCHANGED s_fun_id
    BY <2>2 DEF AddListener, AddInsert, AddReturn, DelListener, ClearListener
  <2> QED
    BY <2>1, <2>2, ListSteps DEF Next, Rest, vars, cbsVars
<1>u. CASE UNCHANGED vars
  BY <1>t, <1>u DEF vars, callVars, tableVars, cbsVars, InCalls, InCall
<1>1. ASSUME NEW t \in Threads, Begin(t) \/ Continue(t) PROVE InCalls'
  <2>m. /\ OthersStay(t)
        /\ \A u \in Threads \ {t} : todo'[u] = todo[u]
    BY <1>1, Moves
  <2>o. ASSUME NEW u \in Threads \ {t} PROVE InCall(u)'
    <3>1. pc'[u] = pc[u] /\ arg'[u] = arg[u] /\ todo'[u] = todo[u] /\ InCall(u)
      BY <1>t, <2>m DEF OthersStay, InCalls
    <3>2. pc[u] \in Adding => arg[u].var \in Vars
      BY DEF RoundInv, Locked
    <3> QED
      BY <1>t, <1>w, <1>c, <3>1, <3>2 DEF InCall, Adding
  <2>1. pc'[t] = "lookup" => arg'[t].type \in TypesOf[arg'[t].name]
    <3> SUFFICES ASSUME Lookup(t) PROVE arg'[t].type \in TypesOf[arg'[t].name]
      BY <1>1, Moves
    <3>1. PICK n \in Names : \E ty \in TypesOf[n] :
             Calls(t, "lookup", [NoArg EXCEPT !.name = n, !.type = ty, !.var = s_datas[n]])
      BY DEF Lookup
    <3>2. PICK ty \in TypesOf[n] :
             Calls(t, "lookup", [NoArg EXCEPT !.name = n, !.type = ty, !.var = s_datas[n]])
      BY <3>1
    <3>3. arg'[t] = [NoArg EXCEPT !.name = n, !.type = ty, !.var = s_datas[n]]
      BY <1>t, <3>2 DEF Calls, CallTypes
    <3> QED
      BY <3>3 DEF NoArg
  <2>2. pc'[t] \in Changing \cup {"load"} \/ todo'[t] # <<>> => t \in Setters
    <3>1. Load(t) \/ Set(t) => t \in Setters
      BY DEF Load, Set
    <3>2. pc[t] \in {"load"} \cup Changing \/ todo[t] # <<>> => t \in Setters
      BY <1>t DEF InCalls, InCall
    <3>3. /\ LoadNode(t) => pc[t] = "load"
          /\ SetBegin(t) => pc[t] = "set"
          /\ Notify(t) \/ NotifyEnd(t) => pc[t] = "notify"
      BY DEF LoadNode, SetBegin, Notify, NotifyEnd
    <3> QED
      BY <1>1, <3>1, <3>2, <3>3, Moves DEF Changing
  <2>3. pc'[t] \in Changing => arg'[t].val \in Values
    <3>1. ASSUME Set(t) PROVE arg'[t].val \in Values
      <4>1. PICK v \in Known, x \in Values :
               Calls(t, "set", [NoArg EXCEPT !.var = v, !.val = x])
        BY <3>1 DEF Set
      <4>2. arg'[t] = [NoArg EXCEPT !.var = v, !.val = x]
        BY <1>t, <4>1 DEF Calls, CallTypes
      <4> QED
        BY <4>2 DEF NoArg
    <3>2. ASSUME LoadNode(t), pc'[t] = "set" PROVE arg'[t].val \in Values
      <4> DEFINE v == s_datas[Head(todo[t])[1]]
                 text == Head(todo[t])[2]
      <4>1. todo[t] \in Seq(Nodes) /\ todo[t] # <<>>
        BY <3>2 DEF LoadNode, RoundInv, Locked
      <4>2. Head(todo[t]) \in Nodes
        BY <4>1
      <4>3. text \in Values \cup {Bad}
        BY <4>2 DEF Nodes
      <4>4. text # Bad /\ arg' = [arg EXCEPT ![t] = [NoArg EXCEPT !.var = v, !.val = text]]
        BY <1>t, <3>2 DEF LoadNode, Goto, CallTypes
      <4> HIDE DEF v, text
      <4>5. arg'[t] = [NoArg EXCEPT !.var = v, !.val = text]
        BY <1>t, <4>4 DEF CallTypes
      <4> QED
        BY <4>3, <4>4, <4>5 DEF NoArg
    <3>3. ASSUME SetBegin(t) \/ NotifyEnd(t) PROVE arg'[t].val \in Values
      BY <1>t, <3>3 DEF SetBegin, NotifyEnd, InCalls, InCall, Changing
    <3>4. ASSUME Notify(t), pc[t] = pc'[t] PROVE arg'[t].val \in Values
      <4>1. arg[t].val \in Values /\ pc[t] = "notify"
        BY <1>t, <3>4 DEF Notify, InCalls, InCall, Changing
      <4>2. PICK k : arg' = [arg EXCEPT ![t] = [arg[t] EXCEPT !.at = k]] \/ Finish(t)
        BY <3>4, NotifyDoes
      <4>3. ~Finish(t)
        BY <1>t, <3>4, <4>1, CallEnds
      <4>4. arg'[t] = [arg[t] EXCEPT !.at = k]
        BY <1>t, <4>2, <4>3 DEF CallTypes
      <4> QED
        BY <4>1, <4>4
    <3> QED
      BY <1>1, <3>1, <3>2, <3>3, <3>4, Moves DEF Changing
  <2>4. pc'[t] = "set" => arg'[t].at = 0
    <3>1. ASSUME Set(t) PROVE arg'[t].at = 0
      <4>1. PICK v \in Known, x \in Values :
               Calls(t, "set", [NoArg EXCEPT !.var = v, !.val = x])
        BY <3>1 DEF Set
      <4>2. arg'[t] = [NoArg EXCEPT !.var = v, !.val = x]
        BY <1>t, <4>1 DEF Calls, CallTypes
      <4> QED
        BY <4>2 DEF NoArg
    <3>2. ASSUME LoadNode(t), pc'[t] = "set" PROVE arg'[t].at = 0
      <4>1. PICK v, text : arg' = [arg EXCEPT ![t] = [NoArg EXCEPT !.var = v, !.val = text]]
        BY <1>t, <3>2 DEF LoadNode, Goto, CallTypes
      <4>2. arg'[t] = [NoArg EXCEPT !.var = v, !.val = text]
        BY <1>t, <4>1 DEF CallTypes
      <4> QED
        BY <4>2 DEF NoArg
    <3> QED
      BY <1>1, <3>1, <3>2, Moves
  <2>5. pc'[t] \in Adding => type'[arg'[t].var] \in Types /\ arg'[t].cb \in used'
    <3>1. ASSUME AddListener(t) PROVE type'[arg'[t].var] \in Types /\ arg'[t].cb \in used'
      <4>1. PICK v \in Vars, l \in Listeners \ used :
               /\ type[v] \in Types /\ arg'[t].var = v /\ arg'[t].cb = l
               /\ used' = used \cup {l} /\ UNCHANGED type
        BY <3>1, AddListenerDoes
      <4> QED
        BY <4>1
    <3>2. ASSUME AddCount(t) \/ AddInsert(t)
          PROVE  type'[arg'[t].var] \in Types /\ arg'[t].cb \in used'
      <4>1. pc[t] \in Adding /\ arg' = arg
        BY <3>2 DEF AddCount, AddInsert, Adding
      <4>2. arg[t].var \in Vars /\ type[arg[t].var] \in Types /\ arg[t].cb \in used
        BY <1>t, <4>1 DEF RoundInv, Locked, InCalls, InCall
      <4> QED
        BY <1>t, <1>w, <4>1, <4>2
    <3> QED
      BY <1>1, <3>1, <3>2, Moves DEF Adding
  <2>6. pc'[t] \in {"insert", "inserted"} => s_fun_id'[type'[arg'[t].var]] > 0
    <3>1. ASSUME AddCount(t) PROVE s_fun_id'[type'[arg'[t].var]] > 0
      <4>1. pc[t] = "add" /\ CountUp(type[arg[t].var], arg[t].at) /\ UNCHANGED <<arg, type>>
        BY <3>1 DEF AddCount, tableVars
      <4>2. type[arg[t].var] \in Types /\ arg[t].at \in Nat
        BY <1>t, <4>1 DEF InCalls, InCall, Adding, CallInv, TypeOK, Arg
      <4> QED
        BY <1>t, <4>1, <4>2 DEF CountUp
    <3>2. ASSUME AddInsert(t) PROVE s_fun_id'[type'[arg'[t].var]] > 0
      BY <1>t, <3>2 DEF AddInsert, tableVars, InCalls, InCall
    <3> QED
      BY <1>1, <3>1, <3>2, Moves
  <2>7. InCall(t)'
    BY <2>1, <2>2, <2>3, <2>4, <2>5, <2>6 DEF InCall
  <2> QED
    BY <2>o, <2>7 DEF InCalls
<1> QED
  BY <1>u, <1>1 DEF Next, Rest

LEMMA CallInvStep ==
    ASSUME ConfigAssumption, TableInv, RoundInv, CallInv, [Next]_vars
    PROVE  CallInv'
<1>1. TableInv' /\ RoundInv'
  BY TableInvStep, RoundInvStep
<1>2. TypeOK'
  BY <1>1, ListTypesStep, ValueTypesStep, ArgTypesStep DEF TypeOK, TableInv, TableTypes,
     RoundInv, LocksInv, Nodes, ListTypes, ValueTypes
<1> QED
  BY <1>2, ListTypesStep, MadeStep, InCallsStep DEF CallInv, ListTypes

LEMMA CallsHold == Spec => [](TableInv /\ RoundInv /\ CallInv)
<1>1. ConfigAssumption /\ Init => TableInv /\ RoundInv /\ CallInv
  BY TableInvInit, RoundInvInit, CallInvInit
<1>2. ConfigAssumption /\ TableInv /\ RoundInv /\ CallInv /\ [Next]_vars
         => TableInv' /\ RoundInv' /\ CallInv'
  BY TableInvStep, RoundInvStep, CallInvStep
<1> QED
  BY ConfigAssumption, <1>1, <1>2, PTL DEF Spec

(* The variables of the configuration have their types, whatever the        *)
(* threads do at once (config.h:316-486, config.cc:14-63).                  *)
THEOREM TypeCorrect == Spec => []TypeOK
<1>1. CallInv => TypeOK
  BY DEF CallInv
<1> QED
  BY <1>1, CallsHold, PTL

-----------------------------------------------------------------------------
(* KeyInv: the keys of listeners, while no two calls have overlapped.       *)

LEMMA KeyInvInit == ConfigAssumption /\ Init => KeyInv
BY DEF Init, KeyInv, Alone, AddsTo, Adding, KeysHold, KeysBelow, Keyed

(* Calls that have overlapped have done so for ever. *)
LEMMA OverlapsStay ==
    ASSUME ConfigAssumption, TableInv, RoundInv, CallInv, [Next]_vars
    PROVE  overlapped \subseteq overlapped'
<1>1. ASSUME NEW t \in Threads, AddListener(t) PROVE overlapped \subseteq overlapped'
  BY <1>1, AddListenerDoes
<1>2. ASSUME NEW t \in Threads, \/ AddCount(t) \/ AddInsert(t) \/ AddReturn(t)
                                \/ DelListener(t) \/ ClearListener(t)
      PROVE  UNCHANGED overlapped
  BY <1>2 DEF AddCount, AddInsert, AddReturn, DelListener, ClearListener
<1> QED
  BY <1>1, <1>2, ListSteps DEF Next, Rest, vars, cbsVars

(* What a thread that adds a listener of such a type knows. *)
LEMMA AddingKnows ==
    ASSUME KeyInv, CallInv, NEW t \in Threads, pc[t] \in Adding,
           type[arg[t].var] \notin overlapped
    PROVE  Keyed(t)
BY DEF KeyInv, CallInv, InCalls, InCall, AddsTo

(* A thread adds a listener because it did, or because it has just begun,   *)
(* and then nobody else adds one of that type unless they overlap.          *)
LEMMA AddsToStep ==
    ASSUME ConfigAssumption, TableInv, RoundInv, CallInv, [Next]_vars,
           NEW t \in Threads, NEW ty \in Types \ overlapped', AddsTo(t, ty)'
    PROVE  \/ AddsTo(t, ty)
           \/ AddListener(t) /\ \A u \in Threads : ~AddsTo(u, ty)
<1>t. ASSUME pc[t] \in Adding PROVE arg[t].var \in Vars /\ type'[arg[t].var] = type[arg[t].var]
  <2>1. arg[t].var \in Vars /\ type[arg[t].var] # None
    BY <1>t DEF RoundInv, Locked, CallInv, InCalls, InCall, ConfigAssumption
  <2> QED
    BY <2>1, MadeStep
<1>s. ASSUME pc[t] \in Adding, arg'[t] = arg[t] PROVE AddsTo(t, ty)
  BY <1>s, <1>t DEF AddsTo
<1>u. CASE UNCHANGED vars
  BY <1>s, <1>u DEF vars, callVars, AddsTo
<1>1. ASSUME NEW s \in Threads \ {t}, Begin(s) \/ Continue(s) PROVE AddsTo(t, ty)
  BY <1>1, <1>s, Moves DEF OthersStay, AddsTo
<1>2. CASE Begin(t) \/ Continue(t)
  <2>1. CASE AddCount(t) \/ AddInsert(t)
    BY <1>s, <2>1 DEF AddCount, AddInsert, Adding
  <2>2. CASE AddListener(t)
    <3>1. PICK v \in Vars, l \in Listeners \ used :
             /\ arg'[t].var = v /\ UNCHANGED type
             /\ overlapped' = overlapped \cup {x \in {type[v]} : \E u \in Threads : AddsTo(u, x)}
      BY <2>2, AddListenerDoes
    <3>2. type[v] = ty
      BY <3>1 DEF AddsTo
    <3> QED
      BY <2>2, <3>1, <3>2
  <2> QED
    BY <1>2, <2>1, <2>2, Moves DEF AddsTo, Adding
<1> QED
  BY <1>u, <1>1, <1>2 DEF Next, Rest

LEMMA AloneStep ==
    ASSUME ConfigAssumption, TableInv, RoundInv, CallInv, Alone, [Next]_vars
    PROVE  Alone'
<1> SUFFICES ASSUME NEW t \in Threads, NEW u \in Threads, NEW ty \in Types \ overlapped',
                    AddsTo(t, ty)', AddsTo(u, ty)', t # u
             PROVE  FALSE
  BY DEF Alone
<1>1. ty \in Types \ overlapped
  BY OverlapsStay
<1>2. ~(AddListener(t) /\ AddListener(u))
  <2> SUFFICES ASSUME AddListener(t), AddListener(u) PROVE FALSE
    OBVIOUS
  <2>1. pc[u] = "ready" /\ pc'[u] = "add"
    BY AddListenerDoes
  <2>2. pc'[u] = pc[u]
    BY Moves DEF OthersStay, Begin
  <2> QED
    BY <2>1, <2>2
<1> QED
  BY <1>1, <1>2, AddsToStep DEF Alone

(* A thread that adds a listener is left alone by a step that changes       *)
(* neither the list of its variable nor the counter of its type.            *)
LEMMA KeyedStays ==
    ASSUME ConfigAssumption, TableInv, RoundInv, CallInv, [Next]_vars, NEW u \in Threads, Keyed(u),
           pc'[u] = pc[u], arg'[u] = arg[u],
           pc[u] \in Adding => /\ m_cbs'[arg[u].var] = m_cbs[arg[u].var]
                               /\ s_fun_id'[type[arg[u].var]] = s_fun_id[type[arg[u].var]]
    PROVE  Keyed(u)'
<1>1. pc[u] \in Adding => arg[u].var \in Vars /\ type[arg[u].var] # None
  BY DEF RoundInv, Locked, CallInv, InCalls, InCall, ConfigAssumption
<1>2. pc[u] \in Adding => type'[arg[u].var] = type[arg[u].var]
  BY <1>1, MadeStep
<1> QED
  BY <1>2 DEF Keyed, Adding

LEMMA KeyedStep ==
    ASSUME ConfigAssumption, TableInv, RoundInv, CallInv, KeyInv, [Next]_vars
    PROVE  \A u \in Threads, ty \in Types \ overlapped' : AddsTo(u, ty)' => Keyed(u)'
<1> SUFFICES ASSUME NEW u \in Threads, NEW ty \in Types \ overlapped', AddsTo(u, ty)'
             PROVE Keyed(u)'
  OBVIOUS
<1>o. ty \in Types \ overlapped
  BY OverlapsStay
<1>k. KeysBelow /\ KeysHold /\ (AddsTo(u, ty) => Keyed(u))
  BY <1>o DEF KeyInv
(* One that goes on adding, or is left alone, did so for that type before.  *)
<1>a. ASSUME pc[u] \in Adding, UNCHANGED arg[u] PROVE AddsTo(u, ty) /\ Keyed(u)
  <2>1. arg[u].var \in Vars /\ type[arg[u].var] # None
    BY <1>a DEF RoundInv, Locked, CallInv, InCalls, InCall, ConfigAssumption
  <2>2. type'[arg[u].var] = type[arg[u].var]
    BY <2>1, MadeStep
  <2> QED
    BY <1>a, <1>k, <2>2 DEF AddsTo
<1>t. /\ Lists /\ s_fun_id \in [Types -> Nat] /\ None \notin Types \cup Threads
      /\ CallTypes /\ type \in [Vars -> Types \cup {None}]
      /\ reg \subseteq Vars \X Nat \X Listeners
      /\ \A v \in Vars : DOMAIN m_cbs[v] \subseteq Nat
  BY DEF CallInv, TypeOK, ConfigAssumption, RoundInv
<1>w. pc[u] \in Adding => /\ arg[u].var \in Vars /\ writer[arg[u].var] = u
                          /\ type[arg[u].var] \in Types
  BY DEF RoundInv, Locked, CallInv, InCalls, InCall
<1>u. CASE UNCHANGED vars
  BY <1>u, <1>a, KeyedStays DEF vars, callVars, cbsVars, AddsTo
<1>1. ASSUME NEW t \in Threads, Begin(t) \/ Continue(t), t # u PROVE Keyed(u)'
  <2>m. pc'[u] = pc[u] /\ arg'[u] = arg[u]
    BY <1>1, Moves DEF OthersStay
  <2>a. pc[u] \in Adding /\ AddsTo(u, ty) /\ Keyed(u)
    BY <1>a, <2>m DEF AddsTo
  <2> SUFFICES ASSUME pc[u] \in Adding
               PROVE  /\ m_cbs'[arg[u].var] = m_cbs[arg[u].var]
                      /\ s_fun_id'[type[arg[u].var]] = s_fun_id[type[arg[u].var]]
    BY <2>a, <2>m, KeyedStays
  <2>u. CASE UNCHANGED <<m_cbs, s_fun_id>>
    BY <2>u
  <2>1. CASE AddCount(t)
    <3>1. type[arg[t].var] # type[arg[u].var]
      BY <1>1, <1>o, <2>1, <2>a DEF KeyInv, Alone, AddsTo, AddCount, Adding
    <3> QED
      BY <1>t, <1>w, <2>1, <3>1 DEF AddCount, CountUp
  <2>2. CASE AddInsert(t)
    <3>1. arg[t].var # arg[u].var
      BY <1>1, <1>w, <2>2 DEF AddInsert, Adding, RoundInv, Locked
    <3> QED
      BY <1>t, <1>w, <2>2, <3>1 DEF AddInsert, Lists
  <2>3. CASE DelListener(t)
    <3>1. PICK r \in reg : Exclusive(r[1]) /\ Erase(r[1], r[2])
      BY <2>3 DEF DelListener
    <3>2. r[1] # arg[u].var
      BY <1>t, <1>w, <3>1 DEF Exclusive
    <3> QED
      BY <1>t, <1>w, <2>3, <3>1, <3>2 DEF DelListener, Erase, Lists
  <2>4. CASE ClearListener(t)
    <3>1. PICK v \in Known : Exclusive(v) /\ m_cbs' = [m_cbs EXCEPT ![v] = <<>>]
      BY <2>4 DEF ClearListener
    <3>2. v # arg[u].var
      BY <1>t, <1>w, <3>1 DEF Exclusive
    <3> QED
      BY <1>t, <1>w, <2>4, <3>1, <3>2 DEF ClearListener, Lists
  <2>5. CASE AddListener(t) \/ AddReturn(t)
    BY <2>u, <2>5 DEF AddListener, AddReturn
  <2> QED
    BY <1>1, <2>u, <2>1, <2>2, <2>3, <2>4, <2>5, ListSteps DEF cbsVars
<1>2. CASE Begin(u) \/ Continue(u)
  <2>1. pc'[u] = "add" => arg'[u].at = s_fun_id'[type'[arg'[u].var]]
    <3> SUFFICES ASSUME AddListener(u) PROVE arg'[u].at = s_fun_id'[type'[arg'[u].var]]
      BY <1>2, Moves
    <3>1. PICK v \in Vars, l \in Listeners \ used :
             /\ arg'[u].var = v /\ arg'[u].at = s_fun_id[type[v]]
             /\ UNCHANGED <<s_datas, type, handed, m_cbs, s_fun_id, reg, valVars, todo>>
      BY AddListenerDoes
    <3> QED
      BY <3>1
  <2>2. pc'[u] = "insert" =>
           s_fun_id'[type'[arg'[u].var]] \notin DOMAIN m_cbs'[arg'[u].var]
    <3> SUFFICES ASSUME AddCount(u)
                 PROVE  s_fun_id'[type'[arg'[u].var]] \notin DOMAIN m_cbs'[arg'[u].var]
      BY <1>2, Moves
    <3>1. /\ pc[u] = "add" /\ CountUp(type[arg[u].var], arg[u].at)
          /\ UNCHANGED <<type, m_cbs, arg>>
      BY DEF AddCount, tableVars
    <3>a. AddsTo(u, ty) /\ Keyed(u)
      BY <1>a, <3>1 DEF Adding
    <3>2. arg[u].at = s_fun_id[type[arg[u].var]]
      BY <3>1, <3>a DEF Keyed
    <3>3. \A k \in DOMAIN m_cbs[arg[u].var] : k <= s_fun_id[type[arg[u].var]]
      BY <1>k, <1>o, <1>w, <3>1, <3>a DEF KeysBelow, AddsTo
    <3>4. s_fun_id'[type[arg[u].var]] = s_fun_id[type[arg[u].var]] + 1
      BY <1>t, <1>w, <3>1, <3>2 DEF CountUp, Adding
    <3>5. arg[u].var \in Vars /\ s_fun_id[type[arg[u].var]] \in Nat
      BY <1>t, <1>w, <3>1 DEF Adding
    <3>6. s_fun_id[type[arg[u].var]] + 1 \notin DOMAIN m_cbs[arg[u].var]
      BY <1>t, <3>3, <3>5
    <3> QED
      BY <3>1, <3>4, <3>6
  <2>3. pc'[u] = "inserted" =>
           /\ s_fun_id'[type'[arg'[u].var]] \in DOMAIN m_cbs'[arg'[u].var]
           /\ m_cbs'[arg'[u].var][s_fun_id'[type'[arg'[u].var]]] = arg'[u].cb
    <3> SUFFICES ASSUME AddInsert(u)
                 PROVE  /\ s_fun_id'[type'[arg'[u].var]] \in DOMAIN m_cbs'[arg'[u].var]
                        /\ m_cbs'[arg'[u].var][s_fun_id'[type'[arg'[u].var]]] = arg'[u].cb
      BY <1>2, Moves
    <3> DEFINE v == arg[u].var
               key == s_fun_id[type[v]]
    <3>1. /\ pc[u] = "insert" /\ UNCHANGED <<type, s_fun_id, arg>>
          /\ m_cbs' = [m_cbs EXCEPT ![v] =
                         [k \in DOMAIN @ \cup {key} |-> IF k = key THEN arg[u].cb ELSE @[k]]]
      BY DEF AddInsert, tableVars
    <3>2. m_cbs'[v] = [k \in DOMAIN m_cbs[v] \cup {key} |->
                         IF k = key THEN arg[u].cb ELSE m_cbs[v][k]]
      BY <1>t, <1>w, <3>1 DEF Lists, Adding
    <3> QED
      BY <3>1, <3>2
  <2> QED
    BY <2>1, <2>2, <2>3 DEF Keyed
<1> QED
  BY <1>u, <1>1, <1>2 DEF Next, Rest

LEMMA KeysBelowStep ==
    ASSUME ConfigAssumption, TableInv, RoundInv, CallInv, KeyInv, [Next]_vars
    PROVE  KeysBelow'
<1>t. /\ Lists /\ s_fun_id \in [Types -> Nat] /\ None \notin Types
      /\ type \in [Vars -> Types \cup {None}] /\ KeysBelow
      /\ \A v \in Vars : DOMAIN m_cbs[v] \subseteq Nat
      /\ type' \in [Vars -> Types \cup {None}]
  BY CallInvStep DEF CallInv, TypeOK, ConfigAssumption, KeyInv
<1> SUFFICES ASSUME NEW v \in Vars, type'[v] \in Types \ overlapped',
                    NEW k \in DOMAIN m_cbs'[v]
             PROVE  k <= s_fun_id'[type'[v]]
  BY DEF KeysBelow
(* A variable that is new has no listeners.                                 *)
<1>n. type[v] # None /\ type'[v] = type[v]
  <2>1. CASE type[v] # None
    BY <2>1, MadeStep
  <2>2. CASE type[v] = None
    <3>1. PICK t \in Threads : LookupCreate(t)
      BY <2>2, TableSteps DEF Next, Rest, vars, tableVars
    <3>2. m_cbs'[v] = m_cbs[v] /\ DOMAIN m_cbs[v] = {}
      BY <2>2, <3>1 DEF LookupCreate, cbsVars, CallInv, Made
    <3> QED
      BY <3>2
  <2> QED
    BY <2>1, <2>2
<1>b. type[v] \in Types \ overlapped /\ s_fun_id[type[v]] \in Nat
      /\ \A j \in DOMAIN m_cbs[v] : j \in Nat /\ j <= s_fun_id[type[v]]
  BY <1>n, <1>t, OverlapsStay DEF KeysBelow
<1>u. CASE UNCHANGED <<m_cbs, s_fun_id>>
  BY <1>u, <1>n, <1>b
<1>1. ASSUME NEW t \in Threads, AddCount(t) PROVE k <= s_fun_id'[type'[v]]
  <2>1. /\ pc[t] = "add" /\ CountUp(type[arg[t].var], arg[t].at) /\ UNCHANGED m_cbs
    BY <1>1 DEF AddCount
  <2>2. /\ type[arg[t].var] \in Types
        /\ type[arg[t].var] = type[v] => arg[t].at = s_fun_id[type[v]]
    BY <1>b, <2>1 DEF KeyInv, Keyed, AddsTo, CallInv, InCalls, InCall, Adding
  <2>3. s_fun_id'[type[v]] \in {s_fun_id[type[v]], s_fun_id[type[v]] + 1}
    BY <1>t, <1>b, <2>1, <2>2 DEF CountUp
  <2> QED
    BY <1>n, <1>b, <2>1, <2>3
<1>2. ASSUME NEW t \in Threads, AddInsert(t) PROVE k <= s_fun_id'[type'[v]]
  <2> DEFINE w == arg[t].var
             key == s_fun_id[type[w]]
  <2>1. /\ UNCHANGED s_fun_id
        /\ m_cbs' = [m_cbs EXCEPT ![w] =
                       [j \in DOMAIN @ \cup {key} |-> IF j = key THEN arg[t].cb ELSE @[j]]]
    BY <1>2 DEF AddInsert
  <2>2. k \in DOMAIN m_cbs[v] \/ (v = w /\ k = key)
    BY <1>t, <2>1 DEF Lists
  <2> QED
    BY <1>n, <1>b, <2>1, <2>2
<1>3. ASSUME NEW t \in Threads, DelListener(t) PROVE k <= s_fun_id'[type'[v]]
  <2>1. PICK r \in reg : Erase(r[1], r[2])
    BY <1>3 DEF DelListener
  <2>2. k \in DOMAIN m_cbs[v]
    BY <1>t, <2>1 DEF Erase, Lists
  <2> QED
    BY <1>3, <1>n, <1>b, <2>2 DEF DelListener
<1>4. ASSUME NEW t \in Threads, ClearListener(t) PROVE k <= s_fun_id'[type'[v]]
  <2>1. k \in DOMAIN m_cbs[v]
    BY <1>t, <1>4 DEF ClearListener, Lists
  <2> QED
    BY <1>4, <1>n, <1>b, <2>1 DEF ClearListener
<1>5. ASSUME NEW t \in Threads, AddListener(t) \/ AddReturn(t)
      PROVE  UNCHANGED <<m_cbs, s_fun_id>>
  BY <1>5 DEF AddListener, AddReturn
<1> QED
  BY <1>u, <1>1, <1>2, <1>3, <1>4, <1>5, ListSteps DEF Next, Rest, vars, cbsVars

LEMMA KeysHoldStep ==
    ASSUME ConfigAssumption, TableInv, RoundInv, CallInv, KeyInv, [Next]_vars
    PROVE  KeysHold'
<1>t. /\ Lists /\ KeysHold /\ reg \subseteq Vars \X Nat \X Listeners
      /\ \A r \in reg : r[1] \in Vars /\ r = <<r[1], r[2], r[3]>>
      /\ type \in [Vars -> Types \cup {None}] /\ None \notin Types
      /\ overlapped' \subseteq Types
  BY CallInvStep DEF CallInv, TypeOK, KeyInv, ConfigAssumption
<1>o. \A v \in Vars : type'[v] \notin overlapped' => type[v] \notin overlapped
  BY <1>t, OverlapsStay, MadeStep
<1>u. CASE UNCHANGED <<m_cbs, reg>>
  BY <1>t, <1>o, <1>u DEF KeysHold
<1>1. ASSUME NEW t \in Threads, AddInsert(t) PROVE KeysHold'
  <2> DEFINE w == arg[t].var
             key == s_fun_id[type[w]]
  <2>1. /\ pc[t] = "insert" /\ UNCHANGED reg
        /\ m_cbs' = [m_cbs EXCEPT ![w] =
                       [j \in DOMAIN @ \cup {key} |-> IF j = key THEN arg[t].cb ELSE @[j]]]
    BY <1>1 DEF AddInsert
  <2>2. type[w] \notin overlapped => key \notin DOMAIN m_cbs[w]
    BY <2>1, AddingKnows DEF Keyed, Adding
  <2>3. \A v \in Vars : type[v] \notin overlapped => \A j \in DOMAIN m_cbs[v] :
           j \in DOMAIN m_cbs'[v] /\ m_cbs'[v][j] = m_cbs[v][j]
    BY <1>t, <2>1, <2>2 DEF Lists
  <2>4. ASSUME NEW r \in reg, type'[r[1]] \notin overlapped'
        PROVE  r[2] \in DOMAIN m_cbs'[r[1]] /\ m_cbs'[r[1]][r[2]] = r[3]
    <3>1. /\ r[1] \in Vars /\ type[r[1]] \notin overlapped
          /\ r[2] \in DOMAIN m_cbs[r[1]] /\ m_cbs[r[1]][r[2]] = r[3]
      BY <1>t, <1>o, <2>4 DEF KeysHold
    <3> QED
      BY <2>3, <3>1
  <2> QED
    BY <2>1, <2>4 DEF KeysHold
<1>2. ASSUME NEW t \in Threads, AddReturn(t) PROVE KeysHold'
  <2>1. /\ pc[t] = "inserted" /\ UNCHANGED m_cbs
        /\ reg' = reg \cup {<<arg[t].var, s_fun_id[type[arg[t].var]], arg[t].cb>>}
    BY <1>2 DEF AddReturn
  <2>2. type[arg[t].var] \notin overlapped =>
           /\ s_fun_id[type[arg[t].var]] \in DOMAIN m_cbs[arg[t].var]
           /\ m_cbs[arg[t].var][s_fun_id[type[arg[t].var]]] = arg[t].cb
    BY <2>1, AddingKnows DEF Keyed, Adding
  <2>3. arg[t].var \in Vars
    BY <2>1 DEF RoundInv, Locked, Adding
  <2>4. ASSUME NEW r \in reg', type'[r[1]] \notin overlapped'
        PROVE  r[2] \in DOMAIN m_cbs'[r[1]] /\ m_cbs'[r[1]][r[2]] = r[3]
    <3>1. CASE r \in reg
      BY <1>t, <1>o, <2>1, <2>4, <3>1 DEF KeysHold
    <3>2. CASE r = <<arg[t].var, s_fun_id[type[arg[t].var]], arg[t].cb>>
      BY <1>o, <2>1, <2>2, <2>3, <2>4, <3>2
    <3> QED
      BY <2>1, <2>4, <3>1, <3>2
  <2> QED
    BY <2>4 DEF KeysHold
(* What is deleted was nobody else's.                                       *)
<1>3. ASSUME NEW t \in Threads, DelListener(t) PROVE KeysHold'
  <2>1. PICK r \in reg : Erase(r[1], r[2]) /\ reg' = reg \ {r}
    BY <1>3 DEF DelListener
  <2>2. ASSUME NEW q \in reg, q # r, type'[q[1]] \notin overlapped'
        PROVE  q[2] \in DOMAIN m_cbs'[q[1]] /\ m_cbs'[q[1]][q[2]] = q[3]
    <3>o. type[q[1]] \notin overlapped
      BY <1>t, <1>o, <2>2
    <3>1. q[1] = r[1] => q[2] # r[2]
      BY <1>t, <2>2, <3>o DEF KeysHold
    <3>2. q[1] \in Vars /\ r[1] \in Vars
          /\ q[2] \in DOMAIN m_cbs[q[1]] /\ m_cbs[q[1]][q[2]] = q[3]
      BY <1>t, <3>o DEF KeysHold
    <3> QED
      BY <1>t, <2>1, <3>1, <3>2 DEF Erase, Lists
  <2> QED
    BY <2>1, <2>2 DEF KeysHold
<1>4. ASSUME NEW t \in Threads, ClearListener(t) PROVE KeysHold'
  <2>1. PICK v \in Known : /\ m_cbs' = [m_cbs EXCEPT ![v] = <<>>]
                           /\ reg' = {r \in reg : r[1] # v}
    BY <1>4 DEF ClearListener
  <2> QED
    BY <1>t, <1>o, <2>1 DEF KeysHold, Lists
<1>5. ASSUME NEW t \in Threads, AddListener(t) \/ AddCount(t)
      PROVE  UNCHANGED <<m_cbs, reg>>
  BY <1>5 DEF AddListener, AddCount
<1> QED
  BY <1>u, <1>1, <1>2, <1>3, <1>4, <1>5, ListSteps DEF Next, Rest, vars, cbsVars

LEMMA KeyInvHolds == Spec => []KeyInv
<1>1. ConfigAssumption /\ TableInv /\ RoundInv /\ CallInv /\ KeyInv /\ [Next]_vars => KeyInv'
  BY AloneStep, KeyedStep, KeysBelowStep, KeysHoldStep DEF KeyInv
<1>2. ConfigAssumption /\ Init => KeyInv
  BY KeyInvInit
<1> QED
  BY ConfigAssumption, CallsHold, <1>1, <1>2, PTL DEF Spec

(* The key that addListener returned is the key of that listener until it   *)
(* is deleted, though it is read three times from a counter that all the    *)
(* variables of a type share and the lock of one does not guard             *)
(* (config.h:386-411), unless two threads were once in addListener at the   *)
(* same time for two variables of the type.                                 *)
THEOREM KeysAlwaysHold == Spec => []KeysHold
<1>1. KeyInv => KeysHold
  BY DEF KeyInv
<1> QED
  BY <1>1, KeyInvHolds, PTL

-----------------------------------------------------------------------------
(* PlaceInv: where a listener is, and what it was told.                     *)

LEMMA PlaceInvInit == ConfigAssumption /\ Init => PlaceInv
BY DEF Init, PlaceInv, PlacedOnce, NotYetPlaced, Offered, Fresh

(* Only addListener puts a listener into a list.                            *)
LEMMA ListsMove ==
    ASSUME ConfigAssumption, TableInv, RoundInv, CallInv,
           NEW t \in Threads, Begin(t) \/ Continue(t),
           NEW v \in Vars, NEW k \in DOMAIN m_cbs'[v]
    PROVE  \/ k \in DOMAIN m_cbs[v] /\ m_cbs'[v][k] = m_cbs[v][k]
           \/ /\ AddInsert(t)
              /\ v = arg[t].var /\ k = s_fun_id[type[v]] /\ m_cbs'[v][k] = arg[t].cb
<1>t. Lists /\ reg \subseteq Vars \X Nat \X Listeners
  BY DEF CallInv, TypeOK
<1>1. CASE AddInsert(t)
  <2> DEFINE w == arg[t].var
             key == s_fun_id[type[w]]
             new == [j \in DOMAIN m_cbs[w] \cup {key} |->
                       IF j = key THEN arg[t].cb ELSE m_cbs[w][j]]
  <2>1. m_cbs' = [m_cbs EXCEPT ![w] = new] /\ w \in Vars
    BY <1>1 DEF AddInsert, RoundInv, Locked, Adding
  <2>2. m_cbs'[w] = new /\ \A u \in Vars : u # w => m_cbs'[u] = m_cbs[u]
    BY <1>t, <2>1 DEF Lists
  <2> QED
    BY <1>1, <2>2
<1>2. CASE DelListener(t)
  <2>1. PICK r \in reg : Erase(r[1], r[2])
    BY <1>2 DEF DelListener
  <2> QED
    BY <1>t, <2>1 DEF Erase, Lists
<1>3. CASE ClearListener(t)
  BY <1>t, <1>3 DEF ClearListener, Lists
<1>4. CASE AddListener(t) \/ AddCount(t) \/ AddReturn(t) \/ UNCHANGED cbsVars
  BY <1>4 DEF AddListener, AddCount, AddReturn, cbsVars
<1> QED
  BY <1>1, <1>2, <1>3, <1>4, ListSteps

(* Only a round tells a listener, and only one that is in its list.         *)
LEMMA HeardMoves ==
    ASSUME ConfigAssumption, TableInv, RoundInv, CallInv,
           NEW t \in Threads, Begin(t) \/ Continue(t), NEW l \in Listeners
    PROVE  \/ heard'[l] = heard[l]
           \/ /\ Notify(t)
              /\ \E k \in DOMAIN m_cbs[arg[t].var] : l = m_cbs[arg[t].var][k]
<1>t. heard \in [Listeners -> Values \cup {None}]
  BY DEF CallInv, TypeOK
<1>1. CASE Notify(t)
  <2>1. PICK k \in DOMAIN m_cbs[arg[t].var] :
           heard' = [heard EXCEPT ![m_cbs[arg[t].var][k]] = arg[t].val]
    BY <1>1, NotifyDoes
  <2> QED
    BY <1>t, <1>1, <2>1
<1>2. CASE Assign(t) \/ UNCHANGED valVars
  BY <1>2 DEF Assign, valVars
<1> QED
  BY <1>1, <1>2, ValueSteps

LEMMA FreshStays ==
    ASSUME ConfigAssumption, TableInv, RoundInv, CallInv,
           NEW t \in Threads, Begin(t) \/ Continue(t), NEW l \in Listeners, Fresh(l),
           ~(AddInsert(t) /\ arg[t].cb = l)
    PROVE  Fresh(l)'
<1>1. heard'[l] = None
  <2>1. ASSUME Notify(t), NEW k \in DOMAIN m_cbs[arg[t].var], l = m_cbs[arg[t].var][k]
        PROVE  FALSE
    <3>1. arg[t].var \in Vars
      BY <2>1 DEF Notify, RoundInv, Locked
    <3> QED
      BY <2>1, <3>1 DEF Fresh
  <2> QED
    BY <2>1, HeardMoves DEF Fresh
<1>2. ASSUME NEW v \in Vars, NEW k \in DOMAIN m_cbs'[v] PROVE m_cbs'[v][k] # l
  BY <1>2, ListsMove DEF Fresh
<1> QED
  BY <1>1, <1>2 DEF Fresh

LEMMA PlaceInvStep ==
    ASSUME ConfigAssumption, TableInv, RoundInv, CallInv, PlaceInv, [Next]_vars
    PROVE  PlaceInv'
<1>u. CASE UNCHANGED vars
  BY <1>u DEF vars, cbsVars, valVars, callVars, PlaceInv, PlacedOnce, NotYetPlaced, Offered, Fresh
<1>1. ASSUME NEW t \in Threads, Begin(t) \/ Continue(t) PROVE PlaceInv'
  <2>u. used \subseteq Listeners
    BY DEF CallInv, TypeOK
  <2>c. \A u \in Threads : Offered(u) => arg[u].cb \in used
    BY DEF CallInv, InCalls, InCall, Offered, Adding
  <2>m. \A u \in Threads \ {t} : pc'[u] = pc[u] /\ arg'[u] = arg[u]
    BY <1>1, Moves DEF OthersStay
  <2>i. AddInsert(t) => Offered(t) /\ ~Offered(t)' /\ UNCHANGED used
    <3>1. ASSUME AddInsert(t) PROVE pc'[t] = "inserted"
      BY <3>1 DEF AddInsert, Goto, RoundInv, CallTypes
    <3> QED
      BY <3>1 DEF AddInsert, Offered
(* Whose listener is offered after the step: it was, or it is new.          *)
  <2>n. Offered(t)' => \/ Offered(t) /\ arg'[t] = arg[t] /\ ~AddInsert(t)
                       \/ arg'[t].cb \in Listeners \ used
    <3>1. ASSUME pc'[t] = "insert" PROVE Offered(t) /\ arg'[t] = arg[t] /\ ~AddInsert(t)
      <4>1. AddCount(t)
        BY <1>1, <3>1, Moves
      <4> QED
        BY <4>1 DEF AddCount, AddInsert, Offered
    <3>2. ASSUME pc'[t] = "add" PROVE arg'[t].cb \in Listeners \ used
      <4>1. AddListener(t)
        BY <1>1, <3>2, Moves
      <4>2. PICK v \in Vars, l \in Listeners \ used : arg'[t].cb = l
        BY <4>1, AddListenerDoes
      <4> QED
        BY <4>2
    <3> QED
      BY <3>1, <3>2 DEF Offered
  <2>w. used \subseteq used'
    <3>1. ASSUME AddListener(t) PROVE used \subseteq used'
      <4>1. PICK v \in Vars, l \in Listeners \ used : used' = used \cup {l}
        BY <3>1, AddListenerDoes
      <4> QED
        BY <4>1
    <3>2. ASSUME AddCount(t) \/ AddInsert(t) \/ AddReturn(t) \/ DelListener(t) \/ ClearListener(t)
          PROVE  UNCHANGED used
      BY <3>2 DEF AddCount, AddInsert, AddReturn, DelListener, ClearListener
    <3> QED
      BY <1>1, <3>1, <3>2, ListSteps DEF cbsVars
  <2>1. ASSUME NEW v \in Vars, NEW w \in Vars, NEW j \in DOMAIN m_cbs'[v],
               NEW k \in DOMAIN m_cbs'[w], m_cbs'[v][j] = m_cbs'[w][k]
        PROVE  v = w /\ j = k
    <3>1. AddInsert(t) => /\ \A x \in Vars : \A i \in DOMAIN m_cbs[x] : m_cbs[x][i] # arg[t].cb
      BY <2>i DEF PlaceInv, NotYetPlaced, Fresh
    <3>2. \/ j \in DOMAIN m_cbs[v] /\ m_cbs'[v][j] = m_cbs[v][j]
          \/ /\ AddInsert(t)
             /\ v = arg[t].var /\ j = s_fun_id[type[v]] /\ m_cbs'[v][j] = arg[t].cb
      BY <1>1, ListsMove
    <3>3. \/ k \in DOMAIN m_cbs[w] /\ m_cbs'[w][k] = m_cbs[w][k]
          \/ /\ AddInsert(t)
             /\ w = arg[t].var /\ k = s_fun_id[type[w]] /\ m_cbs'[w][k] = arg[t].cb
      BY <1>1, ListsMove
    <3> QED
      BY <2>1, <3>1, <3>2, <3>3 DEF PlaceInv, PlacedOnce
  <2>2. ASSUME NEW u \in Threads, NEW w \in Threads, Offered(u)', Offered(w)',
               arg'[u].cb = arg'[w].cb
        PROVE  u = w
    <3>1. ASSUME NEW x \in Threads, x # t, Offered(x)' PROVE Offered(x) /\ arg'[x] = arg[x]
      BY <2>m, <3>1 DEF Offered
    <3> QED
      BY <2>2, <2>c, <2>n, <3>1 DEF PlaceInv, PlacedOnce
  <2>3. ASSUME NEW l \in Listeners \ used' PROVE Fresh(l)'
    <3>1. l \in Listeners \ used
      BY <2>w
    <3>2. ~(AddInsert(t) /\ arg[t].cb = l)
      BY <2>c, <2>i, <3>1
    <3> QED
      BY <1>1, <3>1, <3>2, FreshStays DEF PlaceInv, NotYetPlaced
  <2>4. ASSUME NEW u \in Threads, Offered(u)' PROVE Fresh(arg[u].cb)'
    <3>1. arg'[u].cb \in Listeners /\ Fresh(arg'[u].cb) /\ ~(AddInsert(t) /\ arg[t].cb = arg'[u].cb)
      <4>1. CASE u # t
        <5>1. Offered(u) /\ arg'[u] = arg[u]
          BY <2>m, <2>4, <4>1 DEF Offered
        <5>2. ~(AddInsert(t) /\ arg[t].cb = arg[u].cb)
          BY <2>i, <4>1, <5>1 DEF PlaceInv, PlacedOnce
        <5> QED
          BY <2>c, <2>u, <5>1, <5>2 DEF PlaceInv, NotYetPlaced
      <4>2. CASE u = t
        BY <2>c, <2>u, <2>i, <2>n, <2>4, <4>2 DEF PlaceInv, NotYetPlaced
      <4> QED
        BY <4>1, <4>2
    <3>2. PICK l \in Listeners : l = arg'[u].cb
      BY <3>1
    <3>3. Fresh(l)'
      BY <1>1, <3>1, <3>2, FreshStays
    <3> QED
      BY <3>2, <3>3 DEF Fresh
  <2>5. PlacedOnce'
    BY <2>1, <2>2 DEF PlacedOnce
  <2>6. NotYetPlaced'
    BY <2>3, <2>4 DEF NotYetPlaced, Fresh
  <2> QED
    BY <2>5, <2>6 DEF PlaceInv
<1> QED
  BY <1>u, <1>1 DEF Next, Rest

-----------------------------------------------------------------------------
(* SetInv: what the listeners were told, if a single thread sets variables. *)

LEMMA SetInvInit == ConfigAssumption /\ Init => SetInv
BY DEF Init, SetInv, ListenersInStep, Setting, Told, Ahead

(* A list gains only listeners that have been told nothing.                 *)
LEMMA GainsUnheard ==
    ASSUME ConfigAssumption, TableInv, RoundInv, CallInv, PlaceInv,
           NEW t \in Threads, Begin(t) \/ Continue(t), ~Notify(t),
           NEW v \in Vars, NEW k \in DOMAIN m_cbs'[v]
    PROVE  \/ heard'[m_cbs'[v][k]] = None
           \/ /\ k \in DOMAIN m_cbs[v] /\ m_cbs'[v][k] = m_cbs[v][k]
              /\ heard'[m_cbs'[v][k]] = heard[m_cbs[v][k]]
<1>1. CASE k \in DOMAIN m_cbs[v] /\ m_cbs'[v][k] = m_cbs[v][k]
  <2>1. m_cbs[v][k] \in Listeners
    BY <1>1 DEF CallInv, TypeOK
  <2> QED
    BY <1>1, <2>1, HeardMoves
<1>2. CASE AddInsert(t) /\ m_cbs'[v][k] = arg[t].cb
  <2>1. Offered(t) /\ arg[t].cb \in Listeners
    BY <1>2 DEF AddInsert, Offered, CallInv, TypeOK, InCalls, InCall, Adding
  <2>2. heard[arg[t].cb] = None
    BY <2>1 DEF PlaceInv, NotYetPlaced, Fresh
  <2> QED
    BY <1>2, <2>1, <2>2, HeardMoves
<1> QED
  BY <1>1, <1>2, ListsMove

(* The one that sets is alone.                                              *)
LEMMA SetsAlone ==
    ASSUME OneSetter, CallInv, NEW t \in Threads, NEW u \in Threads,
           pc[t] \in Changing, pc[u] \in Changing
    PROVE  t = u
BY DEF OneSetter, CallInv, InCalls, InCall

LEMMA ToldStep ==
    ASSUME ConfigAssumption, OneSetter, TableInv, RoundInv, CallInv, PlaceInv, SetInv, [Next]_vars
    PROVE  \A u \in Threads : Told(u)'
<1> SUFFICES ASSUME NEW u \in Threads PROVE Told(u)'
  OBVIOUS
<1>t. Told(u)
  BY DEF SetInv
<1>v. pc[u] \in Changing => arg[u].var \in Vars
  BY DEF RoundInv, Locked, Changing
<1>u. CASE UNCHANGED vars
  BY <1>t, <1>u DEF vars, callVars, cbsVars, valVars, Told
<1>1. ASSUME NEW t \in Threads, Begin(t) \/ Continue(t), t # u PROVE Told(u)'
  <2>1. pc'[u] = pc[u] /\ arg'[u] = arg[u]
    BY <1>1, Moves DEF OthersStay
  <2>2. CASE pc[u] \notin {"notify", "assign"}
    BY <2>1, <2>2 DEF Told
  <2>3. CASE pc[u] \in {"notify", "assign"}
    <3>1. ~Notify(t)
      BY <1>1, <2>3, SetsAlone DEF Notify, Changing
    <3>2. \A k \in DOMAIN m_cbs'[arg[u].var] :
             \/ heard'[m_cbs'[arg[u].var][k]] = None
             \/ /\ k \in DOMAIN m_cbs[arg[u].var]
                /\ m_cbs'[arg[u].var][k] = m_cbs[arg[u].var][k]
                /\ heard'[m_cbs'[arg[u].var][k]] = heard[m_cbs[arg[u].var][k]]
      BY <1>1, <1>v, <2>3, <3>1, GainsUnheard DEF Changing
    <3> QED
      BY <1>t, <2>1, <3>2 DEF Told
  <2> QED
    BY <2>2, <2>3
<1>2. CASE Begin(u) \/ Continue(u)
  <2>1. ASSUME SetBegin(u), pc'[u] = "notify" PROVE Told(u)'
    <3>1. pc[u] = "set" /\ UNCHANGED <<arg, m_cbs>> /\ arg[u].var \in Vars
      BY <1>v, <2>1 DEF SetBegin, cbsVars, Changing
    <3>2. arg[u].at = 0 /\ DOMAIN m_cbs[arg[u].var] \subseteq Nat \ {0}
      BY <3>1 DEF CallInv, InCalls, InCall, TypeOK
    <3>3. \A k \in DOMAIN m_cbs'[arg'[u].var] : ~(k <= arg'[u].at)
      BY <3>1, <3>2
    <3> QED
      BY <2>1, <3>3 DEF Told
  <2>2. ASSUME Notify(u), pc[u] = pc'[u] PROVE Told(u)'
    <3> DEFINE v == arg[u].var
    <3>1. pc[u] = "notify" /\ UNCHANGED m_cbs /\ v \in Vars
      BY <1>v, <2>2 DEF Notify, cbsVars, Changing
    <3>2. PICK k \in DOMAIN m_cbs[v] :
             /\ \A j \in DOMAIN m_cbs[v] : j <= k => j <= arg[u].at \/ j = k
             /\ heard' = [heard EXCEPT ![m_cbs[v][k]] = arg[u].val]
             /\ arg' = [arg EXCEPT ![u] = [arg[u] EXCEPT !.at = k]] \/ Finish(u)
      BY <2>2, NotifyDoes
    <3>3. ~Finish(u)
      BY <2>2, <3>1, CallEnds DEF RoundInv
    <3>4. arg'[u] = [arg[u] EXCEPT !.at = k]
      BY <3>2, <3>3 DEF RoundInv, CallTypes
    <3>5. arg'[u].var = v /\ arg'[u].val = arg[u].val /\ arg'[u].at = k
      BY <3>4 DEF CallInv, TypeOK, Arg
    <3>6. ASSUME NEW j \in DOMAIN m_cbs[v], j <= k
          PROVE  heard'[m_cbs[v][j]] \in {None, arg[u].val}
      <4>1. heard \in [Listeners -> Values \cup {None}] /\ m_cbs[v][k] \in Listeners
        BY <3>1 DEF CallInv, TypeOK
      <4>2. CASE j = k
        BY <3>2, <4>1, <4>2
      <4>3. CASE j <= arg[u].at
        BY <1>t, <3>1, <3>2, <4>1, <4>3 DEF Told
      <4> QED
        BY <3>2, <3>6, <4>2, <4>3
    <3> QED
      BY <2>2, <3>1, <3>5, <3>6 DEF Told
  <2>3. ASSUME NotifyEnd(u), pc'[u] = "assign" PROVE Told(u)'
    <3>1. /\ pc[u] = "notify" /\ UNCHANGED <<arg, m_cbs, heard>>
          /\ Ahead(arg[u].var, arg[u].at) = {}
      BY <2>3 DEF NotifyEnd, cbsVars, valVars
    <3>2. arg[u].at \in Nat /\ DOMAIN m_cbs[arg[u].var] \subseteq Nat
      BY <1>v, <3>1 DEF CallInv, TypeOK, Arg, Changing
    <3>3. \A k \in DOMAIN m_cbs[arg[u].var] : k <= arg[u].at
      BY <3>1, <3>2 DEF Ahead
    <3> QED
      BY <1>t, <2>3, <3>1, <3>3 DEF Told
  <2>4. CASE pc'[u] \notin {"notify", "assign"}
    BY <2>4 DEF Told
  <2> QED
    BY <1>2, <2>1, <2>2, <2>3, <2>4, Moves
<1> QED
  BY <1>u, <1>1, <1>2 DEF Next, Rest

(* A round is over with its assignment or a throw only.                     *)
LEMMA SettingStays ==
    ASSUME ConfigAssumption, TableInv, RoundInv, CallInv,
           NEW t \in Threads, Begin(t) \/ Continue(t),
           NEW v \in Vars, Setting(v),
           Notify(t) \/ Assign(t) => arg[t].var # v
    PROVE  Setting(v)'
<1>1. PICK u \in Threads : arg[u].var = v /\ pc[u] \in {"notify", "assign"}
  BY DEF Setting
<1>2. CASE u # t
  <2>1. pc'[u] = pc[u] /\ arg'[u] = arg[u]
    BY <1>2, Moves DEF OthersStay
  <2> QED
    BY <1>1, <2>1 DEF Setting
<1>3. CASE u = t
  <2>1. NotifyEnd(t)
    BY <1>1, <1>3 DEF Begin, Continue, Lookup, LookupOnly, Visit, Load, Set, AddListener,
       DelListener, ClearListener, Calls, CallsBriefly, LookupFound, LookupCreate, VisitOne,
       VisitEnd, LoadNode, SetSame, SetBegin, Notify, Assign, AddCount, AddInsert, AddReturn
  <2>2. pc'[t] = "assign" /\ arg'[t] = arg[t]
    BY <2>1, CallGoes DEF NotifyEnd, RoundInv, Label
  <2> QED
    BY <1>1, <1>3, <2>2 DEF Setting
<1> QED
  BY <1>2, <1>3

LEMMA InStepStep ==
    ASSUME ConfigAssumption, OneSetter, TableInv, RoundInv, CallInv, PlaceInv, SetInv, [Next]_vars
    PROVE  ListenersInStep'
<1>t. /\ ListenersInStep
      /\ m_val \in [Vars -> Values] /\ heard \in [Listeners -> Values \cup {None}]
      /\ torn \subseteq Vars
  BY DEF SetInv, CallInv, TypeOK
<1>u. CASE UNCHANGED vars
  BY <1>t, <1>u DEF vars, callVars, cbsVars, valVars, ListenersInStep, Setting
<1>1. ASSUME NEW t \in Threads, Begin(t) \/ Continue(t) PROVE ListenersInStep'
  <2> SUFFICES ASSUME NEW v \in Vars, v \notin torn', ~Setting(v)', NEW k \in DOMAIN m_cbs'[v]
               PROVE  heard'[m_cbs'[v][k]] \in {None, m_val'[v]}
    BY DEF ListenersInStep
  <2>1. CASE Notify(t)
    <3>1. PICK i \in DOMAIN m_cbs[arg[t].var] :
             /\ heard' = [heard EXCEPT ![m_cbs[arg[t].var][i]] = arg[t].val]
             /\ \/ /\ arg' = [arg EXCEPT ![t] = [arg[t] EXCEPT !.at = i]]
                   /\ UNCHANGED <<torn, readers, pc>>
                \/ torn' = torn \cup {arg[t].var}
      BY <2>1, NotifyDoes
    <3>2. pc[t] = "notify" /\ UNCHANGED <<m_cbs, m_val>> /\ arg[t].var \in Vars
      BY <2>1 DEF Notify, cbsVars, RoundInv, Locked
    <3>3. arg[t].var # v
      <4>1. ASSUME arg' = [arg EXCEPT ![t] = [arg[t] EXCEPT !.at = i]], UNCHANGED pc
            PROVE  Setting(arg[t].var)'
        <5>1. arg'[t] = [arg[t] EXCEPT !.at = i]
          BY <4>1 DEF RoundInv, CallTypes
        <5>2. arg'[t].var = arg[t].var
          BY <5>1
        <5>3. PICK w \in Vars : w = arg[t].var
          BY <3>2
        <5>4. Setting(w)'
          BY <3>2, <4>1, <5>2, <5>3 DEF Setting
        <5> QED
          BY <5>2, <5>3, <5>4 DEF Setting
      <4>2. CASE arg[t].var = v
        <5>1. torn' # torn \cup {v}
          BY <1>1
        <5>2. arg' = [arg EXCEPT ![t] = [arg[t] EXCEPT !.at = i]] /\ UNCHANGED pc
          BY <3>1, <4>2, <5>1
        <5>3. arg'[t] = [arg[t] EXCEPT !.at = i]
          BY <5>2 DEF RoundInv, CallTypes
        <5>4. arg'[t].var = v
          BY <4>2, <5>3
        <5> QED
          BY <3>2, <5>2, <5>4 DEF Setting
      <4> QED
        BY <4>2
    <3>4. ~Setting(v)
      BY <1>1, <3>3, SettingStays DEF Notify, Assign
    <3>5. v \notin torn
      BY <3>1
    <3>6. m_cbs[v][k] # m_cbs[arg[t].var][i]
      BY <3>2, <3>3 DEF PlaceInv, PlacedOnce
    <3>7. heard'[m_cbs[v][k]] = heard[m_cbs[v][k]]
      BY <1>t, <3>1, <3>2, <3>6 DEF CallInv, TypeOK
    <3> QED
      BY <1>t, <3>2, <3>4, <3>5, <3>7 DEF ListenersInStep
  <2>2. CASE Assign(t)
    <3>1. /\ pc[t] = "assign" /\ arg[t].var \in Vars /\ UNCHANGED <<m_cbs, heard>>
          /\ m_val' = [m_val EXCEPT ![arg[t].var] = arg[t].val]
          /\ torn' = torn \ {arg[t].var}
      BY <2>2 DEF Assign, Store, cbsVars, RoundInv, Locked
    <3>2. CASE arg[t].var = v
      BY <1>t, <3>1, <3>2 DEF SetInv, Told
    <3>3. CASE arg[t].var # v
      <4>1. ~Setting(v)
        BY <1>1, <3>3, SettingStays
      <4> QED
        BY <1>t, <3>1, <3>3, <4>1 DEF ListenersInStep
    <3> QED
      BY <3>2, <3>3
  <2>3. CASE ~Notify(t) /\ ~Assign(t)
    <3>1. UNCHANGED <<m_val, torn>>
      BY <1>1, <2>3, ValueSteps DEF valVars
    <3>2. ~Setting(v)
      BY <1>1, <2>3, SettingStays
    <3>3. \/ heard'[m_cbs'[v][k]] = None
          \/ /\ k \in DOMAIN m_cbs[v]
             /\ heard'[m_cbs'[v][k]] = heard[m_cbs[v][k]]
      BY <1>1, <2>3, GainsUnheard
    <3> QED
      BY <1>t, <3>1, <3>2, <3>3 DEF ListenersInStep
  <2> QED
    BY <2>1, <2>2, <2>3
<1> QED
  BY <1>u, <1>1 DEF Next, Rest

(* The inductive invariant: what a thread in a call knows, where it holds a *)
(* lock and where it does not (config.h:369-457, config.cc:14-63).          *)
THEOREM InvariantHolds == Spec => []IInv
<1>1. ConfigAssumption /\ Init => PlaceInv /\ (OneSetter => SetInv)
  BY PlaceInvInit, SetInvInit
<1>2. ConfigAssumption /\ TableInv /\ RoundInv /\ CallInv /\ PlaceInv /\ (OneSetter => SetInv)
         /\ [Next]_vars
         => PlaceInv' /\ (OneSetter => SetInv)'
  BY PlaceInvStep, ToldStep, InStepStep DEF SetInv, OneSetter
<1>3. TableInv /\ RoundInv /\ CallInv /\ KeyInv /\ PlaceInv /\ (OneSetter => SetInv) => IInv
  BY DEF IInv
<1> QED
  BY ConfigAssumption, CallsHold, KeyInvHolds, <1>1, <1>2, <1>3, PTL DEF Spec

(* A listener that was told of a value knows the one its variable has, when *)
(* no setValue is under way and none ended in a throw, whatever other       *)
(* threads add, delete and look up meanwhile (config.h:369-411), if a       *)
(* single thread sets variables.                                            *)
THEOREM ListenersStayInStep ==
    ASSUME OneSetter
    PROVE  Spec => []ListenersInStep
<1>1. IInv => ListenersInStep
  BY DEF IInv, SetInv
<1> QED
  BY <1>1, InvariantHolds, PTL
=============================================================================
