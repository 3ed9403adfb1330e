-------------------------- MODULE FutureProxyProofs --------------------------
(***************************************************************************)
(* Proofs about FutureProxy, for any number of calls, hosts and changes of *)
(* strategy.                                                               *)
(***************************************************************************)
EXTENDS FutureProxy, Integers, FiniteSetTheorems, TLAPS

-----------------------------------------------------------------------------
(* The inductive invariant.                                                *)

Past(c) == pc[c] \notin {"new", "size", "done"}

\* A call that found the list not empty has a host, or one that is just being
\* pushed: the update_mu it takes to select waits for that.
HostInv == (\E c \in Call : Past(c)) => hosts > 0 \/ pushing

\* How often the strategy has changed when a test of it fails.
StrategyInv ==
    /\ changes = 0 => lbs = "RoundRobin"
    /\ \A c \in Call :
         /\ pc[c] = "RANDOM" => changes > 0
         /\ pc[c] = "RANDOM" /\ changes = 1 => lbs # "RoundRobin"
         /\ pc[c] = "HASH" => changes > 0
         /\ pc[c] = "HASH" /\ changes = 1 => lbs = "HASH"

\* A call that is about to use its client has one, or was selected by RANDOM,
\* or the strategy changed while it was testing.
ClientInv ==
    \A c \in Call : pc[c] \in {"check", "lock", "connect"} =>
        \/ rpcClient[c] # none
        \/ pc[c] = "check" /\ (by[c] = "RANDOM" \/ changes >= 2)

\* A push has room.
RoomInv == pushing => hosts < MaxHosts

Inv == RoomInv /\ HostInv /\ StrategyInv /\ ClientInv /\ CrashOnlyByStrategy

-----------------------------------------------------------------------------
(* Type correctness.                                                       *)

\* The first state has the types.
LEMMA TypeInit == Init => TypeOK
<1> SUFFICES ASSUME Init PROVE TypeOK
  OBVIOUS
<1> USE ConstantsAssumption DEF Init
<1>1. hosts \in 0 .. MaxHosts /\ connected \subseteq 0 .. hosts - 1
  OBVIOUS
<1>2. /\ pushing \in BOOLEAN /\ connect_mu \in Call \cup {none}
      /\ lbs \in LBStrategy /\ crashed \in BOOLEAN
  BY DEF LBStrategy
<1>6. changes \in 0 .. MaxChanges /\ request_id \in Nat
  OBVIOUS
<1>3. pc \in [Call -> Steps] /\ future \in [Call -> Ready \cup {none}]
  BY DEF Steps
<1>4. /\ curReqId \in [Call -> Nat]
      /\ by \in [Call -> LBStrategy \cup {none}]
      /\ of \in [Call -> 0 .. hosts]
      /\ rpcClient \in [Call -> 0 .. hosts - 1 \cup {none}]
  OBVIOUS
<1>5. Dispatcher!TypeOK
  BY DEF Dispatcher!Init, Dispatcher!TypeOK, Dispatcher!Status
<1> QED BY <1>1, <1>2, <1>3, <1>4, <1>5, <1>6 DEF TypeOK

\* Selecting by a key keeps the types: the key is reduced to an index.
LEMMA ByKeyType ==
  ASSUME TypeOK, NEW c \in Call, NEW key \in Nat, ByKey(c, key) PROVE TypeOK'
<1> USE ConstantsAssumption DEF TypeOK, Goto, Local, program
<1>1. CASE hosts = 0
  BY <1>1 DEF ByKey, Dispatcher!TypeOK
<1>2. CASE hosts # 0
  <2>1. key % hosts \in 0 .. hosts - 1 /\ hosts \in 0 .. hosts
    BY <1>2
  <2>2. Selected(c, key % hosts, hosts) /\ UNCHANGED crashed
    BY <1>2 DEF ByKey
  <2>3. pc' \in [Call -> Steps]
    BY <2>2 DEF Selected, Steps
  <2>4. /\ of' \in [Call -> 0 .. hosts]
        /\ rpcClient' \in [Call -> 0 .. hosts - 1 \cup {none}]
    BY <2>1, <2>2 DEF Selected
  <2> QED BY <2>2, <2>3, <2>4 DEF ByKey, Dispatcher!TypeOK
<1> QED BY <1>1, <1>2

\* Every step keeps the types, given that a push has room and that a call that
\* connects has a client.
LEMMA TypeStep == TypeOK /\ RoomInv /\ ClientInv /\ [Next]_vars => TypeOK'
<1> SUFFICES ASSUME TypeOK, RoomInv, ClientInv, [Next]_vars PROVE TypeOK'
  OBVIOUS
<1> USE ConstantsAssumption DEF TypeOK, Goto, End, Local, program, selection, At
<1>1. ASSUME NEW l \in LBStrategy, setLBStrategy(l) PROVE TypeOK'
  <2>1. changes' \in 0 .. MaxChanges
    BY <1>1 DEF setLBStrategy
  <2> QED BY <1>1, <2>1 DEF setLBStrategy, Dispatcher!TypeOK
<1>2. ASSUME addRemoteHost PROVE TypeOK'
  BY <1>2 DEF addRemoteHost, LBStrategy, Steps, Ready, Dispatcher!TypeOK,
     Dispatcher!Status, Dispatcher!Endings
<1>3. ASSUME Push PROVE TypeOK'
  <2>1. /\ hosts' \in 0 .. MaxHosts /\ 0 .. hosts \subseteq 0 .. hosts'
        /\ 0 .. hosts - 1 \subseteq 0 .. hosts' - 1
    <3>1. hosts \in Nat /\ hosts < MaxHosts /\ hosts' = hosts + 1
      BY <1>3 DEF Push, RoomInv
    <3> QED BY <3>1
  <2>2. /\ connected' \subseteq 0 .. hosts' - 1
        /\ of' \in [Call -> 0 .. hosts']
        /\ rpcClient' \in [Call -> 0 .. hosts' - 1 \cup {none}]
    BY <1>3, <2>1 DEF Push
  <2> QED BY <1>3, <2>1, <2>2 DEF Push, Dispatcher!TypeOK
<1>4. ASSUME NEW h \in 0 .. MaxHosts - 1, ConnectSuccess(h) PROVE TypeOK'
  BY <1>4 DEF ConnectSuccess, LBStrategy, Steps, Ready, Dispatcher!TypeOK,
     Dispatcher!Status, Dispatcher!Endings
<1>5. ASSUME NEW c \in Call, Enter(c) PROVE TypeOK'
  BY <1>5 DEF Enter, LBStrategy, Steps, Ready, Dispatcher!TypeOK,
     Dispatcher!Status, Dispatcher!Endings
<1>6. ASSUME NEW c \in Call, FindMethod(c) PROVE TypeOK'
  BY <1>6 DEF FindMethod, LBStrategy, Steps, Ready, Dispatcher!TypeOK,
     Dispatcher!Status, Dispatcher!Endings
<1>7. ASSUME NEW c \in Call, CheckHosts(c) PROVE TypeOK'
  BY <1>7 DEF CheckHosts, LBStrategy, Steps, Ready, Dispatcher!TypeOK,
     Dispatcher!Status, Dispatcher!Endings
<1>8. ASSUME NEW c \in Call, DrawId(c) PROVE TypeOK'
  <2>1. /\ curReqId' \in [Call -> Nat] /\ request_id' \in Nat
    BY <1>8 DEF DrawId
  <2>2. pc' \in [Call -> Steps]
    BY <1>8 DEF DrawId, Steps
  <2> QED BY <1>8, <2>1, <2>2 DEF DrawId, Dispatcher!TypeOK
<1>9. ASSUME NEW c \in Call, TestRoundRobin(c) PROVE TypeOK'
  BY <1>9 DEF TestRoundRobin, TestStrategy, LBStrategy, Steps, Ready,
     Dispatcher!TypeOK, Dispatcher!Status, Dispatcher!Endings
<1>10. ASSUME NEW c \in Call, TestRANDOM(c) PROVE TypeOK'
  BY <1>10 DEF TestRANDOM, TestStrategy, LBStrategy, Steps, Ready,
     Dispatcher!TypeOK, Dispatcher!Status, Dispatcher!Endings
<1>11. ASSUME NEW c \in Call, TestHASH(c) PROVE TypeOK'
  BY <1>11 DEF TestHASH, TestStrategy, LBStrategy, Steps, Ready,
     Dispatcher!TypeOK, Dispatcher!Status, Dispatcher!Endings
<1>12. ASSUME NEW c \in Call, RoundRobin_Select(c) PROVE TypeOK'
  <2>1. curReqId[c] \in Nat /\ ByKey(c, curReqId[c])
    BY <1>12 DEF RoundRobin_Select
  <2> QED BY <1>12, <2>1, ByKeyType
<1>13. ASSUME NEW c \in Call, Hash_Select(c) PROVE TypeOK'
  <2>1. hashCode[c] \in Nat /\ ByKey(c, hashCode[c])
    BY <1>13 DEF Hash_Select
  <2> QED BY <1>13, <2>1, ByKeyType
<1>14. ASSUME NEW c \in Call, Random_Select(c) PROVE TypeOK'
  <2>1. pc' \in [Call -> Steps]
    BY <1>14 DEF Random_Select, Selected, Steps
  <2>2. /\ of' \in [Call -> 0 .. hosts]
        /\ rpcClient' \in [Call -> 0 .. hosts - 1 \cup {none}]
    <3>1. 0 \in 0 .. hosts
      OBVIOUS
    <3> QED BY <1>14, <3>1 DEF Random_Select, Selected
  <2> QED BY <1>14, <2>1, <2>2 DEF Random_Select, Dispatcher!TypeOK
<1>15. ASSUME NEW c \in Call, CheckConnected(c) PROVE TypeOK'
  BY <1>15 DEF CheckConnected, LBStrategy, Steps, Ready, Dispatcher!TypeOK,
     Dispatcher!Status, Dispatcher!Endings
<1>16. ASSUME NEW c \in Call, Lock(c) PROVE TypeOK'
  BY <1>16 DEF Lock, LBStrategy, Steps, Ready, Dispatcher!TypeOK,
     Dispatcher!Status, Dispatcher!Endings
<1>17. ASSUME NEW c \in Call, Connect(c) PROVE TypeOK'
  <2>1. rpcClient[c] \in 0 .. hosts - 1
    BY <1>17 DEF Connect, ClientInv
  <2>2. connected' \subseteq 0 .. hosts - 1 /\ connect_mu' = none
    BY <1>17, <2>1 DEF Connect
  <2>3. pc' \in [Call -> Steps] /\ future' \in [Call -> Ready \cup {none}]
    BY <1>17 DEF Connect, Steps, Ready
  <2> QED BY <1>17, <2>2, <2>3 DEF Connect, Dispatcher!TypeOK
<1>18. ASSUME NEW c \in Call, Dispatch(c) PROVE TypeOK'
  BY <1>18 DEF Dispatch, Dispatcher!Open, LBStrategy, Steps, Ready,
     Dispatcher!TypeOK, Dispatcher!Status, Dispatcher!Endings
<1>19. ASSUME NEW c \in Call, Continuation(c) PROVE TypeOK'
  <2>1. \A e \in Error(c) : e \in Ready
    BY DEF Error, Ready
  <2>2. pc' \in [Call -> Steps] /\ future' \in [Call -> Ready \cup {none}]
    BY <1>19, <2>1 DEF Continuation, Steps
  <2> QED BY <1>19, <2>2 DEF Continuation, Dispatcher!TypeOK
<1>20. ASSUME NEW c \in Call, Execute(c) PROVE TypeOK'
  BY <1>20 DEF Execute, Dispatcher!Execute, LBStrategy, Steps, Ready,
     Dispatcher!TypeOK, Dispatcher!Status, Dispatcher!Endings
<1>21. ASSUME NEW c \in Call, Settle(c) PROVE TypeOK'
  BY <1>21 DEF Settle, Dispatcher!Answer, Dispatcher!Refuse,
     Dispatcher!Expire, Dispatcher!End, LBStrategy, Steps, Ready,
     Dispatcher!TypeOK, Dispatcher!Status, Dispatcher!Endings
<1>22. CASE UNCHANGED vars
  BY <1>22 DEF vars, Dispatcher!TypeOK
<1> QED BY <1>1, <1>2, <1>3, <1>4, <1>5, <1>6, <1>7, <1>8, <1>9, <1>10, <1>11,
           <1>12, <1>13, <1>14, <1>15, <1>16, <1>17, <1>18, <1>19, <1>20,
           <1>21, <1>22 DEF Next, CallMethod

-----------------------------------------------------------------------------
(* The invariant and the theorem.                                          *)

\* The invariant holds in the first state.
LEMMA InvInit == Init => Inv
BY ConstantsAssumption, TypeInit DEF Init, Inv, RoomInv, HostInv, Past,
   StrategyInv, ClientInv, CrashOnlyByStrategy

\* Selecting by a key divides by a number of hosts that is not 0: the call found
\* a host, or a push, which update_mu makes it wait for.
LEMMA ByKeyInv ==
  ASSUME Inv, NEW c \in Call, NEW key \in Nat, pc[c] = "select",
         ~crashed, ByKey(c, key)
  PROVE  Inv'
<1> USE ConstantsAssumption DEF Goto, Local, program
<1>1. hosts \in Nat \ {0}
  BY DEF Inv, CrashOnlyByStrategy, TypeOK, HostInv, Past, ByKey
<1>2. key % hosts \in Nat
  BY <1>1
<1>3. Selected(c, key % hosts, hosts) /\ UNCHANGED crashed
  BY <1>1 DEF ByKey
<1>4. /\ pc' = [pc EXCEPT ![c] = "check"]
      /\ rpcClient' = [rpcClient EXCEPT ![c] = key % hosts]
      /\ UNCHANGED <<program, by, crashed>>
  BY <1>3 DEF Selected, ByKey
<1>5. TypeOK /\ TypeOK'
  BY ByKeyType DEF Inv, CrashOnlyByStrategy
<1>6. RoomInv' /\ HostInv' /\ StrategyInv'
  BY <1>4, <1>5 DEF Inv, RoomInv, HostInv, Past, StrategyInv, TypeOK
<1>7. ClientInv'
  BY <1>2, <1>4, <1>5 DEF Inv, ClientInv, TypeOK
<1>8. CrashOnlyByStrategy'
  BY <1>4, <1>5 DEF CrashOnlyByStrategy
<1> QED BY <1>6, <1>7, <1>8 DEF Inv

\* Every step keeps the invariant.
LEMMA InvStep == Inv /\ [Next]_vars => Inv'
<1> SUFFICES ASSUME Inv, [Next]_vars PROVE Inv'
  OBVIOUS
<1>0. TypeOK /\ TypeOK'
  BY TypeStep DEF Inv, CrashOnlyByStrategy
<1> USE ConstantsAssumption, <1>0 DEF Goto, End, Local, program, selection, At
<1>1. ASSUME NEW l \in LBStrategy, setLBStrategy(l) PROVE Inv'
  BY <1>1 DEF setLBStrategy, Inv, RoomInv, HostInv, Past, StrategyInv,
     ClientInv, CrashOnlyByStrategy, TypeOK, LBStrategy
<1>2. ASSUME addRemoteHost PROVE Inv'
  BY <1>2 DEF addRemoteHost, Inv, RoomInv, HostInv, Past, StrategyInv,
     ClientInv, CrashOnlyByStrategy, TypeOK, LBStrategy
<1>3. ASSUME Push PROVE Inv'
  BY <1>3 DEF Push, Inv, RoomInv, HostInv, Past, StrategyInv, ClientInv,
     CrashOnlyByStrategy, TypeOK, LBStrategy
<1>4. ASSUME NEW h \in 0 .. MaxHosts - 1, ConnectSuccess(h) PROVE Inv'
  BY <1>4 DEF ConnectSuccess, Inv, RoomInv, HostInv, Past, StrategyInv,
     ClientInv, CrashOnlyByStrategy, TypeOK, LBStrategy
<1>5. ASSUME NEW c \in Call, Enter(c) PROVE Inv'
  BY <1>5 DEF Enter, Inv, RoomInv, HostInv, Past, StrategyInv, ClientInv,
     CrashOnlyByStrategy, TypeOK, LBStrategy
<1>6. ASSUME NEW c \in Call, FindMethod(c) PROVE Inv'
  BY <1>6 DEF FindMethod, Inv, RoomInv, HostInv, Past, StrategyInv, ClientInv,
     CrashOnlyByStrategy, TypeOK, LBStrategy
<1>7. ASSUME NEW c \in Call, CheckHosts(c) PROVE Inv'
  BY <1>7 DEF CheckHosts, Inv, RoomInv, HostInv, Past, StrategyInv, ClientInv,
     CrashOnlyByStrategy, TypeOK, LBStrategy
<1>8. ASSUME NEW c \in Call, DrawId(c) PROVE Inv'
  BY <1>8 DEF DrawId, Inv, RoomInv, HostInv, Past, StrategyInv, ClientInv,
     CrashOnlyByStrategy, TypeOK, LBStrategy
<1>9. ASSUME NEW c \in Call, TestRoundRobin(c) PROVE Inv'
  BY <1>9 DEF TestRoundRobin, TestStrategy, Inv, RoomInv, HostInv, Past,
     StrategyInv, ClientInv, CrashOnlyByStrategy, TypeOK, LBStrategy
<1>10. ASSUME NEW c \in Call, TestRANDOM(c) PROVE Inv'
  BY <1>10 DEF TestRANDOM, TestStrategy, Inv, RoomInv, HostInv, Past,
     StrategyInv, ClientInv, CrashOnlyByStrategy, TypeOK, LBStrategy
<1>11. ASSUME NEW c \in Call, TestHASH(c) PROVE Inv'
  BY <1>11 DEF TestHASH, TestStrategy, Inv, RoomInv, HostInv, Past,
     StrategyInv, ClientInv, CrashOnlyByStrategy, TypeOK, LBStrategy
<1>12. ASSUME NEW c \in Call, RoundRobin_Select(c) PROVE Inv'
  <2>1. /\ curReqId[c] \in Nat /\ pc[c] = "select" /\ ~crashed
        /\ ByKey(c, curReqId[c])
    BY <1>12 DEF RoundRobin_Select, TypeOK
  <2> QED BY <2>1, ByKeyInv
<1>13. ASSUME NEW c \in Call, Hash_Select(c) PROVE Inv'
  <2>1. /\ hashCode[c] \in Nat /\ pc[c] = "select" /\ ~crashed
        /\ ByKey(c, hashCode[c])
    BY <1>13 DEF Hash_Select, TypeOK
  <2> QED BY <2>1, ByKeyInv
<1>14. ASSUME NEW c \in Call, Random_Select(c) PROVE Inv'
  BY <1>14 DEF Random_Select, Selected, Inv, RoomInv, HostInv, Past,
     StrategyInv, ClientInv, CrashOnlyByStrategy, TypeOK, LBStrategy
<1>15. ASSUME NEW c \in Call, CheckConnected(c) PROVE Inv'
  BY <1>15 DEF CheckConnected, Inv, RoomInv, HostInv, Past, StrategyInv,
     ClientInv, CrashOnlyByStrategy, TypeOK, LBStrategy
<1>16. ASSUME NEW c \in Call, Lock(c) PROVE Inv'
  BY <1>16 DEF Lock, Inv, RoomInv, HostInv, Past, StrategyInv, ClientInv,
     CrashOnlyByStrategy, TypeOK, LBStrategy
<1>17. ASSUME NEW c \in Call, Connect(c) PROVE Inv'
  BY <1>17 DEF Connect, Inv, RoomInv, HostInv, Past, StrategyInv, ClientInv,
     CrashOnlyByStrategy, TypeOK, LBStrategy
<1>18. ASSUME NEW c \in Call, Dispatch(c) PROVE Inv'
  BY <1>18 DEF Dispatch, Inv, RoomInv, HostInv, Past, StrategyInv, ClientInv,
     CrashOnlyByStrategy, TypeOK, LBStrategy
<1>19. ASSUME NEW c \in Call, Continuation(c) PROVE Inv'
  <2>1. /\ pc' = [pc EXCEPT ![c] = "done"]
        /\ UNCHANGED <<hosts, pushing, lbs, changes, by, rpcClient, crashed>>
    BY <1>19 DEF Continuation
  <2> QED
    BY <2>1 DEF Inv, RoomInv, HostInv, Past, StrategyInv, ClientInv,
       CrashOnlyByStrategy, TypeOK
<1>20. ASSUME NEW c \in Call, Execute(c) PROVE Inv'
  BY <1>20 DEF Execute, Inv, RoomInv, HostInv, Past, StrategyInv, ClientInv,
     CrashOnlyByStrategy, TypeOK, LBStrategy
<1>21. ASSUME NEW c \in Call, Settle(c) PROVE Inv'
  BY <1>21 DEF Settle, Inv, RoomInv, HostInv, Past, StrategyInv, ClientInv,
     CrashOnlyByStrategy, TypeOK, LBStrategy
<1>22. CASE UNCHANGED vars
  BY <1>22 DEF vars, Inv, RoomInv, HostInv, Past, StrategyInv, ClientInv,
     CrashOnlyByStrategy
<1> QED BY <1>1, <1>2, <1>3, <1>4, <1>5, <1>6, <1>7, <1>8, <1>9, <1>10, <1>11,
           <1>12, <1>13, <1>14, <1>15, <1>16, <1>17, <1>18, <1>19, <1>20,
           <1>21, <1>22 DEF Next, CallMethod

\* The list of hosts is read without its lock (futureRpcCallProxy.h:52), and yet
\* no call divides by an empty list: the program comes down only by RANDOM, or
\* when the strategy changes twice, once while a call tests it.
THEOREM CrashOnlyByStrategyAlways == Spec => []CrashOnlyByStrategy
<1>1. Inv => CrashOnlyByStrategy
  BY DEF Inv
<1> QED BY InvInit, InvStep, <1>1, PTL DEF Spec

-----------------------------------------------------------------------------
(* What a step does to a call.                                             *)

\* Before the dispatcher has the call.
Inside == Steps \ {"new", "await", "done"}

\* The ids that were drawn.
ids == <<curReqId, request_id>>

\* Call c has got from one step of CallMethod to another, without drawing an id.
Walk(c) ==
    /\ pc[c] \in Inside
    /\ \E s \in Inside :
         /\ pc' = [pc EXCEPT ![c] = s]
         /\ s \in {"size", "id"} <=> pc[c] \in {"size", "id"}
    /\ UNCHANGED <<future, dispatched, executed, ids>>

\* CallMethod of call c has ended without the dispatcher.
GiveUp(c) ==
    /\ pc[c] \in Inside
    /\ \E e \in {"thrown", "NO_METHOD", "NO_AVAILABLE_RPCHOSTS"} :
         /\ End(c, e)
         /\ e = "NO_AVAILABLE_RPCHOSTS" => hosts = 0
         /\ IF e = "thrown" THEN pc[c] \notin {"size", "id"} ELSE pc[c] = "size"
    /\ UNCHANGED <<dispatched, executed, ids>>

\* The dispatcher has got call c.
HandOver(c) ==
    /\ pc[c] = "dispatch" /\ Goto(c, "await")
    /\ Dispatcher!Open(c)
    /\ UNCHANGED <<future, ids>>

\* A step of call c, in one of these ways.
CallStep(c) ==
    \/ Enter(c) \/ DrawId(c) \/ Walk(c) \/ GiveUp(c) \/ HandOver(c)
    \/ Continuation(c) \/ Execute(c) \/ Settle(c)

\* Selecting by a key walks on, or divides by 0.
LEMMA ByKeyWalks ==
  ASSUME NEW c \in Call, NEW key, pc[c] = "select", ByKey(c, key)
  PROVE  Walk(c) \/ UNCHANGED <<pc, future, dispatched, executed, ids>>
<1> USE DEF ids, program
<1>1. CASE hosts = 0
  BY <1>1 DEF ByKey, Local
<1>2. CASE hosts # 0
  BY <1>2 DEF ByKey, Selected, Goto, Local, Walk, Inside, Steps
<1> QED BY <1>1, <1>2

\* Every step is a step of one call in one of these ways, or none that the
\* callers or the dispatchers see.
LEMMA StepIsCallStep ==
  ASSUME [Next]_vars
  PROVE  \/ \E c \in Call : CallStep(c)
         \/ UNCHANGED <<pc, future, dispatched, executed, ids>>
<1> USE DEF Goto, Local, At, ids, program, selection
<1>1. ASSUME NEW l \in LBStrategy, setLBStrategy(l)
      PROVE  UNCHANGED <<pc, future, dispatched, executed, ids>>
  BY <1>1 DEF setLBStrategy
<1>2. ASSUME addRemoteHost \/ Push
      PROVE  UNCHANGED <<pc, future, dispatched, executed, ids>>
  BY <1>2 DEF addRemoteHost, Push
<1>3. ASSUME NEW h \in 0 .. MaxHosts - 1, ConnectSuccess(h)
      PROVE  UNCHANGED <<pc, future, dispatched, executed, ids>>
  BY <1>3 DEF ConnectSuccess
<1>4. ASSUME NEW c \in Call, CallMethod(c)
      PROVE  CallStep(c) \/ UNCHANGED <<pc, future, dispatched, executed, ids>>
  <2>1. CASE FindMethod(c)
    BY <2>1 DEF FindMethod, CallStep, GiveUp, End, Inside, Steps
  <2>2. CASE CheckHosts(c)
    <3>1. CASE End(c, "NO_AVAILABLE_RPCHOSTS") /\ hosts = 0
      BY <2>2, <3>1 DEF CheckHosts, CallStep, GiveUp, End, Inside, Steps
    <3>2. CASE Goto(c, "id") /\ UNCHANGED future
      BY <2>2, <3>2 DEF CheckHosts, CallStep, Walk, Inside, Steps
    <3> QED BY <2>2, <3>1, <3>2 DEF CheckHosts
  <2>3. CASE DrawId(c)
    BY <2>3 DEF CallStep
  <2>4. ASSUME NEW l \in {"RoundRobin", "RANDOM", "HASH"},
               NEW otherwise \in {"RANDOM", "HASH", "check"},
               TestStrategy(c, l, otherwise)
        PROVE  Walk(c)
    <3>1. CASE lbs = l
      BY <2>4, <3>1 DEF TestStrategy, Walk, Inside, Steps
    <3>2. CASE lbs # l
      BY <2>4, <3>2 DEF TestStrategy, Walk, Inside, Steps
    <3> QED BY <3>1, <3>2
  <2>5. CASE TestRoundRobin(c) \/ TestRANDOM(c) \/ TestHASH(c)
    BY <2>4, <2>5 DEF TestRoundRobin, TestRANDOM, TestHASH, CallStep
  <2>6. CASE RoundRobin_Select(c)
    BY <2>6, ByKeyWalks DEF RoundRobin_Select, CallStep
  <2>7. CASE Hash_Select(c)
    BY <2>7, ByKeyWalks DEF Hash_Select, CallStep
  <2>8. CASE Random_Select(c)
    BY <2>8 DEF Random_Select, Selected, CallStep, Walk, Inside, Steps
  <2>9. CASE CheckConnected(c)
    <3>1. CASE rpcClient[c] = none
      BY <2>9, <3>1 DEF CheckConnected
    <3>2. CASE rpcClient[c] # none
      <4>1. /\ pc[c] = "check" /\ UNCHANGED <<future, dispatched, executed, ids>>
            /\ \E s \in {"dispatch", "lock"} : pc' = [pc EXCEPT ![c] = s]
        BY <2>9, <3>2 DEF CheckConnected
      <4>2. pc[c] \in Inside /\ {"dispatch", "lock"} \subseteq Inside
        BY <4>1 DEF Inside, Steps
      <4>3. Walk(c)
        BY <4>1, <4>2 DEF Walk
      <4> QED BY <4>3 DEF CallStep
    <3> QED BY <3>1, <3>2
  <2>10. CASE Lock(c)
    <3>1. /\ pc[c] = "lock" /\ UNCHANGED <<future, dispatched, executed, ids>>
          /\ pc' = [pc EXCEPT ![c] = "connect"]
      BY <2>10 DEF Lock
    <3>2. pc[c] \in Inside /\ "connect" \in Inside
      BY <3>1 DEF Inside, Steps
    <3>3. Walk(c)
      BY <3>1, <3>2 DEF Walk
    <3> QED BY <3>3 DEF CallStep
  <2>11. CASE Connect(c)
    <3>1. CASE End(c, "thrown")
      BY <2>11, <3>1 DEF Connect, CallStep, GiveUp, End, Inside, Steps
    <3>2. CASE Goto(c, "dispatch") /\ UNCHANGED future
      <4>1. /\ pc[c] = "connect" /\ UNCHANGED <<future, dispatched, executed, ids>>
            /\ pc' = [pc EXCEPT ![c] = "dispatch"]
        BY <2>11, <3>2 DEF Connect
      <4>2. pc[c] \in Inside /\ "dispatch" \in Inside
        BY <4>1 DEF Inside, Steps
      <4>3. Walk(c)
        BY <4>1, <4>2 DEF Walk
      <4> QED BY <4>3 DEF CallStep
    <3> QED BY <2>11, <3>1, <3>2 DEF Connect
  <2>12. CASE Dispatch(c)
    <3>1. CASE End(c, "thrown") /\ Local
      BY <2>12, <3>1 DEF Dispatch, CallStep, GiveUp, End, Inside, Steps
    <3>2. CASE Goto(c, "await") /\ UNCHANGED future /\ Dispatcher!Open(c)
      BY <2>12, <3>2 DEF Dispatch, CallStep, HandOver
    <3> QED BY <2>12, <3>1, <3>2 DEF Dispatch
  <2>13. CASE Continuation(c)
    BY <2>13 DEF CallStep
  <2> QED BY <1>4, <2>1, <2>2, <2>3, <2>5, <2>6, <2>7, <2>8, <2>9, <2>10,
             <2>11, <2>12, <2>13 DEF CallMethod
<1>5. ASSUME NEW c \in Call, Enter(c) \/ Execute(c) \/ Settle(c)
      PROVE  CallStep(c)
  BY <1>5 DEF CallStep
<1>6. CASE UNCHANGED vars
  BY <1>6 DEF vars
<1> QED BY <1>1, <1>2, <1>3, <1>4, <1>5, <1>6 DEF Next

-----------------------------------------------------------------------------
(* The proxy promises what a dispatcher promises.                          *)

\* How far call c is with the dispatcher, given how far it is with its caller.
CallInv(c) ==
    /\ pc[c] \notin {"await", "done"} => dispatched[c] = "idle"
    /\ pc[c] = "await" => dispatched[c] \notin {"idle", "failed"}
    /\ pc[c] # "done" => future[c] = none
    /\ pc[c] = "done" =>
         /\ future[c] \in Ready
         /\ dispatched[c] = IF Ending(future[c]) = "failed" THEN "idle"
                            ELSE Ending(future[c])
    /\ dispatched[c] \in {"idle", "refused"} => executed[c] = 0
    /\ dispatched[c] = "answered" => executed[c] = 1

CallsInv == \A c \in Call : CallInv(c)

\* What a step of another call leaves alone.
LEMMA OtherCalls ==
  ASSUME TypeOK, NEW c \in Call, CallStep(c), NEW d \in Call, d # c
  PROVE  /\ pc'[d] = pc[d] /\ future'[d] = future[d]
         /\ dispatched'[d] = dispatched[d]
         /\ executed'[d] = executed[d]
<1> USE DEF TypeOK, Dispatcher!TypeOK, Goto, Local
<1>8. CASE DrawId(c)
  BY <1>8 DEF DrawId
<1>1. CASE Enter(c)
  BY <1>1 DEF Enter
<1>2. CASE Walk(c)
  BY <1>2 DEF Walk
<1>3. CASE GiveUp(c)
  BY <1>3 DEF GiveUp, End
<1>4. CASE HandOver(c)
  BY <1>4 DEF HandOver, Dispatcher!Open
<1>5. CASE Continuation(c)
  BY <1>5 DEF Continuation, End
<1>6. CASE Execute(c)
  BY <1>6 DEF Execute, Dispatcher!Execute
<1>7. CASE Settle(c)
  BY <1>7 DEF Settle, Dispatcher!Answer, Dispatcher!Refuse, Dispatcher!Expire,
     Dispatcher!End
<1> QED BY <1>1, <1>2, <1>3, <1>4, <1>5, <1>6, <1>7, <1>8 DEF CallStep

\* What the continuations make of an ending of the dispatcher ends the call in
\* the same way.
LEMMA ErrorEnding ==
  ASSUME NEW c \in Call, dispatched[c] \in {"answered", "refused", "expired"},
         NEW e \in Error(c)
  PROVE  e \in Ready /\ Ending(e) = dispatched[c]
BY DEF Error, Ending, Ready

\* A step of a call keeps what is true of it.
LEMMA CallInvStep ==
  ASSUME TypeOK, NEW c \in Call, CallInv(c), CallStep(c) PROVE CallInv(c)'
<1> USE ConstantsAssumption DEF TypeOK, Dispatcher!TypeOK, Goto, Local, CallInv, At
<1>1. CASE Enter(c)
  BY <1>1 DEF Enter
<1>8. CASE DrawId(c)
  BY <1>8 DEF DrawId
<1>2. CASE Walk(c)
  BY <1>2 DEF Walk, Inside
<1>3. CASE GiveUp(c)
  <2>1. PICK e \in {"thrown", "NO_METHOD", "NO_AVAILABLE_RPCHOSTS"} : End(c, e)
    BY <1>3 DEF GiveUp
  <2>2. e \in Ready /\ Ending(e) = "failed"
    BY DEF Ending, Ready
  <2>3. pc'[c] = "done" /\ future'[c] = e
    BY <2>1 DEF End
  <2>4. dispatched[c] = "idle" /\ UNCHANGED <<dispatched, executed>>
    BY <1>3 DEF GiveUp, Inside
  <2> QED BY <2>2, <2>3, <2>4 DEF Ending
<1>4. CASE HandOver(c)
  BY <1>4 DEF HandOver, Dispatcher!Open
<1>5. CASE Continuation(c)
  <2>1. dispatched[c] \in {"answered", "refused", "expired"}
    BY <1>5 DEF Continuation, Dispatcher!Endings
  <2>2. PICK e \in Error(c) : End(c, e)
    BY <1>5 DEF Continuation
  <2>3. e \in Ready /\ Ending(e) = dispatched[c]
    BY <2>1, ErrorEnding
  <2>4. pc'[c] = "done" /\ future'[c] = e /\ UNCHANGED <<dispatched, executed>>
    BY <1>5, <2>2 DEF Continuation, End
  <2> QED BY <2>1, <2>3, <2>4 DEF Ending
<1>6. CASE Execute(c)
  <2>1. dispatched[c] \in {"open", "expired"}
    BY <1>6 DEF Execute, Dispatcher!Execute
  <2>2. executed' = [executed EXCEPT ![c] = 1] /\ UNCHANGED <<pc, future, dispatched>>
    BY <1>6 DEF Execute, Dispatcher!Execute
  <2> QED BY <2>1, <2>2 DEF Ending
<1>7. CASE Settle(c)
  <2>1. /\ dispatched[c] = "open" /\ UNCHANGED <<pc, future, executed>>
        /\ \/ executed[c] = 1 /\ dispatched'[c] = "answered"
           \/ executed[c] = 0 /\ dispatched'[c] = "refused"
           \/ dispatched'[c] = "expired"
    BY <1>7 DEF Settle, Dispatcher!Answer, Dispatcher!Refuse,
       Dispatcher!Expire, Dispatcher!End
  <2>2. pc[c] = "await"
    BY <2>1 DEF Ending
  <2> QED BY <2>1, <2>2
<1> QED BY <1>1, <1>2, <1>3, <1>4, <1>5, <1>6, <1>7, <1>8 DEF CallStep

\* It is true of every call in every state.
LEMMA CallsInvAlways == Spec => [](TypeOK /\ CallsInv)
<1>1. Init => CallsInv
  BY DEF Init, Dispatcher!Init, CallsInv, CallInv
<1>2. TypeOK /\ CallsInv /\ [Next]_vars => CallsInv'
  <2> SUFFICES ASSUME TypeOK, CallsInv, [Next]_vars, NEW d \in Call
               PROVE  CallInv(d)'
    BY DEF CallsInv
  <2>1. CASE UNCHANGED <<pc, future, dispatched, executed, ids>>
    BY <2>1 DEF CallsInv, CallInv
  <2>2. ASSUME NEW c \in Call, CallStep(c) PROVE CallInv(d)'
    <3>1. CASE d = c
      BY <2>2, <3>1, CallInvStep DEF CallsInv
    <3>2. CASE d # c
      BY <2>2, <3>2, OtherCalls DEF CallsInv, CallInv
    <3> QED BY <3>1, <3>2
  <2> QED BY <2>1, <2>2, StepIsCallStep
<1>3. Spec => []TypeOK
  <2>1. Inv => TypeOK
    BY DEF Inv, CrashOnlyByStrategy
  <2> QED BY InvInit, InvStep, <2>1, PTL DEF Spec
<1> QED BY <1>1, <1>2, <1>3, PTL DEF Spec

\* Only the status of the call that takes the step can change.
LEMMA StatusChange ==
  ASSUME TypeOK, NEW c \in Call, CallStep(c)
  PROVE  status' = [status EXCEPT ![c] = status'[c]]
<1>1. \A d \in Call : d # c => status'[d] = status[d]
  BY OtherCalls DEF status
<1> QED BY <1>1 DEF status

\* A step of a call is the step of the promise that it stands for, or none that
\* the caller sees.
LEMMA StepRefines ==
  ASSUME TypeOK, NEW c \in Call, CallInv(c), CallStep(c) PROVE [Calls!Next]_Calls!vars
<1>0. UNCHANGED <<pc, future>> => UNCHANGED status
  BY DEF status
<1>11. status' = [status EXCEPT ![c] = status'[c]]
  BY StatusChange
<1>9. status = [d \in Call |-> status[d]]
  BY DEF status
<1>10. ASSUME status'[c] = status[c] PROVE UNCHANGED status
  <2> HIDE DEF status
  <2> QED BY <1>9, <1>10, <1>11
<1> USE ConstantsAssumption, <1>11 DEF TypeOK, Goto, Local, At
<1>1. CASE Enter(c)
  <2>1. status[c] = "idle" /\ status'[c] = "open" /\ UNCHANGED executed
    BY <1>1 DEF Enter, status, CallInv
  <2> QED BY <2>1 DEF Calls!Next, Calls!Open
<1>8. CASE DrawId(c)
  <2>1. status'[c] = status[c] /\ UNCHANGED executed
    BY <1>8 DEF DrawId, status
  <2> QED BY <1>10, <2>1 DEF Calls!vars
<1>2. CASE Walk(c)
  <2>1. status'[c] = status[c] /\ UNCHANGED executed
    BY <1>2 DEF Walk, status, Inside
  <2> QED BY <1>10, <2>1 DEF Calls!vars
<1>3. CASE GiveUp(c)
  <2>1. PICK e \in {"thrown", "NO_METHOD", "NO_AVAILABLE_RPCHOSTS"} : End(c, e)
    BY <1>3 DEF GiveUp
  <2>2. status'[c] = "failed"
    <3>1. pc'[c] = "done" /\ future'[c] = e
      BY <2>1 DEF End
    <3>2. e # none /\ Ending(e) = "failed"
      BY DEF Ready, Ending
    <3> QED BY <3>1, <3>2 DEF status, Ending
  <2>3. /\ pc[c] \notin {"new", "await", "done"} /\ dispatched[c] = "idle"
        /\ future[c] = none
    BY <1>3 DEF GiveUp, CallInv, Inside
  <2>4. status[c] = "open" /\ executed[c] = 0
    BY <2>3 DEF status, CallInv
  <2>5. UNCHANGED executed
    BY <1>3 DEF GiveUp
  <2> QED BY <2>2, <2>4, <2>5 DEF Calls!Next, Calls!Finish, Calls!Fail, Calls!End
<1>4. CASE HandOver(c)
  <2>1. status'[c] = status[c] /\ UNCHANGED executed
    BY <1>4 DEF HandOver, Dispatcher!Open, status
  <2> QED BY <1>10, <2>1 DEF Calls!vars
<1>5. CASE Continuation(c)
  <2>1. pc[c] = "await" /\ dispatched[c] \in {"answered", "refused", "expired"}
    BY <1>5 DEF Continuation, CallInv, Dispatcher!Endings
  <2>2. PICK e \in Error(c) : End(c, e)
    BY <1>5 DEF Continuation
  <2>3. e \in Ready /\ Ending(e) = dispatched[c]
    BY <2>1, ErrorEnding
  <2>4. status'[c] = dispatched[c]
    BY <2>2, <2>3 DEF End, status
  <2>5. status[c] = "open" /\ UNCHANGED executed
    BY <1>5, <2>1 DEF Continuation, status, CallInv
  <2> QED BY <2>1, <2>4, <2>5 DEF Calls!Next, Calls!Finish, Calls!Answer,
             Calls!Refuse, Calls!Expire, Calls!End, CallInv
<1>6. CASE Execute(c)
  <2>1. /\ dispatched[c] \in {"open", "expired"} /\ executed[c] = 0
        /\ executed' = [executed EXCEPT ![c] = 1] /\ UNCHANGED <<pc, future>>
    BY <1>6 DEF Execute, Dispatcher!Execute
  <2>2. status[c] \in {"open", "expired"}
    BY <2>1 DEF CallInv, status, Ending
  <2> QED BY <1>0, <2>1, <2>2 DEF Calls!Next, Calls!Execute
<1>7. CASE Settle(c)
  <2>1. UNCHANGED <<pc, future, executed>>
    BY <1>7 DEF Settle, Dispatcher!Answer, Dispatcher!Refuse,
       Dispatcher!Expire, Dispatcher!End
  <2> QED BY <1>0, <2>1 DEF Calls!vars
<1> QED BY <1>1, <1>2, <1>3, <1>4, <1>5, <1>6, <1>7, <1>8 DEF CallStep

\* A caller of the proxy is promised what a caller of one host's dispatcher is:
\* one end for each call, a value only for one that was executed, an exception
\* before the answer only for one that never is.
THEOREM ProxyKeepsPromise == Spec => ImplementsRpcCalls
<1>1. Init => Calls!Init
  BY DEF Init, Calls!Init, Dispatcher!Init, status
<1>2. TypeOK /\ CallsInv /\ [Next]_vars => [Calls!Next]_Calls!vars
  <2> SUFFICES ASSUME TypeOK, CallsInv, [Next]_vars
               PROVE  [Calls!Next]_Calls!vars
    OBVIOUS
  <2>1. CASE UNCHANGED <<pc, future, dispatched, executed, ids>>
    BY <2>1 DEF Calls!vars, status
  <2>2. ASSUME NEW c \in Call, CallStep(c) PROVE [Calls!Next]_Calls!vars
    BY <2>2, StepRefines DEF CallsInv
  <2> QED BY <2>1, <2>2, StepIsCallStep
<1> QED BY <1>1, <1>2, CallsInvAlways, PTL DEF Spec, ImplementsRpcCalls, Calls!Spec

-----------------------------------------------------------------------------
(* A host that was added stays available.                                  *)

\* The list has a host, and call c did not find it empty.
Found(c) == hosts > 0 /\ future[c] # "NO_AVAILABLE_RPCHOSTS"

\* No host is ever taken off the list.
LEMMA HostsGrow == TypeOK /\ [Next]_vars /\ hosts > 0 => hosts' > 0
<1> SUFFICES ASSUME TypeOK, [Next]_vars, hosts > 0 PROVE hosts' > 0
  OBVIOUS
<1>1. UNCHANGED hosts \/ hosts' = hosts + 1
  BY DEF Next, vars, program, setLBStrategy, addRemoteHost, Push, ConnectSuccess,
     Enter, CallMethod, FindMethod, CheckHosts, DrawId, TestRoundRobin, TestRANDOM,
     TestHASH, TestStrategy, RoundRobin_Select, Random_Select, Hash_Select, ByKey,
     CheckConnected, Lock, Connect, Dispatch, Continuation, Execute, Settle
<1> QED BY <1>1 DEF TypeOK

\* A call made after addRemoteHost has returned does not fail for want of a host,
\* also while another is being added (futureRpcCallProxy.h:52).
THEOREM AddedStaysAvailable == Spec => AddedIsAvailable
<1> SUFFICES ASSUME NEW c \in Call
             PROVE  Spec => [](pc[c] = "new" /\ hosts > 0
                                 => [](future[c] # "NO_AVAILABLE_RPCHOSTS"))
  BY DEF AddedIsAvailable
<1>1. CallsInv /\ pc[c] = "new" /\ hosts > 0 => Found(c)
  BY ConstantsAssumption DEF CallsInv, CallInv, Found, Ready
<1>2. TypeOK /\ CallsInv /\ Found(c) /\ [Next]_vars => Found(c)'
  <2> SUFFICES ASSUME TypeOK, CallsInv, Found(c), [Next]_vars PROVE Found(c)'
    OBVIOUS
  <2>1. hosts' > 0
    BY HostsGrow DEF Found
  <2>2. CASE UNCHANGED <<pc, future, dispatched, executed, ids>>
    BY <2>1, <2>2 DEF Found
  <2>3. ASSUME NEW d \in Call, CallStep(d), d # c PROVE Found(c)'
    BY <2>1, <2>3, OtherCalls DEF Found
  <2>4. CASE CallStep(c)
    <3>1. CASE Continuation(c)
      <4>1. dispatched[c] \in {"answered", "refused", "expired"}
        BY <3>1 DEF Continuation, At, CallsInv, CallInv, Dispatcher!Endings
      <4>2. \A e \in Error(c) : e # "NO_AVAILABLE_RPCHOSTS"
        BY <4>1 DEF Error
      <4>3. future'[c] # "NO_AVAILABLE_RPCHOSTS"
        BY <3>1, <4>2 DEF Continuation, End, TypeOK
      <4> QED BY <2>1, <4>3 DEF Found
    <3>2. CASE GiveUp(c)
      BY <2>1, <3>2 DEF GiveUp, End, Found, TypeOK
    <3>3. CASE UNCHANGED future
      BY <2>1, <3>3 DEF Found
    <3> QED BY <2>4, <3>1, <3>2, <3>3 DEF CallStep, Enter, DrawId, Walk,
               HandOver, Execute, Settle
  <2> QED BY <2>2, <2>3, <2>4, StepIsCallStep
<1>3. Found(c) => future[c] # "NO_AVAILABLE_RPCHOSTS"
  BY DEF Found
<1> QED BY <1>1, <1>2, <1>3, CallsInvAlways, PTL DEF Spec

-----------------------------------------------------------------------------
(* Numbers by their remainders.                                            *)

\* A number has one quotient and one remainder.
LEMMA OneRemainder ==
  ASSUME NEW H \in Nat \ {0}, NEW n \in Nat, NEW p \in Nat, NEW r \in Nat, r < H,
         n = H * p + r
  PROVE  n % H = r
<1> DEFINE q == n \div H
           s == n % H
<1>1. s \in Nat /\ s < H
  <2>1. n % H \in 0 .. H - 1
    OBVIOUS
  <2> QED BY <2>1
<1>2. q \in Nat /\ n = H * q + s
  OBVIOUS
<1> HIDE DEF q, s
<1>3. ASSUME NEW a \in Nat, NEW b \in Nat, a < b PROVE H * b >= H * a + H
  <2>1. PICK d \in Nat : b = a + 1 + d
    <3>1. b - a - 1 \in Nat /\ b = a + 1 + (b - a - 1)
      BY <1>3
    <3> QED BY <3>1
  <2>2. H * b = H * a + H + H * d
    BY <2>1
  <2>3. H * d \in Nat /\ H * a \in Nat
    OBVIOUS
  <2> QED BY <2>2, <2>3
<1>4. PICK x, y : x = H * p /\ y = H * q
  OBVIOUS
<1>5. x \in Nat /\ y \in Nat /\ x + r = y + s
  BY <1>2, <1>4
<1>6. p < q => y >= x + H
  BY <1>2, <1>3, <1>4
<1>7. q < p => x >= y + H
  BY <1>2, <1>3, <1>4
<1>8. ~(y >= x + H) /\ ~(x >= y + H)
  BY <1>1, <1>5
<1>9. p = q
  BY <1>2, <1>6, <1>7, <1>8
<1>10. r = s
  BY <1>1, <1>4, <1>5, <1>9
<1> QED BY <1>10 DEF s

\* How far below a number of remainder h the next one of remainder g is.
Below(H, h, g) == IF g <= h THEN h - g ELSE H + h - g

\* So far below every number of remainder h is one of remainder g, except below
\* the first of them if g is the larger.
LEMMA StepDown ==
  ASSUME NEW H \in Nat \ {0}, NEW h \in 0 .. H - 1, NEW g \in 0 .. H - 1,
         NEW n \in Nat, n % H = h, g > h => n # h
  PROVE  n - Below(H, h, g) \in Nat /\ (n - Below(H, h, g)) % H = g
<1> DEFINE q == n \div H
<1>1. q \in Nat /\ n = H * q + h
  OBVIOUS
<1> HIDE DEF q
<1>2. CASE g <= h
  <2>1. PICK x \in Nat : x = H * q
    BY <1>1
  <2>2. n - Below(H, h, g) = x + g
    BY <1>1, <1>2, <2>1 DEF Below
  <2>3. x + g \in Nat /\ g \in Nat /\ g < H
    BY <2>1
  <2> QED BY <1>1, <2>1, <2>2, <2>3, OneRemainder
<1>3. CASE g > h
  <2>1. q # 0
    BY <1>1, <1>3
  <2>2. PICK p \in Nat : q = p + 1
    <3>1. q - 1 \in Nat /\ q = (q - 1) + 1
      BY <1>1, <2>1
    <3> QED BY <3>1
  <2>3. PICK x \in Nat : x = H * p
    OBVIOUS
  <2>4. H * q = x + H
    BY <2>2, <2>3
  <2>5. n - Below(H, h, g) = x + g
    BY <1>1, <1>3, <2>3, <2>4 DEF Below
  <2>6. x + g \in Nat /\ g \in Nat /\ g < H
    BY <2>3
  <2> QED BY <2>3, <2>5, <2>6, OneRemainder
<1> QED BY <1>2, <1>3

-----------------------------------------------------------------------------
(* Round robin is even.                                                    *)

\* Calls that hold the ids 0 .. N - 1, one each.
Numbered(D, id, N) ==
    /\ IsFiniteSet(D) /\ N \in Nat
    /\ \A c \in D : id[c] \in Nat /\ id[c] < N
    /\ \A c, d \in D : id[c] = id[d] => c = d
    /\ \A n \in Nat : n < N => \E c \in D : id[c] = n

\* Those whose id has the remainder h.
Share(D, id, H, h) == {c \in D : id[c] % H = h}

\* Calls that each have one of remainder g below them, equally far, are not more
\* than the calls of remainder g.
LEMMA SharesBelow ==
  ASSUME NEW D, NEW id, NEW N, Numbered(D, id, N), NEW H \in Nat \ {0}, NEW g,
         NEW A \in SUBSET D, NEW k \in Nat,
         \A c \in A : id[c] - k \in Nat /\ (id[c] - k) % H = g
  PROVE  Cardinality(A) <= Cardinality(Share(D, id, H, g))
<1> DEFINE T == Share(D, id, H, g)
           f == [c \in A |-> CHOOSE d \in D : id[d] = id[c] - k]
<1>1. ASSUME NEW c \in A PROVE f[c] \in D /\ id[f[c]] = id[c] - k
  <2>1. id[c] - k \in Nat /\ id[c] - k < N
    BY DEF Numbered
  <2>2. \E d \in D : id[d] = id[c] - k
    BY <2>1 DEF Numbered
  <2> QED BY <2>2
<1>2. f \in [A -> T]
  BY <1>1 DEF Share
<1>3. ASSUME NEW c \in A, NEW d \in A, f[c] = f[d] PROVE c = d
  <2>1. id[c] - k = id[d] - k /\ id[c] \in Nat /\ id[d] \in Nat
    BY <1>1, <1>3 DEF Numbered
  <2>2. id[c] = id[d]
    BY <2>1
  <2> QED BY <2>2 DEF Numbered
<1> HIDE DEF f
<1>4. f \in Injection(A, T)
  BY <1>2, <1>3 DEF Injection, IsInjective
<1>5. IsFiniteSet(T)
  BY FS_Subset DEF Numbered, Share
<1> QED BY <1>4, <1>5, FS_Injection

\* The shares of two remainders differ by at most one.
LEMMA EvenShares ==
  ASSUME NEW D, NEW id, NEW N, Numbered(D, id, N), NEW H \in Nat \ {0},
         NEW h \in 0 .. H - 1, NEW g \in 0 .. H - 1
  PROVE  Cardinality(Share(D, id, H, h)) <= Cardinality(Share(D, id, H, g)) + 1
<1> DEFINE S == Share(D, id, H, h)
           T == Share(D, id, H, g)
           k == Below(H, h, g)
<1>1. k \in Nat
  BY DEF Below
<1>2. IsFiniteSet(S) /\ IsFiniteSet(T)
  BY FS_Subset DEF Numbered, Share
<1>3. Cardinality(S) \in Nat /\ Cardinality(T) \in Nat
  BY <1>2, FS_CardinalityType
<1>4. \A c \in S : c \in D /\ id[c] \in Nat /\ id[c] % H = h
  BY DEF Numbered, Share
<1> HIDE DEF k
<1>5. CASE \E c \in S : id[c] = h
  <2>1. PICK a \in S : id[a] = h
    BY <1>5
  <2>2. \A c \in S \ {a} : id[c] # h
    BY <1>4, <2>1 DEF Numbered
  <2>3. \A c \in S \ {a} : id[c] - k \in Nat /\ (id[c] - k) % H = g
    BY <1>4, <2>2, StepDown DEF k
  <2>4. S \ {a} \in SUBSET D
    BY <1>4
  <2>5. Cardinality(S \ {a}) <= Cardinality(T)
    BY <1>1, <2>3, <2>4, SharesBelow
  <2>6. Cardinality(S \ {a}) = Cardinality(S) - 1
    BY <1>2, <2>1, FS_RemoveElement
  <2> QED BY <1>3, <2>5, <2>6
<1>6. CASE \A c \in S : id[c] # h
  <2>1. \A c \in S : id[c] - k \in Nat /\ (id[c] - k) % H = g
    BY <1>4, <1>6, StepDown DEF k
  <2>2. S \in SUBSET D
    BY <1>4
  <2>3. Cardinality(S) <= Cardinality(T)
    BY <1>1, <2>1, <2>2, SharesBelow
  <2> QED BY <1>3, <2>3
<1> QED BY <1>5, <1>6

\* The calls that have drawn an id.
Drawn == {c \in Call : pc[c] \notin {"new", "size", "id"}
                        /\ future[c] \notin {"NO_METHOD", "NO_AVAILABLE_RPCHOSTS"}}

\* They hold the ids below the counter, one each.
DrawnInv == Numbered(Drawn, curReqId, request_id)

\* Drawing an id gives the call the next one.
LEMMA DrawIdInv ==
  ASSUME TypeOK, CallsInv, DrawnInv, NEW c \in Call, DrawId(c) PROVE DrawnInv'
<1> USE DEF TypeOK
<1>1. /\ pc[c] = "id" /\ pc' = [pc EXCEPT ![c] = "RoundRobin"]
      /\ curReqId' = [curReqId EXCEPT ![c] = request_id]
      /\ request_id' = request_id + 1 /\ UNCHANGED future
  BY DEF DrawId, At, Goto
<1>2. future[c] = none /\ none \notin {"NO_METHOD", "NO_AVAILABLE_RPCHOSTS"}
  BY <1>1, ConstantsAssumption DEF CallsInv, CallInv, Ready
<1>3. c \notin Drawn /\ Drawn' = Drawn \cup {c}
  BY <1>1, <1>2 DEF Drawn
<1>4. /\ \A d \in Drawn : curReqId'[d] = curReqId[d]
      /\ curReqId'[c] = request_id
  BY <1>1, <1>3 DEF Drawn
<1>5. IsFiniteSet(Drawn')
  BY <1>3, FS_AddElement DEF DrawnInv, Numbered
<1>6. \A d \in Drawn' : curReqId'[d] \in Nat /\ curReqId'[d] < request_id'
  BY <1>1, <1>3, <1>4 DEF DrawnInv, Numbered
<1>7. \A d, e \in Drawn' : curReqId'[d] = curReqId'[e] => d = e
  BY <1>3, <1>4 DEF DrawnInv, Numbered
<1>8. ASSUME NEW n \in Nat, n < request_id' PROVE \E d \in Drawn' : curReqId'[d] = n
  <2>1. CASE n = request_id
    BY <1>3, <1>4, <2>1
  <2>2. CASE n < request_id
    BY <1>3, <1>4, <2>2 DEF DrawnInv, Numbered
  <2> QED BY <1>1, <1>8, <2>1, <2>2
<1> QED BY <1>1, <1>5, <1>6, <1>7, <1>8 DEF DrawnInv, Numbered

\* No other step changes who has drawn an id.
LEMMA DrawnStays ==
  ASSUME TypeOK, CallsInv, NEW c \in Call, CallStep(c), ~DrawId(c)
  PROVE  UNCHANGED Drawn /\ UNCHANGED ids
<1> USE ConstantsAssumption DEF TypeOK, Goto, Local, At, program, selection, ids
<1>1. ASSUME NEW d \in Call, d # c PROVE d \in Drawn' <=> d \in Drawn
  BY <1>1, OtherCalls DEF Drawn
<1>2. \/ UNCHANGED <<pc, future>>
      \/ UNCHANGED future /\ pc[c] = "new" /\ pc'[c] = "size"
      \/ /\ UNCHANGED future
         /\ pc[c] \in {"new", "size", "id"} <=> pc'[c] \in {"new", "size", "id"}
      \/ pc[c] = "size" /\ future'[c] \in {"NO_METHOD", "NO_AVAILABLE_RPCHOSTS"}
      \/ /\ pc[c] \notin {"new", "size", "id", "done"} /\ pc'[c] = "done"
         /\ future'[c] \notin {"NO_METHOD", "NO_AVAILABLE_RPCHOSTS"}
  <2>1. CASE Enter(c)
    BY <2>1 DEF Enter
  <2>2. CASE Walk(c)
    BY <2>2 DEF Walk, Inside
  <2>3. CASE GiveUp(c)
    <3>1. PICK e \in {"thrown", "NO_METHOD", "NO_AVAILABLE_RPCHOSTS"} :
            /\ End(c, e)
            /\ IF e = "thrown" THEN pc[c] \notin {"size", "id"} ELSE pc[c] = "size"
      BY <2>3 DEF GiveUp
    <3>2. pc'[c] = "done" /\ future'[c] = e
      BY <3>1 DEF End
    <3>3. pc[c] \notin {"new", "done"}
      BY <2>3 DEF GiveUp, Inside
    <3> QED BY <3>1, <3>2, <3>3
  <2>4. CASE HandOver(c)
    BY <2>4 DEF HandOver
  <2>5. CASE Continuation(c)
    <3>1. dispatched[c] \in {"answered", "refused", "expired"}
      BY <2>5 DEF Continuation, CallsInv, CallInv, Dispatcher!Endings
    <3>2. \A e \in Error(c) : e \notin {"NO_METHOD", "NO_AVAILABLE_RPCHOSTS"}
      BY <3>1 DEF Error
    <3> QED BY <2>5, <3>2 DEF Continuation, End
  <2>6. CASE Execute(c) \/ Settle(c)
    BY <2>6 DEF Execute, Settle
  <2> QED BY <2>1, <2>2, <2>3, <2>4, <2>5, <2>6 DEF CallStep
<1>3. pc[c] # "done" => future[c] = none /\ none \notin Ready
  BY DEF CallsInv, CallInv
<1>4. c \in Drawn' <=> c \in Drawn
  BY <1>2, <1>3 DEF Drawn, Ready
<1>5. UNCHANGED Drawn
  BY <1>1, <1>4 DEF Drawn
<1>6. UNCHANGED ids
  BY DEF CallStep, Enter, Walk, GiveUp, HandOver, Continuation, Execute, Settle
<1> QED BY <1>5, <1>6

\* How a call was selected: by the id it drew, if by round robin.
SelectionInv ==
    \A c \in Call :
      /\ pc[c] \in {"new", "size", "id", "RoundRobin", "RANDOM", "HASH", "select"}
           => of[c] = 0
      /\ by[c] = "RoundRobin" /\ of[c] # 0 => rpcClient[c] = curReqId[c] % of[c]

\* Every step keeps it.
LEMMA SelectionStep == TypeOK /\ SelectionInv /\ [Next]_vars => SelectionInv'
<1> SUFFICES ASSUME TypeOK, SelectionInv, [Next]_vars PROVE SelectionInv'
  OBVIOUS
<1> USE DEF TypeOK, Goto, At, program, selection
<1>1. ASSUME UNCHANGED <<pc, selection>> PROVE SelectionInv'
  BY <1>1 DEF SelectionInv
<1>2. ASSUME NEW c \in Call, UNCHANGED selection,
             \E s \in Steps : /\ pc' = [pc EXCEPT ![c] = s]
                              /\ pc[c] \notin {"new", "size"} =>
                                   s \in {"check", "lock", "connect", "dispatch",
                                          "await", "done"}
      PROVE  SelectionInv'
  BY <1>2 DEF SelectionInv
<1>3. ASSUME NEW c \in Call, TestRoundRobin(c) \/ TestRANDOM(c) \/ TestHASH(c)
      PROVE  SelectionInv'
  <2>1. /\ pc[c] \in {"RoundRobin", "RANDOM", "HASH"}
        /\ \E s \in Steps : pc' = [pc EXCEPT ![c] = s]
        /\ UNCHANGED <<curReqId, of, rpcClient>>
        /\ \A d \in Call : d # c => by'[d] = by[d]
    BY <1>3 DEF TestRoundRobin, TestRANDOM, TestHASH, TestStrategy, Steps
  <2> QED BY <2>1 DEF SelectionInv
<1>4. ASSUME NEW c \in Call, DrawId(c) PROVE SelectionInv'
  BY <1>4 DEF DrawId, SelectionInv
<1>5. ASSUME NEW c \in Call, NEW key, ByKey(c, key), pc[c] = "select",
             by[c] = "RoundRobin" => key = curReqId[c]
      PROVE  SelectionInv'
  <2>1. CASE hosts = 0
    BY <1>5, <2>1 DEF ByKey, SelectionInv
  <2>2. CASE hosts # 0
    <3>1. /\ pc' = [pc EXCEPT ![c] = "check"]
          /\ rpcClient' = [rpcClient EXCEPT ![c] = key % hosts]
          /\ of' = [of EXCEPT ![c] = hosts] /\ UNCHANGED <<by, curReqId>>
      BY <1>5, <2>2 DEF ByKey, Selected
    <3>2. ASSUME NEW d \in Call, d # c
          PROVE  /\ pc'[d] = pc[d] /\ of'[d] = of[d] /\ by'[d] = by[d]
                 /\ rpcClient'[d] = rpcClient[d] /\ curReqId'[d] = curReqId[d]
      BY <3>1, <3>2
    <3>3. /\ pc'[c] = "check" /\ of'[c] = hosts /\ by'[c] = by[c]
          /\ rpcClient'[c] = key % hosts /\ curReqId'[c] = curReqId[c]
      BY <3>1
    <3> QED BY <1>5, <3>2, <3>3 DEF SelectionInv
  <2> QED BY <2>1, <2>2
<1>6. ASSUME NEW c \in Call, RoundRobin_Select(c) \/ Hash_Select(c) PROVE SelectionInv'
  BY <1>5, <1>6 DEF RoundRobin_Select, Hash_Select
<1>7. ASSUME NEW c \in Call, Random_Select(c) PROVE SelectionInv'
  <2>1. /\ by[c] = "RANDOM" /\ UNCHANGED <<by, curReqId>>
        /\ pc' = [pc EXCEPT ![c] = "check"]
        /\ \A d \in Call : d # c => of'[d] = of[d] /\ rpcClient'[d] = rpcClient[d]
    BY <1>7 DEF Random_Select, Selected
  <2> QED BY <2>1 DEF SelectionInv
<1>8. ASSUME NEW c \in Call, Enter(c) \/ FindMethod(c) \/ CheckHosts(c)
      PROVE  SelectionInv'
  BY <1>2, <1>8 DEF Enter, FindMethod, CheckHosts, End, Steps
<1>9. ASSUME NEW c \in Call, CheckConnected(c) PROVE SelectionInv'
  BY <1>1, <1>2, <1>9 DEF CheckConnected, Steps
<1>10. ASSUME NEW c \in Call, Lock(c) \/ Connect(c) \/ Dispatch(c) \/ Continuation(c)
       PROVE  SelectionInv'
  <2>1. /\ UNCHANGED selection
        /\ \E s \in {"connect", "dispatch", "await", "done"} :
             pc' = [pc EXCEPT ![c] = s]
    BY <1>10 DEF Lock, Connect, Dispatch, Continuation, End
  <2> QED BY <1>2, <2>1 DEF Steps
<1>11. ASSUME NEW c \in Call, CallMethod(c) PROVE SelectionInv'
  BY <1>3, <1>4, <1>6, <1>7, <1>8, <1>9, <1>10, <1>11 DEF CallMethod
<1>12. ASSUME NEW l \in LBStrategy, setLBStrategy(l) PROVE SelectionInv'
  BY <1>1, <1>12 DEF setLBStrategy
<1>13. ASSUME NEW h \in 0 .. MaxHosts - 1, ConnectSuccess(h) PROVE SelectionInv'
  BY <1>1, <1>13 DEF ConnectSuccess
<1>14. ASSUME NEW c \in Call, Execute(c) \/ Settle(c) PROVE SelectionInv'
  BY <1>1, <1>14 DEF Execute, Settle
<1>15. CASE addRemoteHost \/ Push \/ UNCHANGED vars
  BY <1>1, <1>15 DEF addRemoteHost, Push, vars
<1> QED BY <1>8, <1>11, <1>12, <1>13, <1>14, <1>15 DEF Next

\* Round robin spreads the calls evenly over a list that does not change,
\* whatever the order in which the calls draw their ids and select: the counter
\* gives every id once, and none is left out (futureRpcCallProxy.h:68).
THEOREM RoundRobinIsEven == Spec => []EvenSpread
<1>1. Init => DrawnInv /\ SelectionInv
  <2> SUFFICES ASSUME Init PROVE DrawnInv /\ SelectionInv
    OBVIOUS
  <2>1. Drawn = {} /\ request_id = 0
    BY DEF Init, Drawn
  <2>2. DrawnInv
    BY <2>1, FS_EmptySet DEF DrawnInv, Numbered
  <2>3. SelectionInv
    BY DEF Init, SelectionInv
  <2> QED BY <2>2, <2>3
<1>2. TypeOK /\ CallsInv /\ DrawnInv /\ [Next]_vars => DrawnInv'
  <2> SUFFICES ASSUME TypeOK, CallsInv, DrawnInv, [Next]_vars PROVE DrawnInv'
    OBVIOUS
  <2>1. ASSUME UNCHANGED <<Drawn, curReqId, request_id>> PROVE DrawnInv'
    BY <2>1 DEF DrawnInv, Numbered
  <2>2. CASE UNCHANGED <<pc, future, dispatched, executed, ids>>
    BY <2>1, <2>2 DEF Drawn, ids
  <2>3. ASSUME NEW c \in Call, CallStep(c) PROVE DrawnInv'
    BY <2>1, <2>3, DrawIdInv, DrawnStays DEF ids
  <2> QED BY <2>2, <2>3, StepIsCallStep
<1>3. TypeOK /\ DrawnInv /\ SelectionInv => EvenSpread
  <2> DEFINE Sharing(h) == {c \in Drawn : rpcClient[c] = h}
  <2> SUFFICES ASSUME TypeOK, DrawnInv, SelectionInv,
                      \A c \in Drawn : by[c] = "RoundRobin" /\ of[c] = hosts,
                      NEW h \in 0 .. hosts - 1, NEW g \in 0 .. hosts - 1
               PROVE  Cardinality(Sharing(h)) <= Cardinality(Sharing(g)) + 1
    BY DEF EvenSpread, Drawn
  <2>1. hosts \in Nat \ {0}
    BY DEF TypeOK
  <2>2. \A c \in Drawn : rpcClient[c] = curReqId[c] % hosts
    BY <2>1 DEF SelectionInv, Drawn
  <2>3. /\ Sharing(h) = Share(Drawn, curReqId, hosts, h)
        /\ Sharing(g) = Share(Drawn, curReqId, hosts, g)
    BY <2>2 DEF Share
  <2>4. /\ Cardinality(Share(Drawn, curReqId, hosts, h))
              <= Cardinality(Share(Drawn, curReqId, hosts, g)) + 1
    BY <2>1, EvenShares DEF DrawnInv
  <2> HIDE DEF Sharing
  <2> QED BY <2>3, <2>4
<1> QED BY <1>1, <1>2, <1>3, CallsInvAlways, SelectionStep, PTL DEF Spec
=============================================================================
