--------------------------- MODULE RpcSystemProofs ---------------------------
(***************************************************************************)
(* Proofs about RpcSystem, for any calls, readers, services, threads and   *)
(* any limit.  First the server alone, which is RpcServer: its invariant   *)
(* and its theorems.  Then the two ends: every step of the system is one   *)
(* of ClientDispatcher or none and one of RpcServer or none, so that what  *)
(* is proved of each holds here, and one invariant joins the two.          *)
(***************************************************************************)
EXTENDS RpcSystem, SequenceTheorems, TLAPS

CP == INSTANCE ClientDispatcherProofs WITH Threads <- AppThreads, pc <- stage

-----------------------------------------------------------------------------
(* The server: its inductive invariant.                                    *)

\* An entry of the map is the one of the service with that hash, with all of
\* its methods, or an empty one; what a look-up has added to it is null.
EntryOK(k, e) ==
    /\ e.rpcService = null => \A i \in DOMAIN e.methodMap : e.methodMap[i] = null
    /\ e.rpcService # null =>
         /\ e.rpcService \in Service /\ Hash32[e.rpcService] = k
         /\ \A i \in 0 .. method_count[e.rpcService] - 1 :
              i \in DOMAIN e.methodMap /\ e.methodMap[i] = <<e.rpcService, i>>
         /\ \A i \in DOMAIN e.methodMap :
              \/ i \in 0 .. method_count[e.rpcService] - 1
              \/ e.methodMap[i] = null

EntryInv == \A k \in DOMAIN _rpcCallMap : EntryOK(k, _rpcCallMap[k])

\* Tasks exist only after Start, when no service is registered any more.
StartInv == \A c \in Call : pc[c] # "unsent" => started

\* What a task has looked up is what the map says for the call's names.
TaskInv == \A c \in Call :
    /\ pc[c] \in {"method", "run", "write", "end"} =>
         /\ serviceid(c) \in DOMAIN _rpcCallMap
         /\ rpc_service[c] = _rpcCallMap[serviceid(c)].rpcService
    /\ pc[c] = "run" =>
         this_method[c] = IF Offered(c) THEN <<serviceOf[c], methodOf[c]>>
                                        ELSE null

\* The method the client of call c names.
Named(c) == <<serviceOf[c], methodOf[c]>>

\* What has run for a call: nothing until its task has run it, then the method
\* that was named, once.
RanInv == \A c \in Call :
    /\ pc[c] \in {"write", "end"} =>
         /\ ran[c] = <<Named(c)>> /\ Named(c) \in Implemented
         /\ rpc_service[c] = serviceOf[c]
    /\ pc[c] \notin {"write", "end"} => ran[c] = <<>>
    /\ c \in written => pc[c] = "end"

ServerInv == /\ TypeOK
             /\ EntryInv /\ StartInv /\ TaskInv /\ RanInv /\ CrashOnlyByUnknown

-----------------------------------------------------------------------------
(* operator[] of the map.                                                  *)

\* An empty map has no key.
LEMMA EmptyDomain == DOMAIN <<>> = {}
OBVIOUS

\* What operator[] yields is in order, whether the key was there or not.
LEMMA EntryIsOK == ASSUME NEW k, EntryInv PROVE EntryOK(k, Entry(k))
<1>1. CASE k \in DOMAIN _rpcCallMap
  BY <1>1 DEF EntryInv, Entry
<1>2. CASE k \notin DOMAIN _rpcCallMap
  <2>1. /\ Entry(k).rpcService = null
        /\ Entry(k).methodMap = <<>>
    BY <1>2 DEF Entry
  <2> QED BY <2>1, EmptyDomain DEF EntryOK
<1> QED BY <1>1, <1>2

\* The entry is of the right types.
LEMMA EntryType ==
    ASSUME NEW k, TypeOK
    PROVE  /\ Entry(k).rpcService \in Service \cup {null}
           /\ \A i \in DOMAIN Entry(k).methodMap :
                Entry(k).methodMap[i] \in Method \cup {null}
<1>1. CASE k \in DOMAIN _rpcCallMap
  BY <1>1 DEF TypeOK, Entry
<1>2. CASE k \notin DOMAIN _rpcCallMap
  <2>1. /\ Entry(k).rpcService = null
        /\ Entry(k).methodMap = <<>>
    BY <1>2 DEF Entry
  <2> QED BY <2>1, EmptyDomain
<1> QED BY <1>1, <1>2

\* An entry that is put back with the same service leaves every task's
\* look-up, and what the server offers, as it was.
LEMMA SameServices ==
    ASSUME NEW k, NEW e, e.rpcService = Entry(k).rpcService,
           _rpcCallMap' = With(_rpcCallMap, k, e)
    PROVE  /\ DOMAIN _rpcCallMap' = DOMAIN _rpcCallMap \cup {k}
           /\ _rpcCallMap'[k] = e
           /\ \A j \in DOMAIN _rpcCallMap :
                _rpcCallMap'[j].rpcService = _rpcCallMap[j].rpcService
           /\ \A c \in Call : serviceid(c) \in DOMAIN _rpcCallMap =>
                (Offered(c)' <=> Offered(c))
<1>1. /\ DOMAIN _rpcCallMap' = DOMAIN _rpcCallMap \cup {k}
      /\ _rpcCallMap'[k] = e
      /\ \A j \in DOMAIN _rpcCallMap : j # k => _rpcCallMap'[j] = _rpcCallMap[j]
  BY DEF With
<1>2. \A j \in DOMAIN _rpcCallMap :
         _rpcCallMap'[j].rpcService = _rpcCallMap[j].rpcService
  BY <1>1 DEF Entry
<1>3. \A c \in Call : serviceid(c) \in DOMAIN _rpcCallMap =>
         (Offered(c)' <=> Offered(c))
  BY <1>1, <1>2 DEF Offered, serviceid
<1> QED BY <1>1, <1>2, <1>3

\* The entries stay in order when one that is in order is put at a key.
LEMMA EntryStep ==
    ASSUME NEW k, NEW e, EntryInv, EntryOK(k, e),
           _rpcCallMap' = With(_rpcCallMap, k, e)
    PROVE  EntryInv'
<1>1. /\ DOMAIN _rpcCallMap' = DOMAIN _rpcCallMap \cup {k}
      /\ _rpcCallMap'[k] = e
      /\ \A j \in DOMAIN _rpcCallMap : j # k => _rpcCallMap'[j] = _rpcCallMap[j]
  BY DEF With
<1>2. ASSUME NEW j \in DOMAIN _rpcCallMap'
      PROVE  EntryOK(j, _rpcCallMap'[j])
  BY <1>1 DEF EntryInv
<1>3. \A j \in DOMAIN _rpcCallMap' : EntryOK(j, _rpcCallMap'[j])
  BY <1>2
<1> QED BY <1>3 DEF EntryInv, EntryOK

\* The map keeps its type when an entry of the type is put at a service's id.
LEMMA MapType ==
    ASSUME NEW s \in Service, NEW e, TypeOK,
           e.rpcService \in Service \cup {null},
           \A i \in DOMAIN e.methodMap : e.methodMap[i] \in Method \cup {null},
           _rpcCallMap' = With(_rpcCallMap, Hash32[s], e)
    PROVE  /\ DOMAIN _rpcCallMap' \subseteq {Hash32[t] : t \in Service}
           /\ \A k \in DOMAIN _rpcCallMap' :
                /\ _rpcCallMap'[k].rpcService \in Service \cup {null}
                /\ \A i \in DOMAIN _rpcCallMap'[k].methodMap :
                     _rpcCallMap'[k].methodMap[i] \in Method \cup {null}
<1>1. /\ DOMAIN _rpcCallMap' = DOMAIN _rpcCallMap \cup {Hash32[s]}
      /\ _rpcCallMap'[Hash32[s]] = e
      /\ \A j \in DOMAIN _rpcCallMap :
           j # Hash32[s] => _rpcCallMap'[j] = _rpcCallMap[j]
  BY DEF With
<1>2. DOMAIN _rpcCallMap' \subseteq {Hash32[t] : t \in Service}
  BY <1>1 DEF TypeOK
<1>3. ASSUME NEW k \in DOMAIN _rpcCallMap'
      PROVE  /\ _rpcCallMap'[k].rpcService \in Service \cup {null}
             /\ \A i \in DOMAIN _rpcCallMap'[k].methodMap :
                  _rpcCallMap'[k].methodMap[i] \in Method \cup {null}
  <2>1. CASE k = Hash32[s]
    BY <1>1, <2>1
  <2>2. CASE k # Hash32[s]
    BY <1>1, <2>2 DEF TypeOK
  <2> QED BY <2>1, <2>2
<1> QED BY <1>2, <1>3

\* A method of a service, by its index.
LEMMA MethodIs ==
    ASSUME NEW s \in Service, NEW i \in 0 .. method_count[s] - 1
    PROVE  <<s, i>> \in Method
BY DEF Method, Methods

-----------------------------------------------------------------------------
(* The server's invariant holds at the start, and every step keeps it.      *)

\* The invariant holds in the first state.
LEMMA ServerInitInv == Init => ServerInv
<1> SUFFICES ASSUME Init PROVE ServerInv
  OBVIOUS
<1>1. DOMAIN _rpcCallMap = {}
  BY EmptyDomain DEF Init
<1>2. TypeOK
  <2>1. <<>> \in Seq(Method)
    BY EmptySeq
  <2>2. ran \in [Call -> Seq(Method)]
    BY <2>1 DEF Init
  <2> QED BY <1>1, <2>2 DEF TypeOK, Init
<1>3. EntryInv /\ StartInv /\ TaskInv /\ RanInv /\ CrashOnlyByUnknown
  BY <1>1 DEF Init, EntryInv, StartInv, TaskInv, RanInv, CrashOnlyByUnknown
<1> QED BY <1>2, <1>3 DEF ServerInv

\* A step before Start finds no task.
LEMMA NoTask ==
    ASSUME ServerInv, ~started
    PROVE  (\A c \in Call : pc[c] = "unsent") /\ ~crashed
BY DEF ServerInv, StartInv, CrashOnlyByUnknown

\* RegisterService: the entry is the service's own, and no task is disturbed.
LEMMA RegisterInv ==
    ASSUME ServerInv, NEW s \in Service, RegisterService(s)
    PROVE  ServerInv'
<1> DEFINE e == [rpcService |-> s,
                 methodMap  |-> [i \in 0 .. method_count[s] - 1 |-> <<s, i>>]]
<1>1. e.rpcService = s
  OBVIOUS
<1>2. /\ DOMAIN e.methodMap = 0 .. method_count[s] - 1
      /\ \A i \in DOMAIN e.methodMap : e.methodMap[i] = <<s, i>>
  OBVIOUS
<1>3. _rpcCallMap' = With(_rpcCallMap, Hash32[s], e)
  BY DEF RegisterService
<1>4. s # null
  BY NullAssumption
<1> HIDE DEF e
<1>5. EntryInv'
  <2>1. EntryOK(Hash32[s], e)
    BY <1>1, <1>2, <1>4 DEF EntryOK
  <2> QED BY <2>1, <1>3, EntryStep DEF ServerInv
<1>6. TypeOK'
  <2>1. \A i \in DOMAIN e.methodMap : e.methodMap[i] \in Method \cup {null}
    BY <1>2, MethodIs
  <2>2. /\ DOMAIN _rpcCallMap' \subseteq {Hash32[t] : t \in Service}
        /\ \A k \in DOMAIN _rpcCallMap' :
             /\ _rpcCallMap'[k].rpcService \in Service \cup {null}
             /\ \A i \in DOMAIN _rpcCallMap'[k].methodMap :
                  _rpcCallMap'[k].methodMap[i] \in Method \cup {null}
    BY <2>1, <1>1, <1>3, MapType DEF ServerInv
  <2>3. UNCHANGED <<started, pc, rpc_service, this_method, ran, failed, written,
                    crashed>>
    BY DEF RegisterService
  <2> QED BY <2>2, <2>3 DEF ServerInv, TypeOK
<1>7. /\ \A c \in Call : pc'[c] = "unsent"
      /\ ~crashed'
      /\ UNCHANGED <<rpc_service, ran, written>>
  BY NoTask DEF RegisterService
<1>8. StartInv' /\ TaskInv' /\ CrashOnlyByUnknown'
  BY <1>7 DEF StartInv, TaskInv, CrashOnlyByUnknown
<1>9. RanInv'
  <2>1. \A c \in Call : pc[c] = "unsent"
    BY NoTask DEF RegisterService
  <2>2. \A c \in Call : ran[c] = <<>> /\ c \notin written
    BY <2>1 DEF ServerInv, RanInv
  <2> QED BY <1>7, <2>2 DEF RanInv
<1> QED BY <1>5, <1>6, <1>8, <1>9 DEF ServerInv

\* What an action that leaves the map alone keeps.
LEMMA SameMap ==
    ASSUME ServerInv, UNCHANGED _rpcCallMap
    PROVE  /\ EntryInv'
           /\ \A c \in Call : Offered(c)' <=> Offered(c)
BY DEF ServerInv, EntryInv, EntryOK, Offered, serviceid

\* Starting the server touches neither the map nor a task.
LEMMA StartStep == ASSUME ServerInv, Start PROVE ServerInv'
<1>1. /\ UNCHANGED <<_rpcCallMap, pc, rpc_service, this_method, ran, failed,
                     written, crashed>>
      /\ started' = TRUE
  BY DEF Start
<1>2. TypeOK' /\ StartInv'
  BY <1>1 DEF ServerInv, TypeOK, StartInv
<1>3. TaskInv' /\ RanInv' /\ CrashOnlyByUnknown'
  BY <1>1, SameMap DEF ServerInv, TaskInv, RanInv, CrashOnlyByUnknown
<1> QED BY <1>1, <1>2, <1>3, SameMap DEF ServerInv

\* A task begins with nothing looked up and nothing run.
LEMMA ReadInv ==
    ASSUME ServerInv, NEW c \in Call, Read(c) PROVE ServerInv'
<1>1. /\ UNCHANGED <<_rpcCallMap, started, rpc_service, this_method, ran, failed,
                     written, crashed>>
      /\ pc' = [pc EXCEPT ![c] = "queued"]
      /\ pc[c] = "unsent" /\ started /\ ~crashed
  BY DEF Read, At, Goto
<1>2. TypeOK' /\ StartInv'
  BY <1>1 DEF ServerInv, TypeOK, StartInv
<1>3. TaskInv'
  BY <1>1, SameMap DEF ServerInv, TypeOK, TaskInv
<1>4. RanInv' /\ CrashOnlyByUnknown'
  BY <1>1 DEF ServerInv, TypeOK, RanInv, CrashOnlyByUnknown
<1> QED BY <1>1, <1>2, <1>3, <1>4, SameMap DEF ServerInv

\* GetService: the task has the service the map has for the name's hash.
LEMMA GetServiceInv ==
    ASSUME ServerInv, NEW c \in Call, GetService(c) PROVE ServerInv'
<1> DEFINE k == serviceid(c)
           e == Entry(k)
<1>1. /\ UNCHANGED <<started, this_method, ran, failed, written, crashed>>
      /\ pc' = [pc EXCEPT ![c] = "method"]
      /\ pc[c] = "queued" /\ ~crashed
  BY DEF GetService, At, Goto
<1>2. /\ rpc_service' = [rpc_service EXCEPT ![c] = e.rpcService]
      /\ _rpcCallMap' = With(_rpcCallMap, k, e)
  BY DEF GetService
<1>3. /\ EntryOK(k, e)
      /\ e.rpcService \in Service \cup {null}
      /\ \A i \in DOMAIN e.methodMap : e.methodMap[i] \in Method \cup {null}
  BY EntryIsOK, EntryType DEF ServerInv
<1>4. /\ DOMAIN _rpcCallMap' = DOMAIN _rpcCallMap \cup {k}
      /\ _rpcCallMap'[k] = e
      /\ \A j \in DOMAIN _rpcCallMap :
           _rpcCallMap'[j].rpcService = _rpcCallMap[j].rpcService
      /\ \A d \in Call : serviceid(d) \in DOMAIN _rpcCallMap =>
           (Offered(d)' <=> Offered(d))
  BY <1>2, SameServices
<1>5. serviceOf[c] \in Service /\ k = Hash32[serviceOf[c]]
  BY ConstantsAssumption DEF serviceid
<1> HIDE DEF e, k
<1>6. EntryInv'
  BY <1>2, <1>3, EntryStep DEF ServerInv
<1>7. TypeOK'
  <2>1. /\ DOMAIN _rpcCallMap' \subseteq {Hash32[t] : t \in Service}
        /\ \A j \in DOMAIN _rpcCallMap' :
             /\ _rpcCallMap'[j].rpcService \in Service \cup {null}
             /\ \A i \in DOMAIN _rpcCallMap'[j].methodMap :
                  _rpcCallMap'[j].methodMap[i] \in Method \cup {null}
    BY <1>2, <1>3, <1>5, MapType DEF ServerInv
  <2>2. /\ pc' \in [Call -> {"unsent", "queued", "method", "run", "write", "end"}]
        /\ rpc_service' \in [Call -> Service \cup {null}]
    BY <1>1, <1>2, <1>3 DEF ServerInv, TypeOK
  <2> QED BY <1>1, <2>1, <2>2 DEF ServerInv, TypeOK
<1>8. StartInv'
  BY <1>1 DEF ServerInv, TypeOK, StartInv
<1>9. TaskInv'
  <2> SUFFICES ASSUME NEW d \in Call
               PROVE  /\ (pc'[d] \in {"method", "run", "write", "end"} =>
                           /\ serviceid(d) \in DOMAIN _rpcCallMap'
                           /\ rpc_service'[d] = _rpcCallMap'[serviceid(d)].rpcService)
                      /\ (pc'[d] = "run" =>
                           this_method'[d] = IF Offered(d)'
                             THEN <<serviceOf[d], methodOf[d]>> ELSE null)
    BY DEF TaskInv, serviceid
  <2>1. CASE d = c
    <3>1. pc'[c] = "method" /\ rpc_service'[c] = e.rpcService
      BY <1>1, <1>2 DEF ServerInv, TypeOK
    <3> QED BY <2>1, <3>1, <1>4 DEF k
  <2>2. CASE d # c
    <3>1. pc'[d] = pc[d] /\ rpc_service'[d] = rpc_service[d]
      BY <1>1, <1>2, <2>2 DEF ServerInv, TypeOK
    <3> QED BY <3>1, <1>1, <1>4 DEF ServerInv, TaskInv
  <2> QED BY <2>1, <2>2
<1>10. RanInv' /\ CrashOnlyByUnknown'
  BY <1>1, <1>2 DEF ServerInv, TypeOK, RanInv, CrashOnlyByUnknown
<1> QED BY <1>6, <1>7, <1>8, <1>9, <1>10 DEF ServerInv

\* GetMethod: the task has the method the client named if the server has it,
\* and null if not; what is added to the map is null.
LEMMA GetMethodInv ==
    ASSUME ServerInv, NEW c \in Call, GetMethod(c) PROVE ServerInv'
<1> DEFINE k == serviceid(c)
           i == methodid(c)
           old == Entry(k)
           found == IF i \in DOMAIN old.methodMap THEN old.methodMap[i] ELSE null
           methods == With(old.methodMap, i, found)
           e == [rpcService |-> old.rpcService, methodMap |-> methods]
<1>1. /\ UNCHANGED <<started, rpc_service, ran, failed, written, crashed>>
      /\ pc' = [pc EXCEPT ![c] = "run"]
      /\ pc[c] = "method" /\ ~crashed
  BY DEF GetMethod, At, Goto
<1>2. /\ this_method' = [this_method EXCEPT ![c] = found]
      /\ _rpcCallMap' = With(_rpcCallMap, k, e)
  BY DEF GetMethod
<1>3. /\ EntryOK(k, old)
      /\ old.rpcService \in Service \cup {null}
      /\ \A j \in DOMAIN old.methodMap : old.methodMap[j] \in Method \cup {null}
  BY EntryIsOK, EntryType DEF ServerInv
<1>4. e.rpcService = old.rpcService /\ e.methodMap = methods
  OBVIOUS
<1>5. /\ DOMAIN methods = DOMAIN old.methodMap \cup {i}
      /\ methods[i] = found
      /\ \A j \in DOMAIN old.methodMap : methods[j] = old.methodMap[j]
  BY DEF With
<1>6. /\ serviceOf[c] \in Service /\ serviceOf[c] # null
      /\ k = Hash32[serviceOf[c]] /\ i = methodOf[c] /\ i \in Nat
      /\ method_count[serviceOf[c]] \in Nat
  BY ConstantsAssumption, NullAssumption DEF serviceid, methodid
<1>7. \/ i \in DOMAIN old.methodMap /\ found = old.methodMap[i]
      \/ i \notin DOMAIN old.methodMap /\ found = null
  OBVIOUS
<1> HIDE DEF e, methods, found, old
<1>8. EntryOK(k, e)
  <2>1. CASE old.rpcService = null
    BY <2>1, <1>3, <1>4, <1>5, <1>7 DEF EntryOK
  <2>2. CASE old.rpcService # null
    BY <2>2, <1>3, <1>4, <1>5, <1>7 DEF EntryOK
  <2> QED BY <2>1, <2>2
<1>9. found \in Method \cup {null}
  BY <1>3, <1>7
<1>10. /\ DOMAIN _rpcCallMap' = DOMAIN _rpcCallMap \cup {k}
       /\ _rpcCallMap'[k] = e
       /\ \A j \in DOMAIN _rpcCallMap :
            _rpcCallMap'[j].rpcService = _rpcCallMap[j].rpcService
       /\ \A d \in Call : serviceid(d) \in DOMAIN _rpcCallMap =>
            (Offered(d)' <=> Offered(d))
  BY <1>2, <1>4, SameServices DEF old
<1>11. EntryInv'
  BY <1>2, <1>8, EntryStep DEF ServerInv
<1>12. TypeOK'
  <2>1. \A j \in DOMAIN e.methodMap : e.methodMap[j] \in Method \cup {null}
    BY <1>3, <1>4, <1>5, <1>9
  <2>2. /\ DOMAIN _rpcCallMap' \subseteq {Hash32[t] : t \in Service}
        /\ \A j \in DOMAIN _rpcCallMap' :
             /\ _rpcCallMap'[j].rpcService \in Service \cup {null}
             /\ \A m \in DOMAIN _rpcCallMap'[j].methodMap :
                  _rpcCallMap'[j].methodMap[m] \in Method \cup {null}
    BY <1>2, <1>3, <1>4, <1>6, <2>1, MapType DEF ServerInv
  <2>3. /\ pc' \in [Call -> {"unsent", "queued", "method", "run", "write", "end"}]
        /\ this_method' \in [Call -> Method \cup {null}]
    BY <1>1, <1>2, <1>9 DEF ServerInv, TypeOK
  <2> QED BY <1>1, <2>2, <2>3 DEF ServerInv, TypeOK
<1>13. StartInv'
  BY <1>1 DEF ServerInv, TypeOK, StartInv
<1>14. found = IF Offered(c)' THEN <<serviceOf[c], methodOf[c]>> ELSE null
  <2>1. Offered(c)' <=> /\ old.rpcService = serviceOf[c]
                        /\ i < method_count[serviceOf[c]]
    BY <1>4, <1>6, <1>10 DEF Offered, serviceid
  <2>2. CASE old.rpcService = null
    <3>1. found = null
      BY <2>2, <1>3, <1>7 DEF EntryOK
    <3> QED BY <2>1, <2>2, <3>1, <1>6
  <2>3. CASE old.rpcService # null
    <3>1. old.rpcService = serviceOf[c]
      BY <2>3, <1>3, <1>6, HashAssumption DEF EntryOK
    <3>2. CASE i < method_count[serviceOf[c]]
      <4>1. i \in 0 .. method_count[serviceOf[c]] - 1
        BY <1>6, <3>2
      <4>2. i \in DOMAIN old.methodMap /\ old.methodMap[i] = <<serviceOf[c], i>>
        BY <4>1, <2>3, <3>1, <1>3 DEF EntryOK
      <4> QED BY <4>2, <2>1, <3>1, <3>2, <1>6, <1>7
    <3>3. CASE ~(i < method_count[serviceOf[c]])
      <4>1. i \notin 0 .. method_count[serviceOf[c]] - 1
        BY <1>6, <3>3
      <4>2. found = null
        BY <4>1, <2>3, <3>1, <1>3, <1>7 DEF EntryOK
      <4> QED BY <4>2, <2>1, <3>3
    <3> QED BY <3>2, <3>3
  <2> QED BY <2>2, <2>3
<1>15. TaskInv'
  <2> SUFFICES ASSUME NEW d \in Call
               PROVE  /\ (pc'[d] \in {"method", "run", "write", "end"} =>
                           /\ serviceid(d) \in DOMAIN _rpcCallMap'
                           /\ rpc_service'[d] = _rpcCallMap'[serviceid(d)].rpcService)
                      /\ (pc'[d] = "run" =>
                           this_method'[d] = IF Offered(d)'
                             THEN <<serviceOf[d], methodOf[d]>> ELSE null)
    BY DEF TaskInv, serviceid
  <2>1. CASE d = c
    <3>1. pc'[c] = "run" /\ this_method'[c] = found
      BY <1>1, <1>2 DEF ServerInv, TypeOK
    <3>2. /\ serviceid(c) \in DOMAIN _rpcCallMap
          /\ rpc_service[c] = _rpcCallMap[serviceid(c)].rpcService
      BY <1>1 DEF ServerInv, TaskInv
    <3> QED BY <2>1, <3>1, <3>2, <1>1, <1>10, <1>14
  <2>2. CASE d # c
    <3>1. pc'[d] = pc[d] /\ this_method'[d] = this_method[d]
      BY <1>1, <1>2, <2>2 DEF ServerInv, TypeOK
    <3>2. /\ (pc[d] \in {"method", "run", "write", "end"} =>
               /\ serviceid(d) \in DOMAIN _rpcCallMap
               /\ rpc_service[d] = _rpcCallMap[serviceid(d)].rpcService)
          /\ (pc[d] = "run" =>
               this_method[d] = IF Offered(d)
                 THEN <<serviceOf[d], methodOf[d]>> ELSE null)
      BY DEF ServerInv, TaskInv
    <3> QED BY <3>1, <3>2, <1>1, <1>10
  <2> QED BY <2>1, <2>2
<1>16. RanInv' /\ CrashOnlyByUnknown'
  BY <1>1, <1>2 DEF ServerInv, TypeOK, RanInv, CrashOnlyByUnknown
<1> QED BY <1>11, <1>12, <1>13, <1>15, <1>16 DEF ServerInv

\* FollowNull: only a task whose look-up failed has a null pointer.
LEMMA FollowNullInv ==
    ASSUME ServerInv, NEW c \in Call, FollowNull(c) PROVE ServerInv'
<1>1. /\ UNCHANGED <<_rpcCallMap, started, pc, rpc_service, this_method, ran,
                     failed, written>>
      /\ crashed' = TRUE
      /\ pc[c] = "run" /\ this_method[c] = null
  BY DEF FollowNull, At
<1>2. TypeOK' /\ StartInv' /\ TaskInv' /\ RanInv'
  <2>1. TypeOK' /\ StartInv' /\ RanInv'
    BY <1>1 DEF ServerInv, TypeOK, StartInv, RanInv
  <2>2. TaskInv'
    BY <1>1, SameMap DEF ServerInv, TaskInv
  <2> QED BY <2>1, <2>2
<1>3. Offered(c) => <<serviceOf[c], methodOf[c]>> # null
  <2>1. Offered(c) => methodOf[c] \in 0 .. method_count[serviceOf[c]] - 1
    BY ConstantsAssumption DEF Offered
  <2> QED BY <2>1, ConstantsAssumption, NullAssumption, MethodIs
<1>4. ~Offered(c)
  BY <1>1, <1>3 DEF ServerInv, TaskInv
<1>5. CrashOnlyByUnknown'
  BY <1>1, <1>4, SameMap DEF CrashOnlyByUnknown
<1> QED BY <1>1, <1>2, <1>5, SameMap DEF ServerInv

\* RunBaseMethod: the method is the named one, which no class implements.
LEMMA RunBaseMethodInv ==
    ASSUME ServerInv, NEW c \in Call, RunBaseMethod(c) PROVE ServerInv'
<1>1. /\ UNCHANGED <<_rpcCallMap, started, pc, rpc_service, this_method, ran,
                     failed, written>>
      /\ crashed' = TRUE
      /\ pc[c] = "run" /\ this_method[c] \in Method \ Implemented
  BY DEF RunBaseMethod, At
<1>2. TypeOK' /\ StartInv' /\ TaskInv' /\ RanInv'
  <2>1. TypeOK' /\ StartInv' /\ RanInv'
    BY <1>1 DEF ServerInv, TypeOK, StartInv, RanInv
  <2>2. TaskInv'
    BY <1>1, SameMap DEF ServerInv, TaskInv
  <2> QED BY <2>1, <2>2
<1>3. this_method[c] # null
  BY <1>1, NullAssumption
<1>4. <<serviceOf[c], methodOf[c]>> \notin Implemented
  BY <1>1, <1>3 DEF ServerInv, TaskInv
<1>5. CrashOnlyByUnknown'
  BY <1>1, <1>4 DEF CrashOnlyByUnknown
<1> QED BY <1>1, <1>2, <1>5, SameMap DEF ServerInv

\* A method run for a call for which none was.
LEMMA RunOnce ==
    ASSUME NEW m
    PROVE  Append(<<>>, m) = <<m>> /\ <<m>> # <<>> /\ Len(<<m>>) = 1
OBVIOUS

\* RunMethod: the method that runs is the one the client named, and the server
\* has it.
LEMMA RunMethodInv ==
    ASSUME ServerInv, NEW c \in Call, RunMethod(c) PROVE ServerInv'
<1>1. /\ UNCHANGED <<_rpcCallMap, started, rpc_service, this_method, written,
                     crashed>>
      /\ pc[c] = "run" /\ ~crashed
      /\ this_method[c] \in Implemented /\ this_method[c] # null
      /\ ran' = [ran EXCEPT ![c] = Append(@, this_method[c])]
      /\ failed' \subseteq failed \cup {c}
      /\ \/ pc' = [pc EXCEPT ![c] = "write"]
         \/ pc' = [pc EXCEPT ![c] = "end"]
  BY ImplementedAssumption, NullAssumption DEF RunMethod, At, Goto
<1>2. /\ Offered(c)
      /\ this_method[c] = <<serviceOf[c], methodOf[c]>>
      /\ rpc_service[c] = _rpcCallMap[serviceid(c)].rpcService
  BY <1>1 DEF ServerInv, TaskInv
<1>3. rpc_service[c] = serviceOf[c]
  BY <1>2 DEF Offered
<1>4. /\ pc'[c] \in {"write", "end"}
      /\ ran'[c] = <<Named(c)>>
      /\ \A d \in Call : d # c => pc'[d] = pc[d] /\ ran'[d] = ran[d]
  <2>1. ran[c] = <<>>
    BY <1>1 DEF ServerInv, RanInv
  <2>2. ran'[c] = Append(<<>>, Named(c))
    BY <1>1, <1>2, <2>1 DEF ServerInv, TypeOK, Named
  <2>3. ran'[c] = <<Named(c)>>
    BY <2>2, RunOnce
  <2> QED BY <1>1, <2>3 DEF ServerInv, TypeOK
<1>5. TypeOK'
  <2>1. this_method[c] \in Method
    BY <1>1 DEF ServerInv, TypeOK
  <2>2. ran' \in [Call -> Seq(Method)]
    <3>1. Append(ran[c], this_method[c]) \in Seq(Method)
      BY <2>1, AppendProperties DEF ServerInv, TypeOK
    <3> QED BY <1>1, <3>1 DEF ServerInv, TypeOK
  <2>3. /\ pc' \in [Call -> {"unsent", "queued", "method", "run", "write", "end"}]
        /\ failed' \subseteq Call
    BY <1>1 DEF ServerInv, TypeOK
  <2> QED BY <1>1, <2>2, <2>3 DEF ServerInv, TypeOK
<1>6. StartInv'
  BY <1>1, <1>4 DEF ServerInv, StartInv
<1>7. TaskInv'
  <2> SUFFICES ASSUME NEW d \in Call
               PROVE  /\ (pc'[d] \in {"method", "run", "write", "end"} =>
                           /\ serviceid(d) \in DOMAIN _rpcCallMap
                           /\ rpc_service[d] = _rpcCallMap[serviceid(d)].rpcService)
                      /\ (pc'[d] = "run" =>
                           this_method[d] = IF Offered(d)
                             THEN <<serviceOf[d], methodOf[d]>> ELSE null)
    BY <1>1, SameMap DEF TaskInv, serviceid
  <2>1. CASE d = c
    BY <2>1, <1>1, <1>4 DEF ServerInv, TaskInv
  <2>2. CASE d # c
    BY <2>2, <1>4 DEF ServerInv, TaskInv
  <2> QED BY <2>1, <2>2
<1>8. RanInv'
  <2> SUFFICES ASSUME NEW d \in Call
               PROVE  /\ (pc'[d] \in {"write", "end"} =>
                            /\ ran'[d] = <<Named(d)>> /\ Named(d) \in Implemented
                            /\ rpc_service[d] = serviceOf[d])
                      /\ (pc'[d] \notin {"write", "end"} => ran'[d] = <<>>)
                      /\ (d \in written => pc'[d] = "end")
    BY <1>1 DEF RanInv, Named
  <2>1. CASE d = c
    <3>1. c \notin written
      BY <1>1 DEF ServerInv, RanInv
    <3>2. Named(c) \in Implemented
      BY <1>1, <1>2 DEF Named
    <3> QED BY <2>1, <3>1, <3>2, <1>3, <1>4
  <2>2. CASE d # c
    BY <2>2, <1>4 DEF ServerInv, RanInv
  <2> QED BY <2>1, <2>2
<1>9. CrashOnlyByUnknown'
  BY <1>1 DEF CrashOnlyByUnknown
<1> QED BY <1>1, <1>5, <1>6, <1>7, <1>8, <1>9, SameMap DEF ServerInv

\* A response is written for a task that has run, or its exception ends it.
LEMMA WriteInv ==
    ASSUME ServerInv, NEW c \in Call, Write(c) PROVE ServerInv'
<1>1. /\ UNCHANGED <<_rpcCallMap, started, rpc_service, this_method, ran,
                     crashed>>
      /\ pc[c] = "write" /\ ~crashed
      /\ pc' = [pc EXCEPT ![c] = "end"]
      /\ failed' \subseteq failed \cup {c}
      /\ written' \subseteq written \cup {c}
  BY DEF Write, At, Goto
<1>2. /\ pc'[c] = "end"
      /\ \A d \in Call : d # c => pc'[d] = pc[d]
  BY <1>1 DEF ServerInv, TypeOK
<1>3. TypeOK'
  BY <1>1 DEF ServerInv, TypeOK
<1>4. StartInv'
  BY <1>1, <1>2 DEF ServerInv, StartInv
<1>5. TaskInv'
  BY <1>1, <1>2, SameMap DEF ServerInv, TaskInv, serviceid
<1>6. RanInv'
  BY <1>1, <1>2 DEF ServerInv, RanInv
<1>7. CrashOnlyByUnknown'
  BY <1>1 DEF CrashOnlyByUnknown
<1> QED BY <1>1, <1>3, <1>4, <1>5, <1>6, <1>7, SameMap DEF ServerInv

\* Every step keeps the invariant.
LEMMA ServerNextInv == ServerInv /\ [Next]_vars => ServerInv'
<1> SUFFICES ASSUME ServerInv, [Next]_vars PROVE ServerInv'
  OBVIOUS
<1>1. CASE UNCHANGED vars
  <2>1. /\ UNCHANGED <<_rpcCallMap, started, pc, rpc_service, this_method, ran>>
        /\ UNCHANGED <<failed, written, crashed>>
    BY <1>1 DEF vars
  <2>2. TypeOK' /\ StartInv' /\ RanInv'
    BY <2>1 DEF ServerInv, TypeOK, StartInv, RanInv
  <2>3. TaskInv' /\ CrashOnlyByUnknown'
    BY <2>1, SameMap DEF ServerInv, TaskInv, CrashOnlyByUnknown
  <2> QED BY <2>1, <2>2, <2>3, SameMap DEF ServerInv
<1>2. ASSUME NEW c \in Call, handleRpcCall(c) PROVE ServerInv'
  BY <1>2, GetServiceInv, GetMethodInv, FollowNullInv, RunBaseMethodInv,
     RunMethodInv
     DEF handleRpcCall
<1> QED
  BY <1>1, <1>2, RegisterInv, StartStep, ReadInv, WriteInv DEF Next

\* The invariant holds throughout.
LEMMA ServerInvAlways == Spec => []ServerInv
BY ServerInitInv, ServerNextInv, PTL DEF Spec

-----------------------------------------------------------------------------
(* The theorems about the server.                                          *)

\* pbRPCServer's map and its tasks' variables stay of their types.
THEOREM ServerTypeCorrect == Spec => []TypeOK
<1>1. ServerInv => TypeOK
  BY DEF ServerInv
<1> QED BY <1>1, ServerInvAlways, PTL

\* handleRpcCall runs, for a request, nothing but the method its client named,
\* at most once, on that service's object, and answers only what it has run, whatever
\* requests are served at the same time and whatever their look-ups insert.
THEOREM NamedMethodRuns == Spec => []ServedByNamed
<1>1. ServerInv => ServedByNamed
  <2> SUFFICES ASSUME ServerInv, NEW c \in Call
               PROVE  /\ ran[c] \in {<<>>, <<<<serviceOf[c], methodOf[c]>>>>}
                      /\ (ran[c] # <<>> =>
                            /\ <<serviceOf[c], methodOf[c]>> \in Implemented
                            /\ rpc_service[c] = serviceOf[c])
                      /\ (c \in written => ran[c] # <<>>)
    BY DEF ServedByNamed
  <2>1. CASE pc[c] \in {"write", "end"}
    <3>1. /\ ran[c] = <<Named(c)>> /\ Named(c) \in Implemented
          /\ rpc_service[c] = serviceOf[c]
      BY <2>1 DEF ServerInv, RanInv
    <3>2. ran[c] # <<>>
      BY <3>1, RunOnce
    <3> QED BY <3>1, <3>2 DEF Named
  <2>2. CASE pc[c] \notin {"write", "end"}
    BY <2>2 DEF ServerInv, RanInv, Named
  <2> QED BY <2>1, <2>2
<1> QED BY <1>1, ServerInvAlways, PTL

\* Only a request for what the server does not have, or has no code for, makes
\* it follow a null pointer.
THEOREM UnknownNameCrashes == Spec => []CrashOnlyByUnknown
<1>1. ServerInv => CrashOnlyByUnknown
  BY DEF ServerInv
<1> QED BY <1>1, ServerInvAlways, PTL

-----------------------------------------------------------------------------
(* The two ends.                                                           *)

\* The assumption of ClientDispatcher is the one of this module.
LEMMA Assumptions == CP!ConstantsAssumption
BY ClientAssumption DEF CP!ConstantsAssumption, IsFiniteSet, CP!IsFiniteSet

\* The initial states are those of the client and of the server.
LEMMA InitBoth == SystemInit => CP!Init /\ Init
BY DEF SystemInit, Client!Init, CP!Init, Client!Idle, CP!Idle

\* A step of the client's own is one of ClientDispatcher.
LEMMA ClientStepIs == ClientStep => CP!Next
<1> SUFFICES ASSUME ClientStep PROVE CP!Next
  OBVIOUS
<1> USE DEF Client!Goto, CP!Goto, Client!Settle, CP!Settle
<1>1. ASSUME NEW c \in Call, Client!Invoke(c) PROVE CP!Invoke(c)
  BY <1>1 DEF Client!Invoke, CP!Invoke, Client!At, CP!At, Client!Running,
     CP!Running, Client!Cardinality, CP!Cardinality
<1>2. ASSUME NEW c \in Call, Client!CheckLimit(c) PROVE CP!CheckLimit(c)
  BY <1>2 DEF Client!CheckLimit, CP!CheckLimit, Client!Cardinality,
     CP!Cardinality
<1>3. ASSUME NEW c \in Call, Client!Insert(c) PROVE CP!Insert(c)
  BY <1>3 DEF Client!Insert, CP!Insert
<1>4. ASSUME NEW c \in Call, Client!Write(c) PROVE CP!Write(c)
  BY <1>4 DEF Client!Write, CP!Write
<1>5. ASSUME NEW c \in Call, Client!Arm(c) PROVE CP!Arm(c)
  BY <1>5 DEF Client!Arm, CP!Arm
<1>6. ASSUME NEW c \in Call, Client!TimerFires(c) PROVE CP!TimerFires(c)
  BY <1>6 DEF Client!TimerFires, CP!TimerFires
<1>7. ASSUME NEW c \in Call, Client!TimeoutHandler(c) PROVE CP!TimeoutHandler(c)
  BY <1>7 DEF Client!TimeoutHandler, CP!TimeoutHandler, Client!Erase,
     CP!Erase
<1>8. ASSUME NEW c \in Call, Client!BreakPromise(c) PROVE CP!BreakPromise(c)
  BY <1>8 DEF Client!BreakPromise, CP!BreakPromise
<1>9. ASSUME NEW r \in Reader, Client!ReadErase(r) PROVE CP!ReadErase(r)
  BY <1>9 DEF Client!ReadErase, CP!ReadErase, Client!Erase, CP!Erase
<1>10. ASSUME NEW r \in Reader, Client!ReadSet(r) PROVE CP!ReadSet(r)
  BY <1>10 DEF Client!ReadSet, CP!ReadSet, Client!Idle, CP!Idle
<1>11. ASSUME NEW r \in Reader, NEW c \in Call, Client!ReadFind(r, c)
      PROVE  CP!ReadFind(r, c)
  BY <1>11 DEF Client!ReadFind, CP!ReadFind
<1> QED
  BY <1>1, <1>2, <1>3, <1>4, <1>5, <1>6, <1>7, <1>8, <1>9, <1>10,
     <1>11
  DEF ClientStep, Client!Operate, CP!Operate, Client!Deliver, CP!Deliver,
      CP!Next

\* A step of the server's own is one of RpcServer.
LEMMA ServerStepIs == ServerStep => Next
BY DEF ServerStep, Next

\* The two steps in which the ends meet are steps of both, or of the server.
LEMMA ArriveIs ==
  ASSUME NEW c \in Call, Arrive(c) PROVE Next /\ UNCHANGED CP!vars
BY DEF Arrive, client, CP!vars, Next

\* A response is written by the server, and read or not by the client.
LEMMA RespondIs ==
  ASSUME NEW c \in Call, Respond(c) PROVE Next /\ [CP!Next]_(CP!vars)
<1>1. Write(c)
  BY DEF Respond
<1>2. CP!Serve(c) \/ UNCHANGED CP!vars
  BY DEF Respond, Client!Serve, CP!Serve, client, CP!vars
<1> QED BY <1>1, <1>2 DEF Next, CP!Next

\* Every step is one of the client or none, and one of the server or none.
LEMMA StepBoth ==
  [SystemNext]_systemVars => [CP!Next]_(CP!vars) /\ [Next]_vars
<1> SUFFICES ASSUME [SystemNext]_systemVars
             PROVE  [CP!Next]_(CP!vars) /\ [Next]_vars
  OBVIOUS
<1>1. UNCHANGED client => UNCHANGED CP!vars
  BY DEF client, CP!vars
<1>2. CASE ClientStep
  BY <1>2, ClientStepIs DEF ClientStep
<1>3. CASE ServerStep
  BY <1>3, <1>1, ServerStepIs DEF ServerStep
<1>4. ASSUME NEW c \in Call, Arrive(c) \/ Respond(c)
      PROVE  [CP!Next]_(CP!vars) /\ [Next]_vars
  BY <1>4, ArriveIs, RespondIs
<1>5. CASE UNCHANGED systemVars
  BY <1>5, <1>1 DEF systemVars
<1> QED BY <1>2, <1>3, <1>4, <1>5 DEF SystemNext

\* So that the invariants proved of the two modules hold of the system.
LEMMA InvBoth == SystemSpec => [](CP!Inv /\ ServerInv)
<1>1. CP!Spec => []CP!Inv
  BY Assumptions, CP!InvAlways
<1> QED
  BY <1>1, ServerInvAlways, InitBoth, StepBoth, PTL
     DEF SystemSpec, CP!Spec, Spec

-----------------------------------------------------------------------------
(* The invariant that joins them.                                          *)

\* A response that is on its way, or was read, was written by the server.
Link == \A c \in Call : net[c] \in {"replied", "read"} => c \in written

\* Only the server puts a response on its way.
LEMMA LinkStep == CP!TypeOK /\ Link /\ [SystemNext]_systemVars => Link'
<1> SUFFICES ASSUME CP!TypeOK, Link, [SystemNext]_systemVars PROVE Link'
  OBVIOUS
<1>0. net \in [Call -> {"none", "sent", "replied", "read"}]
  BY DEF CP!TypeOK
<1>1. CASE ClientStep
  <2>1. \A c \in Call : net'[c] \in {"replied", "read"}
                           => net[c] \in {"replied", "read"}
    <3>1. ASSUME NEW d \in Call, Client!Invoke(d) \/ Client!Operate(d)
          PROVE  UNCHANGED net \/ net' = [net EXCEPT ![d] = "sent"]
      BY <3>1 DEF Client!Invoke, Client!Operate, Client!CheckLimit,
         Client!Insert, Client!Write, Client!Arm, Client!TimerFires,
         Client!TimeoutHandler, Client!BreakPromise
    <3>2. ASSUME NEW r \in Reader, Client!Deliver(r) PROVE UNCHANGED net
      BY <3>2 DEF Client!Deliver, Client!ReadErase, Client!ReadSet
    <3>3. ASSUME NEW r \in Reader, NEW d \in Call, Client!ReadFind(r, d)
          PROVE  net[d] = "replied" /\ net' = [net EXCEPT ![d] = "read"]
      BY <3>3 DEF Client!ReadFind
    <3> QED BY <1>0, <1>1, <3>1, <3>2, <3>3 DEF ClientStep
  <2> QED BY <1>1, <2>1 DEF ClientStep, vars, Link
<1>2. CASE ServerStep
  <2>1. UNCHANGED written
    BY <1>2 DEF ServerStep, RegisterService, Start, handleRpcCall, GetService,
       GetMethod, FollowNull, RunBaseMethod, RunMethod
  <2> QED BY <1>2, <2>1 DEF ServerStep, client, Link
<1>3. ASSUME NEW c \in Call, Arrive(c) PROVE Link'
  BY <1>3 DEF Arrive, Read, client, Link
<1>4. ASSUME NEW c \in Call, Respond(c) PROVE Link'
  <2>1. written \subseteq written'
    BY <1>4 DEF Respond, Write
  <2>2. \/ UNCHANGED net
        \/ c \in written' /\ net' = [net EXCEPT ![c] = "replied"]
    BY <1>4 DEF Respond, Client!Serve, client
  <2> QED BY <1>0, <2>1, <2>2 DEF Link
<1>5. CASE UNCHANGED systemVars
  BY <1>5 DEF systemVars, client, vars, Link
<1> QED BY <1>1, <1>2, <1>3, <1>4, <1>5 DEF SystemNext

\* So it holds in every state.
LEMMA LinkAlways == SystemSpec => []Link
<1>1. SystemInit => Link
  BY DEF SystemInit, Client!Init, Link
<1>2. CP!Inv => CP!TypeOK
  BY DEF CP!Inv
<1> QED BY <1>1, <1>2, LinkStep, InvBoth, PTL DEF SystemSpec

\* On one channel, from the stub to the future: a caller that is answered
\* without error has the response to its own request, which a thread of the
\* server has written after it ran the method the caller named, exactly once and
\* no other, for any number of calls and threads, any services, and any limit.
THEOREM EndToEndAlways ==
  ASSUME CP!OneChannel PROVE SystemSpec => []EndToEnd
<1>1. ASSUME CP!Inv, ServerInv, Link PROVE EndToEnd
  <2> SUFFICES ASSUME NEW c \in Call, outcome[c] = "NO_ERROR"
               PROVE  /\ ran[c] = <<Named(c)>>
                      /\ c \in written /\ promise[c] = c
    BY DEF EndToEnd, Named
  <2>1. promise[c] # None
    BY <1>1 DEF CP!Inv, CP!IndInv, CP!OutcomeInv
  <2>2. CP!OwnInv
    BY <1>1, Assumptions, CP!OwnInvHolds
  <2>3. promise[c] = c /\ net[c] = "read"
    BY <2>1, <2>2 DEF CP!OwnInv
  <2>4. c \in written
    BY <1>1, <2>3 DEF Link
  <2>5. ran[c] = <<Named(c)>>
    BY <1>1, <2>4 DEF ServerInv, RanInv
  <2> QED BY <2>3, <2>4, <2>5
<1>2. CP!Inv /\ ServerInv /\ Link => EndToEnd
  BY <1>1
<1> QED BY <1>2, InvBoth, LinkAlways, PTL

-----------------------------------------------------------------------------
(* Refinement.                                                             *)

\* The server has read only requests that were written.
Sent == \A c \in Call : pc[c] # "unsent" => net[c] # "none"

\* The server begins a task only with a request that was written.
LEMMA SentStep ==
  CP!TypeOK /\ TypeOK /\ Sent /\ [SystemNext]_systemVars => Sent'
<1> SUFFICES ASSUME CP!TypeOK, TypeOK, Sent, [SystemNext]_systemVars PROVE Sent'
  OBVIOUS
<1>0. /\ net \in [Call -> {"none", "sent", "replied", "read"}]
      /\ pc \in [Call -> {"unsent", "queued", "method", "run", "write", "end"}]
  BY DEF CP!TypeOK, TypeOK
<1>1. CASE ClientStep
  <2>1. UNCHANGED net \/ \E d \in Call, n \in {"sent", "read"} :
                              net' = [net EXCEPT ![d] = n]
    BY <1>1 DEF ClientStep, Client!Invoke, Client!Operate, Client!CheckLimit,
       Client!Insert, Client!Write, Client!Arm, Client!TimerFires,
       Client!TimeoutHandler, Client!BreakPromise, Client!Deliver,
       Client!ReadErase, Client!ReadSet, Client!ReadFind
  <2> QED BY <1>0, <1>1, <2>1 DEF ClientStep, vars, Sent
<1>2. CASE ServerStep
  <2>1. \/ UNCHANGED pc
        \/ \E d \in Call, l \in {"method", "run", "write", "end"} :
              pc[d] # "unsent" /\ pc' = [pc EXCEPT ![d] = l]
    BY <1>2 DEF ServerStep, RegisterService, Start, handleRpcCall, GetService,
       GetMethod, FollowNull, RunBaseMethod, RunMethod, At, Goto
  <2> QED BY <1>0, <1>2, <2>1 DEF ServerStep, client, Sent
<1>3. ASSUME NEW c \in Call, Arrive(c) PROVE Sent'
  BY <1>0, <1>3 DEF Arrive, Read, Goto, client, Sent
<1>4. ASSUME NEW c \in Call, Respond(c) PROVE Sent'
  <2>1. UNCHANGED net \/ net' = [net EXCEPT ![c] = "replied"]
    BY <1>4 DEF Respond, Client!Serve, client
  <2>2. pc[c] # "unsent" /\ pc' = [pc EXCEPT ![c] = "end"]
    BY <1>4 DEF Respond, Write, At, Goto
  <2> QED BY <1>0, <2>1, <2>2 DEF Sent
<1>5. CASE UNCHANGED systemVars
  BY <1>5 DEF systemVars, client, vars, Sent
<1> QED BY <1>1, <1>2, <1>3, <1>4, <1>5 DEF SystemNext

\* A client's step: it opens a call or ends it, as ClientDispatcher does, where
\* what the network says of a call and what the server did agree.
LEMMA ClientStepRefines ==
  ASSUME CP!OneChannel, CP!Inv, CP!NotBroken, ServerInv, Link,
         CP!Inv', CP!NotBroken', Sent', ClientStep
  PROVE  Calls!Next \/ UNCHANGED <<Client!status, executed>>
<1>1. Client!status = CP!status /\ Client!status' = CP!status'
  BY DEF Client!status, CP!status, Client!Ending, CP!Ending
<1>2. UNCHANGED <<ran, written, pc>> /\ executed' = executed
  BY DEF ClientStep, vars, executed
<1>3. CP!Calls!Next \/ UNCHANGED <<CP!status, CP!executed>>
  BY Assumptions, ClientStepIs, CP!StepImplements
<1>4. ASSUME NEW c \in Call, CP!Calls!Open(c) PROVE Calls!Open(c)
  BY <1>1, <1>2, <1>4 DEF CP!Calls!Open, Calls!Open
<1>5. ASSUME NEW c \in Call, CP!Calls!Execute(c) PROVE UNCHANGED Client!status
  BY <1>1, <1>5 DEF CP!Calls!Execute
<1>6. ASSUME NEW c \in Call, CP!Calls!Answer(c) PROVE Calls!Answer(c)
  <2>1. c \in written
    BY <1>6 DEF CP!Calls!Answer, CP!executed, Link
  <2>2. executed[c] = 1
    BY <2>1, RunOnce DEF ServerInv, RanInv, executed
  <2> QED
    BY <1>1, <1>2, <1>6, <2>2
       DEF CP!Calls!Answer, CP!Calls!End, Calls!Answer, Calls!End
<1>7. ASSUME NEW c \in Call, CP!Calls!Refuse(c) \/ CP!Calls!Fail(c)
      PROVE  Calls!Refuse(c) \/ Calls!Fail(c)
  <2>1. CP!status[c] = "open" /\ CP!status'[c] \in {"refused", "failed"}
    BY <1>7
       DEF CP!Calls!Refuse, CP!Calls!Fail, CP!Calls!End, CP!status
  <2>2. outcome'[c] \in {"PENDDING_LIMIT", "INVALID_REQUEST",
                         "LENGTH_EXCEPTION"}
    BY <2>1 DEF CP!status, CP!Ending, CP!NotBroken, CP!Inv, CP!TypeOK, CP!Error
  <2>3. net'[c] = "none"
    BY <2>2 DEF CP!Inv, CP!IndInv, CP!NetInv
  <2>4. pc[c] = "unsent"
    BY <1>2, <2>3 DEF Sent
  <2>5. executed[c] = 0
    <3>1. ran[c] = <<>>
      BY <2>4 DEF ServerInv, RanInv
    <3> QED BY <3>1 DEF executed
  <2> QED
    BY <1>1, <1>2, <1>7, <2>5 DEF CP!Calls!Refuse, CP!Calls!Fail, CP!Calls!End,
       Calls!Refuse, Calls!Fail, Calls!End
<1>8. ASSUME NEW c \in Call, CP!Calls!Expire(c) PROVE Calls!Expire(c)
  BY <1>1, <1>2, <1>8 DEF CP!Calls!Expire, CP!Calls!End, Calls!Expire, Calls!End
<1> QED
  BY <1>1, <1>2, <1>3, <1>4, <1>5, <1>6, <1>7, <1>8
     DEF CP!Calls!Next, CP!Calls!Finish, Calls!Next, Calls!Finish

\* A server's step: running the method is executing the call.
LEMMA ServerStepRefines ==
  ASSUME CP!OneChannel, CP!Inv, CP!NotBroken, ServerInv, Link, Sent, ServerStep
  PROVE  Calls!Next \/ UNCHANGED <<Client!status, executed>>
<1>1. UNCHANGED Client!status
  BY DEF ServerStep, client, Client!status
<1>2. ASSUME NEW c \in Call, RunMethod(c) PROVE Calls!Execute(c)
  <2>1. pc[c] = "run" /\ ran[c] = <<>> /\ c \notin written
    BY <1>2 DEF RunMethod, At, ServerInv, RanInv
  <2>2. net[c] = "sent"
    BY <2>1 DEF Sent, Link, CP!Inv, CP!TypeOK
  <2>3. promise[c] = None
    BY <2>2, Assumptions, CP!OwnInvHolds DEF CP!OwnInv
  <2>4. stage[c] # "new" /\ outcome[c] \in {"none", "TIMEOUT"}
    BY <2>2, <2>3 DEF CP!Inv, CP!IndInv, CP!NetInv, CP!OutcomeInv,
       CP!TypeOK, CP!Error, CP!NotBroken
  <2>5. Client!status[c] \in {"open", "expired"}
    BY <2>4 DEF Client!status, Client!Ending
  <2>6. executed' = [executed EXCEPT ![c] = 1] /\ executed[c] = 0
    <3>1. ran' = [ran EXCEPT ![c] = Append(<<>>, this_method[c])]
      BY <1>2, <2>1 DEF RunMethod
    <3>2. ran' = [ran EXCEPT ![c] = <<this_method[c]>>]
      BY <3>1, RunOnce
    <3>3. ran'[c] = <<this_method[c]>> /\ \A d \in Call : d # c => ran'[d] = ran[d]
      BY <3>2 DEF ServerInv, TypeOK
    <3>4. Len(ran'[c]) = 1 /\ Len(ran[c]) = 0
      BY <2>1, <3>3, RunOnce
    <3> QED BY <3>3, <3>4 DEF executed
  <2> QED BY <1>1, <2>5, <2>6 DEF Calls!Execute
<1>3. (\A c \in Call : ~RunMethod(c)) => UNCHANGED executed
  BY DEF ServerStep, RegisterService, Start, handleRpcCall, GetService,
     GetMethod, FollowNull, RunBaseMethod, executed
<1> QED BY <1>1, <1>2, <1>3 DEF Calls!Next

\* Every step of the system is one of RpcCalls, or none.
LEMMA SystemStepRefines ==
  ASSUME CP!OneChannel, CP!Inv, CP!NotBroken, ServerInv, Link, Sent,
         CP!Inv', CP!NotBroken', Sent', [SystemNext]_systemVars
  PROVE  [Calls!Next]_(Calls!vars)
<1>1. ASSUME NEW c \in Call, Arrive(c) \/ Respond(c)
      PROVE  UNCHANGED <<Client!status, executed>>
  <2>1. UNCHANGED <<stage, outcome, ran>>
    BY <1>1 DEF Arrive, Respond, Read, Write, Client!Serve, client
  <2> QED BY <2>1 DEF Client!status, executed
<1>2. CASE UNCHANGED systemVars
  BY <1>2 DEF systemVars, client, vars, Client!status, executed, Calls!vars
<1> QED
  BY <1>1, <1>2, ClientStepRefines, ServerStepRefines DEF SystemNext, Calls!vars

\* On one channel, client and server together implement RpcCalls: whatever
\* steps their threads take, the server runs the method of a call at most once,
\* never that of a call the client was refused or failed to write, and always
\* before the caller is answered.
THEOREM SystemImplements ==
  ASSUME CP!OneChannel PROVE SystemSpec => ImplementsRpcCalls
<1>1. SystemInit => Calls!Init /\ Sent
  BY DEF SystemInit, Client!Init, Init, Calls!Init, Client!status,
     executed, Sent
<1>2. CP!Spec => []CP!NotBroken
  BY Assumptions, CP!OneChannel, CP!NotBrokenAlways
<1>3. SystemSpec => []CP!NotBroken
  BY <1>2, InitBoth, StepBoth, PTL DEF SystemSpec, CP!Spec
<1>4. CP!Inv /\ ServerInv /\ Sent /\ [SystemNext]_systemVars => Sent'
  BY SentStep DEF CP!Inv, ServerInv
<1>5. /\ CP!Inv /\ CP!NotBroken /\ ServerInv /\ Link /\ Sent
      /\ CP!Inv' /\ CP!NotBroken' /\ Sent' /\ [SystemNext]_systemVars
      => [Calls!Next]_(Calls!vars)
  BY CP!OneChannel, SystemStepRefines
<1> QED
  BY <1>1, <1>3, <1>4, <1>5, InvBoth, LinkAlways, PTL
     DEF SystemSpec, ImplementsRpcCalls, Calls!Spec
=============================================================================
