----------------------- MODULE ClientDispatcherProofs -----------------------
(***************************************************************************)
(* Proofs about ClientDispatcher, for any number of calls, channels,       *)
(* threads and any limit.                                                  *)
(***************************************************************************)
EXTENDS ClientDispatcher, FiniteSetTheorems, TLAPS

-----------------------------------------------------------------------------
(* Type correctness.                                                       *)

\* Every variable keeps its type: in particular ids stay natural numbers and
\* an IO thread that is not idle always holds a response and a promise.
THEOREM TypeCorrect == Spec => []TypeOK
<1>1. Init => TypeOK
  BY ConstantsAssumption DEF Init, TypeOK, Idle
<1>2. TypeOK /\ [Next]_vars => TypeOK'
  <2> SUFFICES ASSUME TypeOK, [Next]_vars PROVE TypeOK'
    OBVIOUS
  <2> USE ConstantsAssumption DEF TypeOK, Settle, Goto, Running, Waiting, Error, Idle
  <2>1. ASSUME NEW c \in Call, Invoke(c) PROVE TypeOK'
    BY <2>1 DEF Invoke
  <2>2. ASSUME NEW c \in Call, CheckLimit(c) PROVE TypeOK'
    BY <2>2 DEF CheckLimit
  <2>3. ASSUME NEW c \in Call, Insert(c) PROVE TypeOK'
    BY <2>3 DEF Insert
  <2>4. ASSUME NEW c \in Call, Write(c) PROVE TypeOK'
    BY <2>4 DEF Write
  <2>5. ASSUME NEW c \in Call, Arm(c) PROVE TypeOK'
    BY <2>5 DEF Arm
  <2>6. ASSUME NEW c \in Call, TimerFires(c) PROVE TypeOK'
    BY <2>6 DEF TimerFires
  <2>7. ASSUME NEW c \in Call, TimeoutHandler(c) PROVE TypeOK'
    BY <2>7 DEF TimeoutHandler, Erase
  <2>8. ASSUME NEW c \in Call, Serve(c) PROVE TypeOK'
    BY <2>8 DEF Serve
  <2>9. ASSUME NEW c \in Call, BreakPromise(c) PROVE TypeOK'
    BY <2>9 DEF BreakPromise
  <2>10. ASSUME NEW r \in Reader, NEW in \in Call, ReadFind(r, in) PROVE TypeOK'
    BY <2>10 DEF ReadFind
  <2>11. ASSUME NEW r \in Reader, ReadErase(r) PROVE TypeOK'
    <3>1. reader[r] \in [at : {"erase", "set"}, in : Call, p : Call]
      BY <2>11 DEF ReadErase
    <3> QED BY <2>11, <3>1 DEF ReadErase, Erase
  <2>12. ASSUME NEW r \in Reader, ReadSet(r) PROVE TypeOK'
    <3>1. reader[r] \in [at : {"erase", "set"}, in : Call, p : Call]
      BY <2>12 DEF ReadSet
    <3> QED BY <2>12, <3>1 DEF ReadSet
  <2>13. CASE UNCHANGED vars
    BY <2>13 DEF vars
  <2> QED
    BY <2>1, <2>2, <2>3, <2>4, <2>5, <2>6, <2>7, <2>8, <2>9, <2>10, <2>11,
       <2>12, <2>13 DEF Next, Operate, Deliver
<1> QED
  BY <1>1, <1>2, PTL DEF Spec

-----------------------------------------------------------------------------
(* The inductive invariant.                                                *)

\* Call c went past the insertion: its entry is not inserted any more.
Inserted(c) == pc[c] \notin {"new", "limit", "insert"}

\* A request is on the network only after the insertion, and not at all for a
\* call refused by the dispatcher or by the write.
NetInv == \A c \in Call :
    /\ net[c] # "none" => pc[c] \notin {"new", "limit", "insert", "write"}
    /\ outcome[c] \in {"PENDDING_LIMIT", "INVALID_REQUEST", "LENGTH_EXCEPTION"}
         => net[c] = "none"

\* What an IO thread holds: a response read from the network and a promise
\* found under its id, out of the table once the entry is erased.
ReaderInv == \A r \in Reader : reader[r].at # "idle" =>
    /\ net[reader[r].in] = "read"
    /\ Inserted(reader[r].p)
    /\ id[reader[r].in] = id[reader[r].p]
    /\ reader[r].at = "set" => reader[r].p \notin requests_

\* A response in a promise was read from the network under the promise's id.
PromiseInv == \A c \in Call : promise[c] # None =>
    /\ Inserted(c)
    /\ c \notin requests_
    /\ net[promise[c]] = "read"
    /\ id[promise[c]] = id[c]

\* An entry of the table belongs to a call past the insertion that has no
\* outcome but the exception of an oversized request.
TableInv == \A c \in requests_ :
    /\ Inserted(c)
    /\ outcome[c] \in {"none", "LENGTH_EXCEPTION"}

\* The future is ready exactly at the end of the call, and without error only
\* if the promise holds a response.
OutcomeInv == \A c \in Call :
    /\ outcome[c] = "none" <=> pc[c] # "done"
    /\ outcome[c] = "NO_ERROR" => promise[c] # None

IndInv == NetInv /\ ReaderInv /\ PromiseInv /\ TableInv /\ OutcomeInv

\* Ids drawn on one channel are distinct and below the channel's counter.
UniqueIds ==
    /\ \A c \in Call : pc[c] # "new" => id[c] < request_id[ChannelOf[c]]
    /\ \A c, d \in Call :
          (pc[c] # "new" /\ pc[d] # "new" /\ ChannelOf[c] = ChannelOf[d])
            => (id[c] = id[d] => c = d)

\* All calls are made on one channel.
OneChannel == \A c, d \in Call : ChannelOf[c] = ChannelOf[d]

\* No two IO threads deliver the same response, and none delivers a response
\* that is in a promise already.
DeliveredOnce ==
    /\ \A r, s \in Reader :
          (reader[r].at # "idle" /\ reader[s].at # "idle")
            => (reader[r].in = reader[s].in => r = s)
    /\ \A r \in Reader, c \in Call :
          reader[r].at # "idle" => promise[c] # reader[r].in

\* On one channel a call without an entry has its response, or an IO thread
\* is about to set it: its promise is never broken.
NotBroken ==
    /\ \A c \in Call : outcome[c] # "BROKEN_PROMISE"
    /\ \A c \in Call :
          (pc[c] \in {"write", "arm", "await"} /\ c \notin requests_)
            => \/ promise[c] # None
               \/ \E r \in Reader : reader[r].at # "idle" /\ reader[r].p = c

OneChannelInv == UniqueIds /\ DeliveredOnce /\ NotBroken

\* The entries and the calls between the check and the insertion are counted
\* together; at most Threads calls are inside operator().
CountInv ==
    /\ Cardinality(At(Running)) <= Threads
    /\ Cardinality(requests_) + Cardinality(At({"insert"}))
          <= reqlimit + Threads - 1

-----------------------------------------------------------------------------
(* Preservation, one step per action.                                      *)

\* The invariants hold in the first state.
LEMMA IndInvInit == Init => IndInv /\ UniqueIds /\ DeliveredOnce /\ NotBroken
BY DEF Init, IndInv, NetInv, ReaderInv, PromiseInv, TableInv, OutcomeInv,
       UniqueIds, DeliveredOnce, NotBroken, Idle

\* Every step keeps the relations between calls, table and IO threads.
LEMMA IndInvStep == TypeOK /\ IndInv /\ [Next]_vars => IndInv'
<1> SUFFICES ASSUME TypeOK, IndInv, [Next]_vars PROVE IndInv'
  OBVIOUS
<1> USE ConstantsAssumption
    DEF TypeOK, IndInv, NetInv, ReaderInv, PromiseInv, TableInv, OutcomeInv,
        Inserted, Settle, Goto, Running, Waiting, Error, Idle
<1>1. ASSUME NEW c \in Call, Invoke(c) PROVE IndInv'
    BY <1>1 DEF Invoke
<1>2. ASSUME NEW c \in Call, CheckLimit(c) PROVE IndInv'
    BY <1>2 DEF CheckLimit
<1>3. ASSUME NEW c \in Call, Insert(c) PROVE IndInv'
    BY <1>3 DEF Insert
<1>4. ASSUME NEW c \in Call, Write(c) PROVE IndInv'
    BY <1>4 DEF Write
<1>5. ASSUME NEW c \in Call, Arm(c) PROVE IndInv'
    BY <1>5 DEF Arm
<1>6. ASSUME NEW c \in Call, TimerFires(c) PROVE IndInv'
    BY <1>6 DEF TimerFires
<1>7. ASSUME NEW c \in Call, TimeoutHandler(c) PROVE IndInv'
    BY <1>7 DEF TimeoutHandler, Erase
<1>8. ASSUME NEW c \in Call, Serve(c) PROVE IndInv'
    BY <1>8 DEF Serve
<1>9. ASSUME NEW c \in Call, BreakPromise(c) PROVE IndInv'
    BY <1>9 DEF BreakPromise
<1>10. ASSUME NEW r \in Reader, NEW in \in Call, ReadFind(r, in) PROVE IndInv'
    BY <1>10 DEF ReadFind
<1>11. ASSUME NEW r \in Reader, ReadErase(r) PROVE IndInv'
    BY <1>11 DEF ReadErase, Erase
<1>12. ASSUME NEW r \in Reader, ReadSet(r) PROVE IndInv'
    BY <1>12 DEF ReadSet
<1>13. CASE UNCHANGED vars
    BY <1>13 DEF vars
<1> QED
    BY <1>1, <1>2, <1>3, <1>4, <1>5, <1>6,
       <1>7, <1>8, <1>9, <1>10, <1>11, <1>12, <1>13 DEF Next, Operate, Deliver

\* A step that takes no request id and starts no call keeps the ids apart.
LEMMA UniqueIdsFrame ==
  ASSUME UniqueIds, UNCHANGED <<id, request_id>>,
         \A d \in Call : pc'[d] # "new" => pc[d] # "new"
  PROVE  UniqueIds'
BY DEF UniqueIds

\* An id is drawn once on each channel.
LEMMA UniqueIdsStep == TypeOK /\ UniqueIds /\ [Next]_vars => UniqueIds'
<1> SUFFICES ASSUME TypeOK, UniqueIds, [Next]_vars PROVE UniqueIds'
  OBVIOUS
<1> DEFINE NoNewCall == /\ UNCHANGED <<id, request_id>>
                        /\ \A d \in Call : pc'[d] # "new" => pc[d] # "new"
<1>1. ASSUME NEW c \in Call, Invoke(c) PROVE UniqueIds'
  <2>1. pc[c] = "new" /\ pc' = [pc EXCEPT ![c] = "limit"]
    BY <1>1 DEF Invoke, Goto
  <2>2. /\ id' = [id EXCEPT ![c] = request_id[ChannelOf[c]]]
        /\ request_id' = [request_id EXCEPT ![ChannelOf[c]] = @ + 1]
    BY <1>1 DEF Invoke
  <2>3. \A d \in Call \ {c} : pc'[d] = pc[d] /\ id'[d] = id[d]
    BY <2>1, <2>2 DEF TypeOK
  <2>4. id'[c] = request_id[ChannelOf[c]]
    BY <2>2 DEF TypeOK
  <2>5. \A d \in Call : ChannelOf[d] # ChannelOf[c]
                          => request_id'[ChannelOf[d]] = request_id[ChannelOf[d]]
    BY <2>2, ConstantsAssumption DEF TypeOK
  <2>6. request_id'[ChannelOf[c]] = request_id[ChannelOf[c]] + 1
    BY <2>2, ConstantsAssumption DEF TypeOK
  <2>7. \A d \in Call : id[d] \in Int /\ request_id[ChannelOf[d]] \in Int
    BY ConstantsAssumption DEF TypeOK
  <2>8. ASSUME NEW d \in Call, pc'[d] # "new"
        PROVE  id'[d] < request_id'[ChannelOf[d]]
    BY <2>3, <2>4, <2>5, <2>6, <2>7, <2>8 DEF UniqueIds
  <2>9. ASSUME NEW d \in Call, NEW e \in Call, pc'[d] # "new", pc'[e] # "new",
               ChannelOf[d] = ChannelOf[e], id'[d] = id'[e]
        PROVE  d = e
    <3>1. CASE d # c /\ e # c
      BY <3>1, <2>3, <2>9 DEF UniqueIds
    <3>2. CASE d = c /\ e # c
      <4>1. id[e] < request_id[ChannelOf[e]]
        BY <3>2, <2>3, <2>9 DEF UniqueIds
      <4> QED BY <4>1, <3>2, <2>3, <2>4, <2>7, <2>9
    <3>3. CASE d # c /\ e = c
      <4>1. id[d] < request_id[ChannelOf[d]]
        BY <3>3, <2>3, <2>9 DEF UniqueIds
      <4> QED BY <4>1, <3>3, <2>3, <2>4, <2>7, <2>9
    <3> QED BY <3>1, <3>2, <3>3
  <2> QED BY <2>8, <2>9 DEF UniqueIds
<1>2. ASSUME NEW c \in Call, CheckLimit(c) PROVE NoNewCall
  <2>1. /\ pc[c] = "limit" /\ UNCHANGED <<id, request_id>>
        /\ \E label \in {"done", "insert"} : pc' = [pc EXCEPT ![c] = label]
    <3> HIDE DEF TypeOK, UniqueIds
    <3>1. CASE Cardinality(requests_) >= reqlimit
      BY <1>2, <3>1, ZenonT(30) DEF CheckLimit, Settle
    <3>2. CASE ~(Cardinality(requests_) >= reqlimit)
      BY <1>2, <3>2, ZenonT(30) DEF CheckLimit, Goto
    <3> QED BY <3>1, <3>2
  <2> QED BY <2>1 DEF TypeOK
<1>3. ASSUME NEW c \in Call, Insert(c) PROVE NoNewCall
  <2>1. /\ pc[c] = "insert" /\ UNCHANGED <<id, request_id>>
        /\ \E label \in {"done", "write"} : pc' = [pc EXCEPT ![c] = label]
    BY <1>3 DEF Insert, Settle, Goto
  <2> QED BY <2>1 DEF TypeOK
<1>4. ASSUME NEW c \in Call, Write(c) PROVE NoNewCall
    BY <1>4 DEF Write, Settle, Goto, TypeOK
<1>5. ASSUME NEW c \in Call, Arm(c) PROVE NoNewCall
    BY <1>5 DEF Arm, Settle, Goto, TypeOK
<1>6. ASSUME NEW c \in Call, TimerFires(c) PROVE NoNewCall
    BY <1>6 DEF TimerFires, Settle, Goto, Waiting, TypeOK
<1>7. ASSUME NEW c \in Call, TimeoutHandler(c) PROVE NoNewCall
    BY <1>7 DEF TimeoutHandler, Settle, Goto, TypeOK
<1>8. ASSUME NEW c \in Call, Serve(c) PROVE NoNewCall
    BY <1>8 DEF Serve
<1>9. ASSUME NEW c \in Call, BreakPromise(c) PROVE NoNewCall
    BY <1>9 DEF BreakPromise, Settle, Goto, Waiting, TypeOK
<1>10. ASSUME NEW r \in Reader, NEW in \in Call, ReadFind(r, in) PROVE NoNewCall
    BY <1>10 DEF ReadFind
<1>11. ASSUME NEW r \in Reader, ReadErase(r) PROVE NoNewCall
    BY <1>11 DEF ReadErase
<1>12. ASSUME NEW r \in Reader, ReadSet(r) PROVE NoNewCall
    BY <1>12 DEF ReadSet, Settle, Goto, Waiting, TypeOK
<1>13. CASE UNCHANGED vars
    BY <1>13 DEF vars, UniqueIds
<1>14. NoNewCall => UniqueIds'
    BY UniqueIdsFrame
<1> HIDE DEF NoNewCall
<1> QED
    BY <1>1, <1>2, <1>3, <1>4, <1>5, <1>6, <1>7, <1>8,
       <1>9, <1>10, <1>11, <1>12, <1>13, <1>14 DEF Next, Operate, Deliver

\* A response is read from the network by one IO thread.
LEMMA DeliveredOnceStep ==
  TypeOK /\ IndInv /\ DeliveredOnce /\ [Next]_vars => DeliveredOnce'
<1> SUFFICES ASSUME TypeOK, IndInv, DeliveredOnce, [Next]_vars
             PROVE  DeliveredOnce'
  OBVIOUS
<1> USE ConstantsAssumption
    DEF TypeOK, IndInv, ReaderInv, PromiseInv, DeliveredOnce,
        Settle, Goto, Running, Waiting, Error, Idle
<1>1. ASSUME NEW c \in Call, Invoke(c) PROVE DeliveredOnce'
    BY <1>1 DEF Invoke
<1>2. ASSUME NEW c \in Call, CheckLimit(c) PROVE DeliveredOnce'
    BY <1>2 DEF CheckLimit
<1>3. ASSUME NEW c \in Call, Insert(c) PROVE DeliveredOnce'
    BY <1>3 DEF Insert
<1>4. ASSUME NEW c \in Call, Write(c) PROVE DeliveredOnce'
    BY <1>4 DEF Write
<1>5. ASSUME NEW c \in Call, Arm(c) PROVE DeliveredOnce'
    BY <1>5 DEF Arm
<1>6. ASSUME NEW c \in Call, TimerFires(c) PROVE DeliveredOnce'
    BY <1>6 DEF TimerFires
<1>7. ASSUME NEW c \in Call, TimeoutHandler(c) PROVE DeliveredOnce'
    BY <1>7 DEF TimeoutHandler, Erase
<1>8. ASSUME NEW c \in Call, Serve(c) PROVE DeliveredOnce'
    BY <1>8 DEF Serve
<1>9. ASSUME NEW c \in Call, BreakPromise(c) PROVE DeliveredOnce'
    BY <1>9 DEF BreakPromise
<1>10. ASSUME NEW r \in Reader, NEW in \in Call, ReadFind(r, in) PROVE DeliveredOnce'
    BY <1>10 DEF ReadFind
<1>11. ASSUME NEW r \in Reader, ReadErase(r) PROVE DeliveredOnce'
    BY <1>11 DEF ReadErase, Erase
<1>12. ASSUME NEW r \in Reader, ReadSet(r) PROVE DeliveredOnce'
    BY <1>12 DEF ReadSet
<1>13. CASE UNCHANGED vars
    BY <1>13 DEF vars
<1> QED
    BY <1>1, <1>2, <1>3, <1>4, <1>5, <1>6,
       <1>7, <1>8, <1>9, <1>10, <1>11, <1>12, <1>13 DEF Next, Operate, Deliver

\* On one channel a promise is held by the table or an IO thread until it is
\* satisfied.
LEMMA NotBrokenStep ==
  ASSUME OneChannel
  PROVE  TypeOK /\ IndInv /\ UniqueIds /\ NotBroken /\ [Next]_vars => NotBroken'
<1> SUFFICES ASSUME TypeOK, IndInv, UniqueIds, NotBroken, [Next]_vars
             PROVE  NotBroken'
  OBVIOUS
<1> USE ConstantsAssumption
    DEF TypeOK, IndInv, NetInv, ReaderInv, TableInv, OutcomeInv, Inserted,
        UniqueIds, NotBroken, Settle, Goto, Running, Waiting, Error, Idle
<1>1. ASSUME NEW c \in Call, Invoke(c) PROVE NotBroken'
    BY <1>1, OneChannel DEF OneChannel, Invoke
<1>2. ASSUME NEW c \in Call, CheckLimit(c) PROVE NotBroken'
    BY <1>2, OneChannel DEF OneChannel, CheckLimit
<1>3. ASSUME NEW c \in Call, Insert(c) PROVE NotBroken'
    BY <1>3, OneChannel DEF OneChannel, Insert
<1>4. ASSUME NEW c \in Call, Write(c) PROVE NotBroken'
    BY <1>4, OneChannel DEF OneChannel, Write
<1>5. ASSUME NEW c \in Call, Arm(c) PROVE NotBroken'
    BY <1>5, OneChannel DEF OneChannel, Arm
<1>6. ASSUME NEW c \in Call, TimerFires(c) PROVE NotBroken'
    BY <1>6, OneChannel DEF OneChannel, TimerFires
<1>7. ASSUME NEW c \in Call, TimeoutHandler(c) PROVE NotBroken'
    BY <1>7, OneChannel DEF OneChannel, TimeoutHandler, Erase
<1>8. ASSUME NEW c \in Call, Serve(c) PROVE NotBroken'
    BY <1>8, OneChannel DEF OneChannel, Serve
<1>9. ASSUME NEW c \in Call, BreakPromise(c) PROVE NotBroken'
    BY <1>9, OneChannel DEF OneChannel, BreakPromise
<1>10. ASSUME NEW r \in Reader, NEW in \in Call, ReadFind(r, in) PROVE NotBroken'
  <2>1. /\ UNCHANGED <<pc, outcome, requests_, promise>>
        /\ \A s \in Reader : reader[s].at # "idle" => reader'[s] = reader[s]
    BY <1>10 DEF ReadFind
  <2> QED BY <2>1
<1>11. ASSUME NEW r \in Reader, ReadErase(r) PROVE NotBroken'
    BY <1>11, OneChannel DEF OneChannel, ReadErase, Erase
<1>12. ASSUME NEW r \in Reader, ReadSet(r) PROVE NotBroken'
    BY <1>12, OneChannel DEF OneChannel, ReadSet
<1>13. CASE UNCHANGED vars
    BY <1>13 DEF vars
<1> QED
    BY <1>1, <1>2, <1>3, <1>4, <1>5, <1>6,
       <1>7, <1>8, <1>9, <1>10, <1>11, <1>12, <1>13 DEF Next, Operate, Deliver

-----------------------------------------------------------------------------
(* The theorems.                                                           *)

\* The invariant that needs no assumption on the channels.
Inv == TypeOK /\ IndInv /\ UniqueIds /\ DeliveredOnce

\* All of them hold in every state.
LEMMA InvAlways == Spec => []Inv
<1>1. Init => Inv
  <2>1. Init => TypeOK
    BY ConstantsAssumption DEF Init, TypeOK, Idle
  <2> QED BY <2>1, IndInvInit DEF Inv
<1>2. Inv /\ [Next]_vars /\ TypeOK' => Inv'
  BY IndInvStep, UniqueIdsStep, DeliveredOnceStep DEF Inv
<1> QED
  BY <1>1, <1>2, TypeCorrect, PTL DEF Spec

\* A call that is answered, expired, refused or broken has no entry in the
\* table, however many channels share it and however their ids collide.
THEOREM SettledForgotten == Spec => []SettledIsForgotten
<1>1. Inv => SettledIsForgotten
  BY DEF Inv, IndInv, TableInv, SettledIsForgotten, TypeOK
<1> QED
  BY <1>1, InvAlways, PTL

\* The future of a call becomes ready once: neither a late response nor the
\* timer changes what the caller got.
THEOREM SettledOnce == Spec => SettleOnce
<1>1. Inv /\ [Next]_vars =>
        [\A c \in Call : outcome[c] # "none" => outcome'[c] = outcome[c]]_vars
  <2> SUFFICES ASSUME Inv, Next, NEW d \in Call, outcome[d] # "none"
               PROVE  outcome'[d] = outcome[d]
    OBVIOUS
  <2>1. pc[d] = "done"
    BY DEF Inv, IndInv, OutcomeInv
  <2> USE <2>1 DEF Inv, TypeOK, Settle, Goto
  <2>2. ASSUME NEW c \in Call, Invoke(c) \/ Operate(c) \/ Serve(c)
        PROVE  outcome'[d] = outcome[d]
    BY <2>2 DEF Invoke, Operate, CheckLimit, Insert, Write, Arm, TimerFires,
                TimeoutHandler, BreakPromise, Serve
  <2>3. ASSUME NEW r \in Reader, Deliver(r) \/ \E in \in Call : ReadFind(r, in)
        PROVE  outcome'[d] = outcome[d]
    BY <2>3 DEF Deliver, ReadErase, ReadSet, ReadFind
  <2> QED BY <2>2, <2>3 DEF Next
<1> QED
  BY <1>1, InvAlways, PTL DEF Spec, SettleOnce

\* On one channel the response a caller gets is the one to its own request.
THEOREM RightResponse == ASSUME OneChannel PROVE Spec => []OwnResponse
<1>1. ASSUME Inv PROVE OwnResponse
  <2> SUFFICES ASSUME NEW c \in Call, outcome[c] = "NO_ERROR"
               PROVE  promise[c] = c
    BY DEF OwnResponse
  <2>1. promise[c] \in Call /\ id[promise[c]] = id[c] /\ pc[c] # "new"
        /\ net[promise[c]] = "read"
    BY <1>1 DEF Inv, TypeOK, IndInv, OutcomeInv, PromiseInv, Inserted
  <2>2. pc[promise[c]] # "new"
    BY <1>1, <2>1 DEF Inv, IndInv, NetInv
  <2> QED
    BY <1>1, <2>1, <2>2, OneChannel DEF OneChannel, Inv, UniqueIds
<1> QED
  BY <1>1, InvAlways, PTL

\* On one channel the IO threads never satisfy a promise twice.
THEOREM SatisfiedOnce == ASSUME OneChannel PROVE Spec => []PromiseSatisfiedOnce
<1>1. ASSUME Inv PROVE PromiseSatisfiedOnce
  <2> SUFFICES ASSUME NEW r \in Reader, reader[r].at = "set"
               PROVE  promise[reader[r].p] = None
    BY DEF PromiseSatisfiedOnce
  <2> DEFINE p == reader[r].p
             in == reader[r].in
  <2>1. p \in Call /\ in \in Call /\ reader[r].at # "idle"
    BY <1>1 DEF Inv, TypeOK, Idle
  <2>2. id[in] = id[p] /\ pc[in] # "new" /\ pc[p] # "new"
    BY <1>1, <2>1 DEF Inv, IndInv, ReaderInv, NetInv, Inserted
  <2>3. in = p
    BY <1>1, <2>1, <2>2, OneChannel DEF OneChannel, Inv, UniqueIds
  <2>4. promise[p] # p
    BY <1>1, <2>1, <2>3 DEF Inv, DeliveredOnce
  <2>5. ASSUME promise[p] # None PROVE promise[p] = p
    <3>1. promise[p] \in Call /\ id[promise[p]] = id[p] /\ pc[promise[p]] # "new"
      BY <1>1, <2>1, <2>5 DEF Inv, TypeOK, IndInv, PromiseInv, NetInv
    <3> QED BY <1>1, <2>1, <2>2, <3>1, OneChannel DEF OneChannel, Inv, UniqueIds
  <2> QED BY <2>4, <2>5
<1> QED
  BY <1>1, InvAlways, PTL

-----------------------------------------------------------------------------
(* The bound on the table.                                                 *)

\* The sets whose sizes CountInv compares are finite.
LEMMA FiniteSets ==
  TypeOK => /\ IsFiniteSet(requests_)
            /\ \A S : IsFiniteSet(At(S))
BY ConstantsAssumption, FS_Subset DEF TypeOK, At

\* A step that adds neither an entry nor a call inside operator().
LEMMA Shrink ==
  ASSUME TypeOK, CountInv,
         requests_' \subseteq requests_,
         At(Running)' \subseteq At(Running),
         At({"insert"})' \subseteq At({"insert"})
  PROVE  CountInv'
<1>1. /\ IsFiniteSet(requests_) /\ IsFiniteSet(At(Running))
      /\ IsFiniteSet(At({"insert"}))
  BY FiniteSets
<1>2. /\ Cardinality(requests_') <= Cardinality(requests_)
      /\ Cardinality(At(Running)') <= Cardinality(At(Running))
      /\ Cardinality(At({"insert"})') <= Cardinality(At({"insert"}))
  BY <1>1, FS_Subset
<1>3. /\ IsFiniteSet(requests_') /\ IsFiniteSet(At(Running)')
      /\ IsFiniteSet(At({"insert"})')
  BY <1>1, FS_Subset
<1>4. /\ Cardinality(requests_) \in Nat /\ Cardinality(requests_') \in Nat
      /\ Cardinality(At(Running)) \in Nat /\ Cardinality(At(Running)') \in Nat
      /\ Cardinality(At({"insert"})) \in Nat
      /\ Cardinality(At({"insert"})') \in Nat
  BY <1>1, <1>3, FS_CardinalityType
<1>5. Threads \in Nat /\ reqlimit \in Nat
  BY ConstantsAssumption
<1> QED
  BY <1>2, <1>4, <1>5 DEF CountInv

\* Every step keeps the count of entries and calls within the bound.
LEMMA CountInvStep == TypeOK /\ TypeOK' /\ CountInv /\ [Next]_vars => CountInv'
<1> SUFFICES ASSUME TypeOK, TypeOK', CountInv, [Next]_vars PROVE CountInv'
  OBVIOUS
<1>0. /\ Threads \in Nat /\ reqlimit \in Nat
      /\ IsFiniteSet(requests_) /\ IsFiniteSet(requests_')
      /\ IsFiniteSet(At(Running)) /\ IsFiniteSet(At(Running)')
      /\ IsFiniteSet(At({"insert"})) /\ IsFiniteSet(At({"insert"})')
  <2>1. IsFiniteSet(requests_') /\ IsFiniteSet(At(Running)')
        /\ IsFiniteSet(At({"insert"})')
    BY ConstantsAssumption, FS_Subset DEF TypeOK, At
  <2> QED BY <2>1, ConstantsAssumption, FiniteSets
<1>00. /\ Cardinality(requests_) \in Nat /\ Cardinality(requests_') \in Nat
       /\ Cardinality(At(Running)) \in Nat /\ Cardinality(At(Running)') \in Nat
       /\ Cardinality(At({"insert"})) \in Nat
       /\ Cardinality(At({"insert"})') \in Nat
  BY <1>0, FS_CardinalityType
<1>1. ASSUME NEW c \in Call, Invoke(c) PROVE CountInv'
  <2>1. /\ At(Running)' = At(Running) \cup {c}
        /\ At({"insert"})' = At({"insert"})
        /\ requests_' = requests_
    BY <1>1 DEF Invoke, TypeOK, Goto, At, Running
  <2>2. Cardinality(At(Running)') <= Cardinality(At(Running)) + 1
    BY <1>0, <1>00, <2>1, FS_AddElement
  <2>3. Cardinality(At(Running)) < Threads
    BY <1>1 DEF Invoke
  <2> QED BY <1>0, <1>00, <2>1, <2>2, <2>3 DEF CountInv
<1>2. ASSUME NEW c \in Call, CheckLimit(c) PROVE CountInv'
  <2>1. CASE Cardinality(requests_) >= reqlimit
    <3>1. /\ At(Running)' \subseteq At(Running)
          /\ At({"insert"})' \subseteq At({"insert"})
          /\ requests_' = requests_
      BY <1>2, <2>1 DEF CheckLimit, TypeOK, Settle, At, Running
    <3> QED BY <3>1, Shrink
  <2>2. CASE ~(Cardinality(requests_) >= reqlimit)
    <3>1. /\ At(Running)' = At(Running)
          /\ At({"insert"})' \subseteq At(Running)'
          /\ requests_' = requests_
      BY <1>2, <2>2 DEF CheckLimit, TypeOK, Goto, At, Running
    <3>2. Cardinality(At({"insert"})') <= Cardinality(At(Running)')
      BY <1>0, <3>1, FS_Subset
    <3> QED BY <1>0, <1>00, <2>2, <3>1, <3>2 DEF CountInv
  <2> QED BY <2>1, <2>2
<1>3. ASSUME NEW c \in Call, Insert(c) PROVE CountInv'
  <2>1. CASE \E d \in requests_ : id[d] = id[c]
    <3>1. /\ At(Running)' \subseteq At(Running)
          /\ At({"insert"})' \subseteq At({"insert"})
          /\ requests_' = requests_
      BY <1>3, <2>1 DEF Insert, TypeOK, Settle, At, Running
    <3> QED BY <3>1, Shrink
  <2>2. CASE ~ \E d \in requests_ : id[d] = id[c]
    <3>1. /\ At(Running)' = At(Running)
          /\ At({"insert"})' = At({"insert"}) \ {c}
          /\ c \in At({"insert"})
          /\ requests_' = requests_ \cup {c}
      BY <1>3, <2>2 DEF Insert, TypeOK, Goto, At, Running
    <3>2. Cardinality(At({"insert"})') = Cardinality(At({"insert"})) - 1
      BY <1>0, <3>1, FS_RemoveElement
    <3>3. Cardinality(requests_') <= Cardinality(requests_) + 1
      BY <1>0, <1>00, <3>1, FS_AddElement
    <3> QED BY <1>0, <1>00, <3>1, <3>2, <3>3 DEF CountInv
  <2> QED BY <2>1, <2>2
<1>4. ASSUME NEW c \in Call,
             Write(c) \/ Arm(c) \/ TimerFires(c) \/ TimeoutHandler(c)
               \/ BreakPromise(c) \/ Serve(c)
      PROVE  CountInv'
  <2>1. /\ At(Running)' \subseteq At(Running)
        /\ At({"insert"})' \subseteq At({"insert"})
        /\ requests_' \subseteq requests_
    BY <1>4 DEF Write, Arm, TimerFires, TimeoutHandler, BreakPromise, Serve,
                TypeOK, Settle, Goto, Erase, At, Running
  <2> QED BY <2>1, Shrink
<1>5. ASSUME NEW r \in Reader,
             Deliver(r) \/ \E in \in Call : ReadFind(r, in)
      PROVE  CountInv'
  <2>1. /\ At(Running)' \subseteq At(Running)
        /\ At({"insert"})' \subseteq At({"insert"})
        /\ requests_' \subseteq requests_
    BY <1>5 DEF Deliver, ReadFind, ReadErase, ReadSet, TypeOK, Settle, Erase,
                At, Running
  <2> QED BY <2>1, Shrink
<1>6. CASE UNCHANGED vars
  BY <1>6 DEF vars, CountInv, At
<1> QED
  BY <1>1, <1>2, <1>3, <1>4, <1>5, <1>6 DEF Next, Operate

\* However many calls there are, the table never holds more entries than the
\* limit and one for each further thread inside operator().
THEOREM BoundedTable == Spec => []PendingBound
<1>1. Init => CountInv
  <2> SUFFICES ASSUME Init PROVE CountInv
    OBVIOUS
  <2>1. requests_ = {} /\ At(Running) = {} /\ At({"insert"}) = {}
    BY DEF Init, At, Running
  <2>2. /\ Cardinality(requests_) = 0 /\ Cardinality(At(Running)) = 0
        /\ Cardinality(At({"insert"})) = 0
    BY <2>1, FS_EmptySet
  <2>3. /\ 0 <= Threads
        /\ 0 + 0 <= reqlimit + Threads - 1
    BY ConstantsAssumption
  <2> QED BY <2>2, <2>3 DEF CountInv
<1>2. TypeOK /\ CountInv => PendingBound
  <2> SUFFICES ASSUME TypeOK, CountInv PROVE PendingBound
    OBVIOUS
  <2>1. Cardinality(requests_) \in Nat /\ Cardinality(At({"insert"})) \in Nat
    BY FiniteSets, FS_CardinalityType
  <2> QED BY <2>1, ConstantsAssumption DEF CountInv, PendingBound
<1> QED
  BY <1>1, <1>2, CountInvStep, TypeCorrect, PTL DEF Spec

-----------------------------------------------------------------------------
(* Refinement.                                                             *)

\* On one channel no promise is ever broken.
LEMMA NotBrokenAlways == ASSUME OneChannel PROVE Spec => []NotBroken
<1>1. Inv /\ NotBroken /\ [Next]_vars => NotBroken'
  BY NotBrokenStep, OneChannel DEF Inv
<1> QED
  BY <1>1, IndInvInit, InvAlways, PTL DEF Spec

\* What the refinement needs of a state: the responses of settled calls and
\* of the promises are their own, and they were read.
OwnInv ==
    /\ \A c \in Call : promise[c] # None => promise[c] = c /\ net[c] = "read"
    /\ \A r \in Reader : reader[r].at # "idle" =>
          reader[r].in = reader[r].p /\ net[reader[r].p] = "read"

\* With unique ids, what was found under the id of a call is of that call.
LEMMA OwnInvHolds == ASSUME OneChannel, Inv PROVE OwnInv
<1>1. ASSUME NEW c \in Call, promise[c] # None
      PROVE  promise[c] = c /\ net[c] = "read"
  <2>1. /\ promise[c] \in Call /\ id[promise[c]] = id[c] /\ pc[c] # "new"
        /\ net[promise[c]] = "read" /\ pc[promise[c]] # "new"
    BY <1>1 DEF Inv, TypeOK, IndInv, PromiseInv, NetInv, Inserted
  <2> QED BY <2>1, OneChannel DEF OneChannel, Inv, UniqueIds
<1>2. ASSUME NEW r \in Reader, reader[r].at # "idle"
      PROVE  reader[r].in = reader[r].p /\ net[reader[r].p] = "read"
  <2>1. /\ reader[r].in \in Call /\ reader[r].p \in Call
    BY <1>2 DEF Inv, TypeOK, Idle
  <2>2. /\ id[reader[r].in] = id[reader[r].p] /\ net[reader[r].in] = "read"
        /\ pc[reader[r].in] # "new" /\ pc[reader[r].p] # "new"
    BY <1>2, <2>1 DEF Inv, IndInv, ReaderInv, NetInv, Inserted
  <2> QED BY <2>1, <2>2, OneChannel DEF OneChannel, Inv, UniqueIds
<1> QED BY <1>1, <1>2 DEF OwnInv

\* How the steps of a call move its abstract status.
LEMMA SettleStatus ==
  ASSUME TypeOK, OutcomeInv, NEW c \in Call, NEW e \in Error, Settle(c, e),
         pc[c] \notin {"new", "done"}
  PROVE  status[c] = "open" /\ status' = [status EXCEPT ![c] = Ending(e)]
<1>1. outcome[c] = "none" /\ e # "none"
  BY DEF OutcomeInv, Error
<1>2. status[c] = "open"
  BY <1>1 DEF status
<1>3. ASSUME NEW d \in Call, d # c PROVE pc'[d] = pc[d] /\ outcome'[d] = outcome[d]
  BY <1>3 DEF Settle, TypeOK
<1>4. pc'[c] # "new" /\ outcome'[c] = e
  BY DEF Settle, TypeOK
<1> QED BY <1>1, <1>2, <1>3, <1>4 DEF status

\* A step inside a handler leaves it as it is.
LEMMA GotoStatus ==
  ASSUME TypeOK, OutcomeInv, NEW c \in Call, NEW l, Goto(c, l),
         pc[c] # "new", l # "new"
  PROVE  status' = status
<1>1. \A d \in Call : /\ outcome'[d] = outcome[d]
                      /\ pc'[d] = "new" <=> pc[d] = "new"
  BY DEF Goto, TypeOK
<1> QED BY <1>1 DEF status

\* So does a step of others.
LEMMA SameStatus ==
  ASSUME UNCHANGED <<pc, outcome>> PROVE status' = status
BY DEF status

\* What the server has answered changes only with the network.
LEMMA SameExecuted ==
  ASSUME \A c \in Call : net'[c] \in {"replied", "read"}
                           <=> net[c] \in {"replied", "read"}
  PROVE  executed' = executed
BY DEF executed

\* Every step of a calling thread, an IO thread or the timer is a step of one
\* abstract call or leaves the abstract calls alone.
LEMMA StepImplements ==
  ASSUME OneChannel, Inv, NotBroken, [Next]_vars
  PROVE  Calls!Next \/ UNCHANGED <<status, executed>>
<1>0. OwnInv
  BY OneChannel, OwnInvHolds
<1>00. TypeOK /\ OutcomeInv /\ NetInv
  BY DEF Inv, IndInv
<1>01. \A d \in Call :
         executed[d] = IF net[d] \in {"replied", "read"} THEN 1 ELSE 0
  BY DEF executed
<1> USE <1>0, <1>00, <1>01
<1>1. ASSUME NEW c \in Call, Invoke(c) PROVE Calls!Open(c)
  <2>1. pc[c] = "new" /\ outcome[c] = "none" /\ UNCHANGED net
    BY <1>1 DEF Invoke, OutcomeInv
  <2>2. /\ \A d \in Call : outcome'[d] = outcome[d]
        /\ \A d \in Call : d # c => pc'[d] = pc[d]
        /\ pc'[c] # "new"
    BY <1>1 DEF Invoke, Goto, TypeOK
  <2>3. status[c] = "idle" /\ status' = [status EXCEPT ![c] = "open"]
    BY <2>1, <2>2 DEF status
  <2> QED BY <2>1, <2>3, SameExecuted DEF Calls!Open
<1>2. ASSUME NEW c \in Call, CheckLimit(c)
      PROVE  Calls!Refuse(c) \/ UNCHANGED <<status, executed>>
  <2>1. pc[c] = "limit" /\ UNCHANGED executed /\ executed[c] = 0
    BY <1>2, SameExecuted DEF CheckLimit, NetInv
  <2>2. CASE Settle(c, "PENDDING_LIMIT")
    BY <2>1, <2>2, SettleStatus DEF Error, Ending, Calls!Refuse, Calls!End
  <2>3. CASE Goto(c, "insert")
    BY <2>1, <2>3, GotoStatus
  <2> QED BY <1>2, <2>2, <2>3 DEF CheckLimit
<1>3. ASSUME NEW c \in Call, Insert(c)
      PROVE  Calls!Refuse(c) \/ UNCHANGED <<status, executed>>
  <2>1. pc[c] = "insert" /\ UNCHANGED executed /\ executed[c] = 0
    BY <1>3, SameExecuted DEF Insert, NetInv
  <2>2. CASE Settle(c, "INVALID_REQUEST")
    BY <2>1, <2>2, SettleStatus DEF Error, Ending, Calls!Refuse, Calls!End
  <2>3. CASE Goto(c, "write")
    BY <2>1, <2>3, GotoStatus
  <2> QED BY <1>3, <2>2, <2>3 DEF Insert
<1>4. ASSUME NEW c \in Call, Write(c)
      PROVE  Calls!Fail(c) \/ UNCHANGED <<status, executed>>
  <2>1. pc[c] = "write" /\ net[c] = "none" /\ executed[c] = 0
    BY <1>4 DEF Write, NetInv, TypeOK
  <2>2. UNCHANGED executed
    BY <1>4, <2>1, SameExecuted DEF Write, TypeOK
  <2>3. CASE Settle(c, "LENGTH_EXCEPTION")
    BY <2>1, <2>2, <2>3, SettleStatus DEF Error, Ending, Calls!Fail, Calls!End
  <2>4. CASE Goto(c, "arm")
    BY <2>1, <2>2, <2>4, GotoStatus
  <2> QED BY <1>4, <2>3, <2>4 DEF Write
<1>5. ASSUME NEW c \in Call, Arm(c)
      PROVE  Calls!Answer(c) \/ UNCHANGED <<status, executed>>
  <2>1. pc[c] = "arm" /\ UNCHANGED executed
    BY <1>5, SameExecuted DEF Arm
  <2>2. CASE promise[c] # None
    BY <1>5, <2>1, <2>2, SettleStatus
       DEF Arm, Error, Ending, OwnInv, Calls!Answer, Calls!End
  <2>3. CASE promise[c] = None
    BY <1>5, <2>1, <2>3, GotoStatus DEF Arm
  <2> QED BY <2>2, <2>3
<1>6. ASSUME NEW c \in Call, TimerFires(c)
      PROVE  UNCHANGED <<status, executed>>
  BY <1>6, GotoStatus, SameExecuted DEF TimerFires
<1>7. ASSUME NEW c \in Call, TimeoutHandler(c) PROVE Calls!Expire(c)
  BY <1>7, SettleStatus, SameExecuted
     DEF TimeoutHandler, Error, Ending, Calls!Expire, Calls!End
<1>8. ASSUME NEW c \in Call, Serve(c) PROVE Calls!Execute(c)
  <2>1. executed' = [executed EXCEPT ![c] = 1] /\ executed[c] = 0 /\ status' = status
    BY <1>8, SameStatus DEF Serve, TypeOK, executed
  <2>2. pc[c] # "new" /\ outcome[c] \in {"none", "TIMEOUT"}
    BY <1>8 DEF Serve, TypeOK, Error, NetInv, OutcomeInv, OwnInv, NotBroken
  <2>3. status[c] \in {"open", "expired"}
    BY <2>2 DEF status, Ending
  <2> QED BY <2>1, <2>3 DEF Calls!Execute
<1>9. ASSUME NEW c \in Call, BreakPromise(c) PROVE FALSE
  BY <1>9 DEF BreakPromise, NotBroken
<1>10. ASSUME NEW r \in Reader, NEW in \in Call, ReadFind(r, in)
       PROVE  UNCHANGED <<status, executed>>
  <2>1. UNCHANGED <<pc, outcome>>
    BY <1>10 DEF ReadFind
  <2>2. \A c \in Call : net'[c] \in {"replied", "read"}
                          <=> net[c] \in {"replied", "read"}
    BY <1>10 DEF ReadFind, TypeOK
  <2> QED BY <2>1, <2>2, SameStatus, SameExecuted
<1>11. ASSUME NEW r \in Reader, ReadErase(r)
       PROVE  UNCHANGED <<status, executed>>
  BY <1>11, SameStatus, SameExecuted DEF ReadErase
<1>12. ASSUME NEW r \in Reader, ReadSet(r)
       PROVE  \/ \E c \in Call : Calls!Answer(c)
              \/ UNCHANGED <<status, executed>>
  <2>1. /\ reader[r].p \in Call /\ executed[reader[r].p] = 1
        /\ UNCHANGED executed
    BY <1>12, SameExecuted DEF ReadSet, OwnInv, TypeOK, Idle
  <2>2. CASE pc[reader[r].p] = "await"
    <3>1. Settle(reader[r].p, "NO_ERROR")
      BY <1>12, <2>2 DEF ReadSet
    <3>2. Calls!Answer(reader[r].p)
      BY <2>1, <2>2, <3>1, SettleStatus
         DEF Error, Ending, Calls!Answer, Calls!End
    <3> QED BY <2>1, <3>2
  <2>3. CASE pc[reader[r].p] # "await"
    BY <1>12, <2>1, <2>3, SameStatus DEF ReadSet
  <2> QED BY <2>2, <2>3
<1>13. CASE UNCHANGED vars
  BY <1>13, SameStatus, SameExecuted DEF vars
<1> QED
  BY <1>1, <1>2, <1>3, <1>4, <1>5, <1>6, <1>7, <1>8, <1>9, <1>10, <1>11,
     <1>12, <1>13 DEF Next, Operate, Deliver, Calls!Next, Calls!Finish

\* The dispatcher of one channel implements RpcCalls, initial states and steps.
THEOREM Implements == ASSUME OneChannel PROVE Spec => ImplementsRpcCalls
<1>1. Init => Calls!Init
  BY DEF Init, Calls!Init, status, executed
<1>2. Inv /\ NotBroken /\ [Next]_vars => [Calls!Next]_(Calls!vars)
  BY OneChannel, StepImplements DEF Calls!vars
<1> QED
  BY <1>1, <1>2, InvAlways, NotBrokenAlways, OneChannel, PTL
     DEF Spec, ImplementsRpcCalls, Calls!Spec
=============================================================================
