----------------------- MODULE ClientConnectionProofs -----------------------
(***************************************************************************)
(* Proofs about ClientConnection, for any number of threads, either kind   *)
(* of caller, whether or not connects may fail and connections may close.  *)
(***************************************************************************)
EXTENDS ClientConnection, TLAPS

-----------------------------------------------------------------------------
(* The inductive invariant.                                                *)

\* The proxy's mutex is held from the look at `connected' to the end of the
\* connect.
LockInv == flavour = "proxy" => \A t \in Thread : Connecting(t) => connect_mu = t

\* Which connection a step goes with: a thread that has not connected has
\* none, one that stores a pipeline has the pipeline's connection open, and
\* only one that waits for it has a connection under way.
ConnInv ==
    /\ \A t \in Thread :
         /\ pc[t] \in {"start", "lock", "connect"} => conn[t] = "none"
         /\ pc[t] \in {"set", "mark", "unlock"} => Open(t)
         /\ conn[t] = "connecting" => pc[t] = "get"
    /\ callback \in {"mark", "set"} => Open(ctor)
    /\ fault = "destructor" => \A t \in Thread : pc[t] \in {"done", "thrown"}

\* The client has no pipeline only before anybody has stored one, or after the
\* late error of the constructor's connect.
NullInv ==
    \/ pipeline # null
    \/ conn[ctor] = "failed"
    \/ callback = "wait" /\ \A t \in Thread : Open(t) => pc[t] = "get"

\* What the client and the dispatcher know is established.
EstablishedInv ==
    /\ pipeline # null => Open(pipeline)
    /\ pipeline_ # null => Open(pipeline_)

\* t has stored its pipeline in the client and not yet in the dispatcher.
Storing(t) == pc[t] = "set" \/ (pc[t] = "mark" /\ flavour = "proxy")

\* Client and dispatcher differ only while somebody is between the two stores,
\* or after the late error; and a client that is marked connected has handed a
\* pipeline over, or is just about to.
HandedOver ==
    fault = "none" =>
        /\ \/ pipeline = pipeline_
           \/ pipeline = null /\ conn[ctor] = "failed"
           \/ callback \in {"mark", "set"} \/ \E t \in Thread : Storing(t)
        /\ \A t \in Thread :
             pc[t] = "mark" /\ flavour # "proxy" => pipeline_ # null
        /\ connected =>
             \/ pipeline_ # null
             \/ callback = "set"
             \/ \E t \in Thread : pc[t] = "set" /\ flavour = "proxy"

\* A thread that is about to dispatch, or to hand its pipeline over after it
\* has marked the client, finds `connected' true; one that has connected on its
\* own has handed a pipeline over by then.  Its request is written in one step.
DispatchInv ==
    fault = "none" => \A t \in Thread :
        /\ pc[t] = "set" /\ flavour = "proxy" => connected
        /\ pc[t] = "unlock" => connected /\ pipeline_ # null
        /\ pc[t] = "dispatch" =>
              connected /\ (conn[t] = "none" \/ pipeline_ # null)
        /\ pc[t] = "done" => request[t] # "none"

Inv == /\ TypeOK /\ LockInv /\ ConnInv /\ NullInv /\ EstablishedInv
       /\ HandedOver /\ DispatchInv /\ NullAfterError /\ NullDispatchInGap

-----------------------------------------------------------------------------
(* Preservation, one lemma per conjunct and one step per action.           *)

\* The invariant holds in the first state.
LEMMA InitInv == Init => Inv
<1> SUFFICES ASSUME Init PROVE Inv
  OBVIOUS
<1> USE ConstantsAssumption DEF Init, Attempt, Open
<1>1. TypeOK
  BY DEF TypeOK
<1>2. LockInv /\ NullInv /\ EstablishedInv
  BY DEF LockInv, Connecting, NullInv, EstablishedInv
<1>3. ConnInv /\ HandedOver /\ NullAfterError
  BY DEF ConnInv, HandedOver, NullAfterError
<1>4. DispatchInv /\ NullDispatchInGap
  BY DEF DispatchInv, NullDispatchInGap
<1> QED BY <1>1, <1>2, <1>3, <1>4 DEF Inv

\* Every step keeps the types.
LEMMA TypeStep ==
  ASSUME TypeOK, [Next]_vars PROVE TypeOK'
<1> USE ConstantsAssumption DEF TypeOK, Attempt, At, ContinueAt, Goto, Open
<1>1. ASSUME NEW k \in Attempt, Establish(k) PROVE TypeOK'
  BY <1>1 DEF Establish
<1>2. ASSUME NEW k \in Attempt, Refuse(k) PROVE TypeOK'
  BY <1>2 DEF Refuse
<1>3. ASSUME NEW k \in Attempt, RemoteClose(k) PROVE TypeOK'
  BY <1>3 DEF RemoteClose
<1>4. ASSUME ConnectSuccess PROVE TypeOK'
  BY <1>4 DEF ConnectSuccess
<1>5. ASSUME ConnectMark PROVE TypeOK'
  BY <1>5 DEF ConnectMark
<1>6. ASSUME ConnectSetPipeline PROVE TypeOK'
  BY <1>6 DEF ConnectSetPipeline, setPipeline
<1>7. ASSUME ConnectError PROVE TypeOK'
  BY <1>7 DEF ConnectError
<1>8. ASSUME NEW t \in Thread, CheckConnected(t) PROVE TypeOK'
  BY <1>8 DEF CheckConnected
<1>9. ASSUME NEW t \in Thread, Lock(t) PROVE TypeOK'
  BY <1>9 DEF Lock
<1>10. ASSUME NEW t \in Thread, Connect(t) PROVE TypeOK'
  BY <1>10 DEF Connect
<1>11. ASSUME NEW t \in Thread, Get(t) PROVE TypeOK'
  BY <1>11 DEF Get
<1>12. ASSUME NEW t \in Thread, Mark(t) PROVE TypeOK'
  BY <1>12 DEF Mark
<1>13. ASSUME NEW t \in Thread, SetPipeline(t) PROVE TypeOK'
  BY <1>13 DEF SetPipeline, setPipeline
<1>14. ASSUME NEW t \in Thread, Unlock(t) PROVE TypeOK'
  BY <1>14 DEF Unlock
<1>15. ASSUME NEW t \in Thread, Dispatch(t) PROVE TypeOK'
  BY <1>15 DEF Dispatch
<1>16. ASSUME Destroy PROVE TypeOK'
  BY <1>16 DEF Destroy
<1>17. CASE UNCHANGED vars
  BY <1>17 DEF vars
<1> QED BY <1>1, <1>2, <1>3, <1>4, <1>5, <1>6, <1>7, <1>8, <1>9, <1>10,
    <1>11, <1>12, <1>13, <1>14, <1>15, <1>16, <1>17 DEF Next, Continuation,
    CallMethod

\* The mutex is taken before a thread connects and given back after it.
LEMMA LockStep ==
  ASSUME TypeOK, LockInv, [Next]_vars PROVE LockInv'
<1> USE ConstantsAssumption DEF TypeOK, LockInv, Connecting, At, Goto
<1>1. ASSUME NEW k \in Attempt, Establish(k) PROVE LockInv'
  BY <1>1 DEF Establish
<1>2. ASSUME NEW k \in Attempt, Refuse(k) PROVE LockInv'
  BY <1>2 DEF Refuse
<1>3. ASSUME NEW k \in Attempt, RemoteClose(k) PROVE LockInv'
  BY <1>3 DEF RemoteClose
<1>4. ASSUME ConnectSuccess PROVE LockInv'
  BY <1>4 DEF ConnectSuccess
<1>5. ASSUME ConnectMark PROVE LockInv'
  BY <1>5 DEF ConnectMark
<1>6. ASSUME ConnectSetPipeline PROVE LockInv'
  BY <1>6 DEF ConnectSetPipeline, setPipeline
<1>7. ASSUME ConnectError PROVE LockInv'
  BY <1>7 DEF ConnectError
<1>8. ASSUME NEW t \in Thread, CheckConnected(t) PROVE LockInv'
  BY <1>8 DEF CheckConnected
<1>9. ASSUME NEW t \in Thread, Lock(t) PROVE LockInv'
  BY <1>9 DEF Lock
<1>10. ASSUME NEW t \in Thread, Connect(t) PROVE LockInv'
  BY <1>10 DEF Connect
<1>11. ASSUME NEW t \in Thread, Get(t) PROVE LockInv'
  BY <1>11 DEF Get
<1>12. ASSUME NEW t \in Thread, Mark(t) PROVE LockInv'
  BY <1>12 DEF Mark
<1>13. ASSUME NEW t \in Thread, SetPipeline(t) PROVE LockInv'
  BY <1>13 DEF SetPipeline, setPipeline
<1>14. ASSUME NEW t \in Thread, Unlock(t) PROVE LockInv'
  BY <1>14 DEF Unlock
<1>15. ASSUME NEW t \in Thread, Dispatch(t) PROVE LockInv'
  BY <1>15 DEF Dispatch
<1>16. ASSUME Destroy PROVE LockInv'
  BY <1>16 DEF Destroy
<1>17. CASE UNCHANGED vars
  BY <1>17 DEF vars
<1> QED BY <1>1, <1>2, <1>3, <1>4, <1>5, <1>6, <1>7, <1>8, <1>9, <1>10,
    <1>11, <1>12, <1>13, <1>14, <1>15, <1>16, <1>17 DEF Next, Continuation,
    CallMethod

\* A connection goes with the step of who asked for it.
LEMMA ConnStep ==
  ASSUME TypeOK, EstablishedInv, ConnInv, [Next]_vars PROVE ConnInv'
<1> USE ConstantsAssumption DEF TypeOK, ConnInv, EstablishedInv,
    Attempt, At, ContinueAt, Goto, Open
<1>1. ASSUME NEW k \in Attempt, Establish(k) PROVE ConnInv'
  BY <1>1 DEF Establish
<1>2. ASSUME NEW k \in Attempt, Refuse(k) PROVE ConnInv'
  BY <1>2 DEF Refuse
<1>3. ASSUME NEW k \in Attempt, RemoteClose(k) PROVE ConnInv'
  BY <1>3 DEF RemoteClose
<1>4. ASSUME ConnectSuccess PROVE ConnInv'
  BY <1>4 DEF ConnectSuccess
<1>5. ASSUME ConnectMark PROVE ConnInv'
  BY <1>5 DEF ConnectMark
<1>6. ASSUME ConnectSetPipeline PROVE ConnInv'
  BY <1>6 DEF ConnectSetPipeline, setPipeline
<1>7. ASSUME ConnectError PROVE ConnInv'
  BY <1>7 DEF ConnectError
<1>8. ASSUME NEW t \in Thread, CheckConnected(t) PROVE ConnInv'
  BY <1>8 DEF CheckConnected
<1>9. ASSUME NEW t \in Thread, Lock(t) PROVE ConnInv'
  BY <1>9 DEF Lock
<1>10. ASSUME NEW t \in Thread, Connect(t) PROVE ConnInv'
  BY <1>10 DEF Connect
<1>11. ASSUME NEW t \in Thread, Get(t) PROVE ConnInv'
  BY <1>11 DEF Get
<1>12. ASSUME NEW t \in Thread, Mark(t) PROVE ConnInv'
  BY <1>12 DEF Mark
<1>13. ASSUME NEW t \in Thread, SetPipeline(t) PROVE ConnInv'
  BY <1>13 DEF SetPipeline, setPipeline
<1>14. ASSUME NEW t \in Thread, Unlock(t) PROVE ConnInv'
  BY <1>14 DEF Unlock
<1>15. ASSUME NEW t \in Thread, Dispatch(t) PROVE ConnInv'
  BY <1>15 DEF Dispatch
<1>16. ASSUME Destroy PROVE ConnInv'
  BY <1>16 DEF Destroy
<1>17. CASE UNCHANGED vars
  BY <1>17 DEF vars
<1> QED BY <1>1, <1>2, <1>3, <1>4, <1>5, <1>6, <1>7, <1>8, <1>9, <1>10,
    <1>11, <1>12, <1>13, <1>14, <1>15, <1>16, <1>17 DEF Next, Continuation,
    CallMethod

\* A pipeline that was stored is taken away by the late error alone.
LEMMA NullStep ==
  ASSUME TypeOK, ConnInv, EstablishedInv, NullInv, [Next]_vars PROVE NullInv'
<1> USE ConstantsAssumption DEF TypeOK, ConnInv, NullInv, EstablishedInv,
    Attempt, At, ContinueAt, Goto, Open
<1>1. ASSUME NEW k \in Attempt, Establish(k) PROVE NullInv'
  BY <1>1 DEF Establish
<1>2. ASSUME NEW k \in Attempt, Refuse(k) PROVE NullInv'
  BY <1>2 DEF Refuse
<1>3. ASSUME NEW k \in Attempt, RemoteClose(k) PROVE NullInv'
  BY <1>3 DEF RemoteClose
<1>4. ASSUME ConnectSuccess PROVE NullInv'
  BY <1>4 DEF ConnectSuccess
<1>5. ASSUME ConnectMark PROVE NullInv'
  BY <1>5 DEF ConnectMark
<1>6. ASSUME ConnectSetPipeline PROVE NullInv'
  BY <1>6 DEF ConnectSetPipeline, setPipeline
<1>7. ASSUME ConnectError PROVE NullInv'
  BY <1>7 DEF ConnectError
<1>8. ASSUME NEW t \in Thread, CheckConnected(t) PROVE NullInv'
  BY <1>8 DEF CheckConnected
<1>9. ASSUME NEW t \in Thread, Lock(t) PROVE NullInv'
  BY <1>9 DEF Lock
<1>10. ASSUME NEW t \in Thread, Connect(t) PROVE NullInv'
  BY <1>10 DEF Connect
<1>11. ASSUME NEW t \in Thread, Get(t) PROVE NullInv'
  BY <1>11 DEF Get
<1>12. ASSUME NEW t \in Thread, Mark(t) PROVE NullInv'
  BY <1>12 DEF Mark
<1>13. ASSUME NEW t \in Thread, SetPipeline(t) PROVE NullInv'
  BY <1>13 DEF SetPipeline, setPipeline
<1>14. ASSUME NEW t \in Thread, Unlock(t) PROVE NullInv'
  BY <1>14 DEF Unlock
<1>15. ASSUME NEW t \in Thread, Dispatch(t) PROVE NullInv'
  BY <1>15 DEF Dispatch
<1>16. ASSUME Destroy PROVE NullInv'
  BY <1>16 DEF Destroy
<1>17. CASE UNCHANGED vars
  BY <1>17 DEF vars
<1> QED BY <1>1, <1>2, <1>3, <1>4, <1>5, <1>6, <1>7, <1>8, <1>9, <1>10,
    <1>11, <1>12, <1>13, <1>14, <1>15, <1>16, <1>17 DEF Next, Continuation,
    CallMethod

\* What is stored is established, and stays so: it can only close.
LEMMA EstablishedStep ==
  ASSUME TypeOK, ConnInv, EstablishedInv, [Next]_vars PROVE EstablishedInv'
<1> USE ConstantsAssumption DEF TypeOK, ConnInv, EstablishedInv,
    Attempt, At, ContinueAt, Goto, Open
<1>1. ASSUME NEW k \in Attempt, Establish(k) PROVE EstablishedInv'
  BY <1>1 DEF Establish
<1>2. ASSUME NEW k \in Attempt, Refuse(k) PROVE EstablishedInv'
  BY <1>2 DEF Refuse
<1>3. ASSUME NEW k \in Attempt, RemoteClose(k) PROVE EstablishedInv'
  BY <1>3 DEF RemoteClose
<1>4. ASSUME ConnectSuccess PROVE EstablishedInv'
  BY <1>4 DEF ConnectSuccess
<1>5. ASSUME ConnectMark PROVE EstablishedInv'
  BY <1>5 DEF ConnectMark
<1>6. ASSUME ConnectSetPipeline PROVE EstablishedInv'
  BY <1>6 DEF ConnectSetPipeline, setPipeline
<1>7. ASSUME ConnectError PROVE EstablishedInv'
  BY <1>7 DEF ConnectError
<1>8. ASSUME NEW t \in Thread, CheckConnected(t) PROVE EstablishedInv'
  BY <1>8 DEF CheckConnected
<1>9. ASSUME NEW t \in Thread, Lock(t) PROVE EstablishedInv'
  BY <1>9 DEF Lock
<1>10. ASSUME NEW t \in Thread, Connect(t) PROVE EstablishedInv'
  BY <1>10 DEF Connect
<1>11. ASSUME NEW t \in Thread, Get(t) PROVE EstablishedInv'
  BY <1>11 DEF Get
<1>12. ASSUME NEW t \in Thread, Mark(t) PROVE EstablishedInv'
  BY <1>12 DEF Mark
<1>13. ASSUME NEW t \in Thread, SetPipeline(t) PROVE EstablishedInv'
  BY <1>13 DEF SetPipeline, setPipeline
<1>14. ASSUME NEW t \in Thread, Unlock(t) PROVE EstablishedInv'
  BY <1>14 DEF Unlock
<1>15. ASSUME NEW t \in Thread, Dispatch(t) PROVE EstablishedInv'
  BY <1>15 DEF Dispatch
<1>16. ASSUME Destroy PROVE EstablishedInv'
  BY <1>16 DEF Destroy
<1>17. CASE UNCHANGED vars
  BY <1>17 DEF vars
<1> QED BY <1>1, <1>2, <1>3, <1>4, <1>5, <1>6, <1>7, <1>8, <1>9, <1>10,
    <1>11, <1>12, <1>13, <1>14, <1>15, <1>16, <1>17 DEF Next, Continuation,
    CallMethod

\* Who stores a pipeline in the client hands one over to the dispatcher.
LEMMA HandedOverStep ==
  ASSUME TypeOK, ConnInv, NullInv, EstablishedInv, HandedOver, [Next]_vars PROVE HandedOver'
<1> USE ConstantsAssumption DEF TypeOK, ConnInv, NullInv, HandedOver,
    EstablishedInv, Storing, Attempt, At, ContinueAt,
    Goto, Open
<1>1. ASSUME NEW k \in Attempt, Establish(k) PROVE HandedOver'
  BY <1>1 DEF Establish
<1>2. ASSUME NEW k \in Attempt, Refuse(k) PROVE HandedOver'
  BY <1>2 DEF Refuse
<1>3. ASSUME NEW k \in Attempt, RemoteClose(k) PROVE HandedOver'
  BY <1>3 DEF RemoteClose
<1>4. ASSUME ConnectSuccess PROVE HandedOver'
  BY <1>4 DEF ConnectSuccess
<1>5. ASSUME ConnectMark PROVE HandedOver'
  BY <1>5 DEF ConnectMark
<1>6. ASSUME ConnectSetPipeline PROVE HandedOver'
  BY <1>6 DEF ConnectSetPipeline, setPipeline
<1>7. ASSUME ConnectError PROVE HandedOver'
  BY <1>7 DEF ConnectError
<1>8. ASSUME NEW t \in Thread, CheckConnected(t) PROVE HandedOver'
  BY <1>8 DEF CheckConnected
<1>9. ASSUME NEW t \in Thread, Lock(t) PROVE HandedOver'
  BY <1>9 DEF Lock
<1>10. ASSUME NEW t \in Thread, Connect(t) PROVE HandedOver'
  BY <1>10 DEF Connect
<1>11. ASSUME NEW t \in Thread, Get(t) PROVE HandedOver'
  BY <1>11 DEF Get
<1>12. ASSUME NEW t \in Thread, Mark(t) PROVE HandedOver'
  BY <1>12 DEF Mark
<1>13. ASSUME NEW t \in Thread, SetPipeline(t) PROVE HandedOver'
  BY <1>13 DEF SetPipeline, setPipeline
<1>14. ASSUME NEW t \in Thread, Unlock(t) PROVE HandedOver'
  BY <1>14 DEF Unlock
<1>15. ASSUME NEW t \in Thread, Dispatch(t) PROVE HandedOver'
  BY <1>15 DEF Dispatch
<1>16. ASSUME Destroy PROVE HandedOver'
  BY <1>16 DEF Destroy
<1>17. CASE UNCHANGED vars
  BY <1>17 DEF vars
<1> QED BY <1>1, <1>2, <1>3, <1>4, <1>5, <1>6, <1>7, <1>8, <1>9, <1>10,
    <1>11, <1>12, <1>13, <1>14, <1>15, <1>16, <1>17 DEF Next, Continuation,
    CallMethod

\* A null pointer is followed where NullInv leaves one.
LEMMA NullAfterErrorStep ==
  ASSUME TypeOK, ConnInv, NullInv, EstablishedInv, NullAfterError, [Next]_vars PROVE NullAfterError'
<1> USE ConstantsAssumption DEF TypeOK, ConnInv, NullInv, EstablishedInv,
    NullAfterError, Attempt, At, ContinueAt, Goto, Open
<1>1. ASSUME NEW k \in Attempt, Establish(k) PROVE NullAfterError'
  BY <1>1 DEF Establish
<1>2. ASSUME NEW k \in Attempt, Refuse(k) PROVE NullAfterError'
  BY <1>2 DEF Refuse
<1>3. ASSUME NEW k \in Attempt, RemoteClose(k) PROVE NullAfterError'
  BY <1>3 DEF RemoteClose
<1>4. ASSUME ConnectSuccess PROVE NullAfterError'
  BY <1>4 DEF ConnectSuccess
<1>5. ASSUME ConnectMark PROVE NullAfterError'
  BY <1>5 DEF ConnectMark
<1>6. ASSUME ConnectSetPipeline PROVE NullAfterError'
  BY <1>6 DEF ConnectSetPipeline, setPipeline
<1>7. ASSUME ConnectError PROVE NullAfterError'
  BY <1>7 DEF ConnectError
<1>8. ASSUME NEW t \in Thread, CheckConnected(t) PROVE NullAfterError'
  BY <1>8 DEF CheckConnected
<1>9. ASSUME NEW t \in Thread, Lock(t) PROVE NullAfterError'
  BY <1>9 DEF Lock
<1>10. ASSUME NEW t \in Thread, Connect(t) PROVE NullAfterError'
  BY <1>10 DEF Connect
<1>11. ASSUME NEW t \in Thread, Get(t) PROVE NullAfterError'
  BY <1>11 DEF Get
<1>12. ASSUME NEW t \in Thread, Mark(t) PROVE NullAfterError'
  BY <1>12 DEF Mark
<1>13. ASSUME NEW t \in Thread, SetPipeline(t) PROVE NullAfterError'
  BY <1>13 DEF SetPipeline, setPipeline
<1>14. ASSUME NEW t \in Thread, Unlock(t) PROVE NullAfterError'
  BY <1>14 DEF Unlock
<1>15. ASSUME NEW t \in Thread, Dispatch(t) PROVE NullAfterError'
  BY <1>15 DEF Dispatch
<1>16. ASSUME Destroy PROVE NullAfterError'
  BY <1>16 DEF Destroy
<1>17. CASE UNCHANGED vars
  BY <1>17 DEF vars
<1> QED BY <1>1, <1>2, <1>3, <1>4, <1>5, <1>6, <1>7, <1>8, <1>9, <1>10,
    <1>11, <1>12, <1>13, <1>14, <1>15, <1>16, <1>17 DEF Next, Continuation,
    CallMethod

\* Nobody dispatches before the client is marked as connected, and nobody who
\* connected before the dispatcher has a pipeline.
LEMMA DispatchStep ==
  ASSUME TypeOK, ConnInv, HandedOver, DispatchInv, [Next]_vars
  PROVE  DispatchInv'
<1> USE ConstantsAssumption DEF TypeOK, ConnInv, HandedOver, DispatchInv,
    Attempt, At, ContinueAt, Goto, Open
<1>1. ASSUME NEW k \in Attempt, Establish(k) PROVE DispatchInv'
  BY <1>1 DEF Establish
<1>2. ASSUME NEW k \in Attempt, Refuse(k) PROVE DispatchInv'
  BY <1>2 DEF Refuse
<1>3. ASSUME NEW k \in Attempt, RemoteClose(k) PROVE DispatchInv'
  BY <1>3 DEF RemoteClose
<1>4. ASSUME ConnectSuccess PROVE DispatchInv'
  BY <1>4 DEF ConnectSuccess
<1>5. ASSUME ConnectMark PROVE DispatchInv'
  BY <1>5 DEF ConnectMark
<1>6. ASSUME ConnectSetPipeline PROVE DispatchInv'
  BY <1>6 DEF ConnectSetPipeline, setPipeline
<1>7. ASSUME ConnectError PROVE DispatchInv'
  BY <1>7 DEF ConnectError
<1>8. ASSUME NEW t \in Thread, CheckConnected(t) PROVE DispatchInv'
  BY <1>8 DEF CheckConnected
<1>9. ASSUME NEW t \in Thread, Lock(t) PROVE DispatchInv'
  BY <1>9 DEF Lock
<1>10. ASSUME NEW t \in Thread, Connect(t) PROVE DispatchInv'
  BY <1>10 DEF Connect
<1>11. ASSUME NEW t \in Thread, Get(t) PROVE DispatchInv'
  BY <1>11 DEF Get
<1>12. ASSUME NEW t \in Thread, Mark(t) PROVE DispatchInv'
  BY <1>12 DEF Mark
<1>13. ASSUME NEW t \in Thread, SetPipeline(t) PROVE DispatchInv'
  BY <1>13 DEF SetPipeline, setPipeline
<1>14. ASSUME NEW t \in Thread, Unlock(t) PROVE DispatchInv'
  BY <1>14 DEF Unlock
<1>15. ASSUME NEW t \in Thread, Dispatch(t) PROVE DispatchInv'
  BY <1>15 DEF Dispatch
<1>16. ASSUME Destroy PROVE DispatchInv'
  BY <1>16 DEF Destroy
<1>17. CASE UNCHANGED vars
  BY <1>17 DEF vars
<1> QED BY <1>1, <1>2, <1>3, <1>4, <1>5, <1>6, <1>7, <1>8, <1>9, <1>10,
    <1>11, <1>12, <1>13, <1>14, <1>15, <1>16, <1>17 DEF Next, Continuation,
    CallMethod

\* A call that follows the null pipeline_ found `connected' true in the gap.
LEMMA GapStep ==
  ASSUME TypeOK, ConnInv, EstablishedInv, HandedOver, DispatchInv,
         NullDispatchInGap, [Next]_vars
  PROVE  NullDispatchInGap'
<1> USE ConstantsAssumption DEF TypeOK, ConnInv, HandedOver, DispatchInv,
    NullDispatchInGap, Attempt, At, ContinueAt, Goto, Open
<1>1. ASSUME NEW k \in Attempt, Establish(k) PROVE NullDispatchInGap'
  BY <1>1 DEF Establish
<1>2. ASSUME NEW k \in Attempt, Refuse(k) PROVE NullDispatchInGap'
  BY <1>2 DEF Refuse
<1>3. ASSUME NEW k \in Attempt, RemoteClose(k) PROVE NullDispatchInGap'
  <2>1. \A t \in Thread : conn[t] = "none" => conn'[t] = "none"
    BY <1>3 DEF RemoteClose, EstablishedInv
  <2> QED BY <1>3, <2>1 DEF RemoteClose
<1>4. ASSUME ConnectSuccess PROVE NullDispatchInGap'
  BY <1>4 DEF ConnectSuccess
<1>5. ASSUME ConnectMark PROVE NullDispatchInGap'
  BY <1>5 DEF ConnectMark
<1>6. ASSUME ConnectSetPipeline PROVE NullDispatchInGap'
  BY <1>6 DEF ConnectSetPipeline, setPipeline
<1>7. ASSUME ConnectError PROVE NullDispatchInGap'
  BY <1>7 DEF ConnectError
<1>8. ASSUME NEW t \in Thread, CheckConnected(t) PROVE NullDispatchInGap'
  BY <1>8 DEF CheckConnected
<1>9. ASSUME NEW t \in Thread, Lock(t) PROVE NullDispatchInGap'
  BY <1>9 DEF Lock
<1>10. ASSUME NEW t \in Thread, Connect(t) PROVE NullDispatchInGap'
  BY <1>10 DEF Connect
<1>11. ASSUME NEW t \in Thread, Get(t) PROVE NullDispatchInGap'
  BY <1>11 DEF Get
<1>12. ASSUME NEW t \in Thread, Mark(t) PROVE NullDispatchInGap'
  BY <1>12 DEF Mark
<1>13. ASSUME NEW t \in Thread, SetPipeline(t) PROVE NullDispatchInGap'
  BY <1>13 DEF SetPipeline, setPipeline
<1>14. ASSUME NEW t \in Thread, Unlock(t) PROVE NullDispatchInGap'
  BY <1>14 DEF Unlock
<1>15. ASSUME NEW t \in Thread, Dispatch(t) PROVE NullDispatchInGap'
  BY <1>15 DEF Dispatch
<1>16. ASSUME Destroy PROVE NullDispatchInGap'
  BY <1>16 DEF Destroy
<1>17. CASE UNCHANGED vars
  BY <1>17 DEF vars
<1> QED BY <1>1, <1>2, <1>3, <1>4, <1>5, <1>6, <1>7, <1>8, <1>9, <1>10,
    <1>11, <1>12, <1>13, <1>14, <1>15, <1>16, <1>17 DEF Next, Continuation,
    CallMethod

\* Every step keeps the invariant.
LEMMA StepInv == Inv /\ [Next]_vars => Inv'
BY TypeStep, LockStep, ConnStep, NullStep, EstablishedStep, HandedOverStep,
   DispatchStep, NullAfterErrorStep, GapStep DEF Inv

\* The invariant holds in every state.
LEMMA InvAlways == Spec => []Inv
BY InitInv, StepInv, PTL DEF Spec

-----------------------------------------------------------------------------
(* Theorems.                                                               *)

\* The proxy's mutex lets one thread connect at a time, whatever the
\* constructor's connect does meanwhile.
THEOREM ProxyExcludes == Spec => []ProxyConnectExclusive
<1>1. Inv => ProxyConnectExclusive
  BY DEF Inv, LockInv, ProxyConnectExclusive, ConnectExclusive
<1> QED BY <1>1, InvAlways, PTL

\* A null pointer is followed in setPipeline only after the late error of the
\* constructor's connect, in the destructor also if nobody has connected.
THEOREM NullOnlyAfterError == Spec => []NullAfterError
<1>1. Inv => NullAfterError
  BY DEF Inv
<1> QED BY <1>1, InvAlways, PTL

\* A call finds the dispatcher without a pipeline only between `connected = true'
\* and setPipeline of the constructor's continuation or of the proxy, and only
\* if it has not connected itself: RpcChannel's own order leaves no such gap.
THEOREM NullDispatchOnlyInGap == Spec => []NullDispatchInGap
<1>1. Inv => NullDispatchInGap
  BY DEF Inv
<1> QED BY <1>1, InvAlways, PTL

\* When nobody connects any more, a connected client and its dispatcher agree
\* on the pipeline, whoever stored which of the three fields in between.
THEOREM Settles == Spec => []SettledConnection
<1>1. Inv => SettledConnection
  BY DEF Inv, HandedOver, Storing, SettledConnection, Quiet, Connecting
<1> QED BY <1>1, InvAlways, PTL
=============================================================================
