------------------------ MODULE PipelinedServerProofs ------------------------
(***************************************************************************)
(* Proofs about PipelinedServerDispatcher, for any number of requests, any *)
(* width of the ids and any requests that fail.  The types hold for any    *)
(* number of executor threads; the order of the responses is proved for    *)
(* one, which is what the code needs, for nothing protects responses_.     *)
(***************************************************************************)
EXTENDS PipelinedServerDispatcher, Integers, FiniteSetTheorems,
        SequenceTheorems, TLAPS

-----------------------------------------------------------------------------
(* Ids: the remainders of the requests' numbers.                           *)

\* Ids are natural numbers from 0, at least two.
LEMMA IdsType == Ids \in Nat /\ Ids > 1 /\ Requests \in Nat
BY ConstantsAssumption DEF ConstantsAssumption

\* A remainder is an id.
LEMMA RemainderType ==
    ASSUME NEW n \in Nat
    PROVE  n % Ids \in Id /\ n \div Ids \in Nat
                          /\ n = Ids * (n \div Ids) + (n % Ids)
<1>1. n % Ids \in 0 .. Ids - 1  BY IdsType
<1>2. n \div Ids \in Nat /\ n = Ids * (n \div Ids) + (n % Ids)  BY IdsType
<1> QED  BY <1>1, <1>2 DEF Id

\* A number has one remainder.
LEMMA OneRemainder ==
    ASSUME NEW n \in Nat, NEW p \in Nat, NEW r \in Nat, r < Ids,
           n = Ids * p + r
    PROVE  n % Ids = r
<1> DEFINE q == n \div Ids
           s == n % Ids
<1>1. q \in Nat /\ s \in Nat /\ s < Ids /\ n = Ids * q + s
  BY RemainderType, IdsType DEF Id
<1> HIDE DEF q, s
<1>2. CASE p = q
  <2>1. PICK x : x = Ids * p  OBVIOUS
  <2>2. x \in Int /\ n = x + r /\ n = x + s  BY <1>1, <1>2, <2>1, IdsType
  <2>3. r = s  BY <1>1, <2>2
  <2> QED  BY <2>3 DEF s
<1>3. CASE p > q
  <2>1. PICK d \in Nat : p = q + 1 + d
    <3>1. p - q - 1 \in Nat /\ p = q + 1 + (p - q - 1)  BY <1>1, <1>3
    <3> QED  BY <3>1
  <2>2. Ids * p = Ids * q + Ids + Ids * d  BY <1>1, <2>1, IdsType
  <2>3. Ids * d \in Nat /\ Ids * q \in Nat  BY <1>1, <2>1, IdsType
  <2> QED  BY <1>1, <2>2, <2>3, IdsType
<1>4. CASE p < q
  <2>1. PICK d \in Nat : q = p + 1 + d
    <3>1. q - p - 1 \in Nat /\ q = p + 1 + (q - p - 1)  BY <1>1, <1>4
    <3> QED  BY <3>1
  <2>2. Ids * q = Ids * p + Ids + Ids * d  BY <1>1, <2>1, IdsType
  <2>3. Ids * d \in Nat /\ Ids * p \in Nat  BY <1>1, <2>1, IdsType
  <2> QED  BY <1>1, <2>2, <2>3, IdsType
<1> QED  BY <1>1, <1>2, <1>3, <1>4

\* The id after that of n is that of n + 1.
LEMMA FollowingId ==
    ASSUME NEW n \in Nat
    PROVE  Following(n % Ids) = (n + 1) % Ids
<1> DEFINE q == n \div Ids
           s == n % Ids
<1>1. q \in Nat /\ s \in Nat /\ s < Ids /\ n = Ids * q + s
  BY RemainderType, IdsType DEF Id
<1>2. Following(n % Ids) = (s + 1) % Ids  BY DEF Following
<1> HIDE DEF q, s
<1>3. CASE s + 1 < Ids
  <2>1. n + 1 = Ids * q + (s + 1)  BY <1>1, IdsType
  <2>2. s + 1 = Ids * 0 + (s + 1)  BY <1>1, IdsType
  <2>3. (n + 1) % Ids = s + 1  BY <1>1, <1>3, <2>1, OneRemainder
  <2>4. (s + 1) % Ids = s + 1  BY <1>1, <1>3, <2>2, OneRemainder
  <2> QED  BY <1>2, <2>3, <2>4
<1>4. CASE s + 1 = Ids
  <2>1. n + 1 = Ids * (q + 1) + 0  BY <1>1, <1>4, IdsType
  <2>2. s + 1 = Ids * 1 + 0  BY <1>1, <1>4, IdsType
  <2>3. (n + 1) % Ids = 0  BY <1>1, <2>1, IdsType, OneRemainder
  <2>4. (s + 1) % Ids = 0  BY <1>1, <2>2, IdsType, OneRemainder
  <2> QED  BY <1>2, <2>3, <2>4
<1> QED  BY <1>1, <1>3, <1>4, IdsType

\* Of Ids numbers in a row no two have the same id.
LEMMA DistinctIds ==
    ASSUME NEW w \in Nat, NEW n \in Nat, n - w <= Ids,
           NEW p \in w + 1 .. n, NEW q \in w + 1 .. n, p % Ids = q % Ids
    PROVE  p = q
<1>1. p \in Nat /\ q \in Nat /\ p - q < Ids /\ q - p < Ids  BY IdsType
<1> DEFINE a == p \div Ids
           b == q \div Ids
           r == p % Ids
<1>2. a \in Nat /\ b \in Nat /\ r \in Nat /\ p = Ids * a + r /\ q = Ids * b + r
  BY <1>1, RemainderType, IdsType DEF Id
<1> HIDE DEF a, b, r
<1>3. CASE a = b
  BY <1>2, <1>3
<1>4. CASE a > b
  <2>1. PICK d \in Nat : a = b + 1 + d
    <3>1. a - b - 1 \in Nat /\ a = b + 1 + (a - b - 1)  BY <1>2, <1>4
    <3> QED  BY <3>1
  <2>2. Ids * a = Ids * b + Ids + Ids * d  BY <1>2, <2>1, IdsType
  <2>3. Ids * d \in Nat /\ Ids * b \in Nat  BY <1>2, <2>1, IdsType
  <2> QED  BY <1>1, <1>2, <2>2, <2>3, IdsType
<1>5. CASE b > a
  <2>1. PICK d \in Nat : b = a + 1 + d
    <3>1. b - a - 1 \in Nat /\ b = a + 1 + (b - a - 1)  BY <1>2, <1>5
    <3> QED  BY <3>1
  <2>2. Ids * b = Ids * a + Ids + Ids * d  BY <1>2, <2>1, IdsType
  <2>3. Ids * d \in Nat /\ Ids * a \in Nat  BY <1>2, <2>1, IdsType
  <2> QED  BY <1>1, <1>2, <2>2, <2>3, IdsType
<1> QED  BY <1>2, <1>3, <1>4, <1>5

-----------------------------------------------------------------------------
(* The types, for any number of executor threads.                          *)

\* A continuation that has found a response keeps it until it is written.
FoundInv == \A r \in Request : pc[r] \in {"take", "write"} => resp[r] \in Request

\* An id is followed by an id.
LEMMA FollowingType == ASSUME NEW i \in Id PROVE Following(i) \in Id
<1>1. i + 1 \in Nat  BY IdsType DEF Id
<1> QED  BY <1>1, RemainderType DEF Following

\* The variables have their types at the start.
LEMMA TypeInit == Init => TypeOK /\ FoundInv
<1> SUFFICES ASSUME Init PROVE TypeOK /\ FoundInv
  OBVIOUS
<1>1. 0 \in Id /\ 1 \in Id  BY IdsType DEF Id
<1>2. DOMAIN responses_ = {} /\ written \in Seq(Request)
  BY EmptySeq DEF Init
<1>3. requestId \in [Request -> Id]  BY <1>1 DEF Init
<1>4. service \in [Request -> {"unread", "running", "done", "long", "failed"}]
      /\ pc \in [Request -> {"none", "find", "take", "write", "advance", "end"}]
      /\ resp \in [Request -> Request \cup {0}]
  BY DEF Init
<1>5. FoundInv  BY DEF Init, FoundInv
<1> QED  BY <1>1, <1>2, <1>3, <1>4, <1>5 DEF Init, TypeOK

\* No step changes the types.
LEMMA TypeStep ==
    ASSUME TypeOK, FoundInv, [Next]_vars
    PROVE  TypeOK' /\ FoundInv'
<1> USE DEF TypeOK, FoundInv
<1>1. ASSUME NEW r \in Request, Read(r)  PROVE TypeOK' /\ FoundInv'
  <2>1. requestId_' \in Id  BY <1>1, FollowingType DEF Read
  <2>2. requestId' \in [Request -> Id]  BY <1>1 DEF Read
  <2> QED  BY <1>1, <2>1, <2>2 DEF Read
<1>2. ASSUME NEW r \in Request, Serve(r)  PROVE TypeOK' /\ FoundInv'
  <2>1. PICK how \in {"done", "long", "failed"} :
          service' = [service EXCEPT ![r] = how]
    BY <1>2 DEF Serve
  <2>2. service' \in [Request -> {"unread", "running", "done", "long", "failed"}]
    BY <2>1
  <2> QED  BY <1>2, <2>2 DEF Serve
<1>3. ASSUME NEW r \in Request, Store(r)  PROVE TypeOK' /\ FoundInv'
  <2>1. DOMAIN responses_' \subseteq Id
        /\ \A i \in DOMAIN responses_' : responses_'[i] \in Request
    BY <1>3 DEF Store
  <2> QED  BY <1>3, <2>1 DEF Store, Goto
<1>4. ASSUME NEW r \in Request, Find(r)  PROVE TypeOK' /\ FoundInv'
  BY <1>4 DEF Find, Goto
<1>5. ASSUME NEW r \in Request, Take(r)  PROVE TypeOK' /\ FoundInv'
  <2>1. DOMAIN responses_' \subseteq Id
        /\ \A i \in DOMAIN responses_' : responses_'[i] \in Request
    BY <1>5 DEF Take, Restrict
  <2> QED  BY <1>5, <2>1 DEF Take, Goto
<1>6. ASSUME NEW r \in Request, Write(r)  PROVE TypeOK' /\ FoundInv'
  <2>1. resp[r] \in Request  BY <1>6 DEF Write
  <2>2. written' \in {written, Append(written, resp[r])}  BY <1>6 DEF Write
  <2>3. written' \in Seq(Request)  BY <2>1, <2>2, AppendProperties
  <2> QED  BY <1>6, <2>3 DEF Write, Goto
<1>7. ASSUME NEW r \in Request, Advance(r)  PROVE TypeOK' /\ FoundInv'
  <2>1. lastWrittenId_' \in Id  BY <1>7, FollowingType DEF Advance
  <2> QED  BY <1>7, <2>1 DEF Advance, Goto
<1>8. CASE UNCHANGED vars
  BY <1>8 DEF vars
<1> QED
  BY <1>1, <1>2, <1>3, <1>4, <1>5, <1>6, <1>7, <1>8 DEF Next, sendResponses

\* The types hold in every state, however many continuations run at a time.
THEOREM TypesKept == Spec => []TypeOK
<1>1. TypeOK /\ FoundInv /\ [Next]_vars => (TypeOK /\ FoundInv)'  BY TypeStep
<1> QED  BY <1>1, TypeInit, PTL DEF Spec

-----------------------------------------------------------------------------
(* One executor thread: the invariant.                                     *)

OneThread == Threads = 1

\* The requests read, how many these are, and how many responses are written.
Arrived == {q \in Request : service[q] # "unread"}
Taken == Cardinality(Arrived)
Answered == Len(written)

\* Requests are read in order, each with the next id, and no two of those not
\* answered share one.
ReadInv ==
    /\ Taken \in 0 .. Requests
    /\ Arrived = 1 .. Taken
    /\ requestId_ = (Taken + 1) % Ids
    /\ \A r \in 1 .. Taken : requestId[r] = r % Ids
    /\ Answered <= Taken /\ Taken - Answered <= Ids

\* A continuation is called with a response, and no two run at a time.
CalledInv ==
    /\ \A r \in Request : pc[r] # "none" => service[r] \in {"done", "long"}
    /\ \A r, q \in Running : r = q

\* What is written is 1, 2, ..., each of a continuation that was called.
WrittenInv == \A k \in 1 .. Answered : written[k] = k /\ pc[k] # "none"

\* lastWrittenId_ is the id of the last response written, except between a
\* write and the assignment behind it.
LastInv ==
    /\ \A r \in Request : pc[r] = "advance" =>
          Answered > 0 /\ lastWrittenId_ = (Answered - 1) % Ids
    /\ (\A r \in Request : pc[r] # "advance") => lastWrittenId_ = Answered % Ids

\* Under each id is the response to a request with that id, not yet written.
WaitingInv ==
    \A i \in DOMAIN responses_ :
        /\ responses_[i] \in Answered + 1 .. Taken
        /\ responses_[i] % Ids = i
        /\ pc[responses_[i]] # "none"

\* The response found is the next one, until it is written.
NextInv ==
    \A r \in Request : pc[r] \in {"take", "write"} =>
        /\ resp[r] = Answered + 1 /\ Answered + 1 <= Taken
        /\ pc[Answered + 1] # "none"
        /\ pc[r] = "write" => (Answered + 1) % Ids \notin DOMAIN responses_

\* While no continuation runs, the next response is not there.
IdleInv == Running = {} => (Answered + 1) % Ids \notin DOMAIN responses_

Inv == /\ TypeOK /\ FoundInv /\ ReadInv /\ CalledInv /\ WrittenInv /\ LastInv
       /\ WaitingInv /\ NextInv /\ IdleInv

\* How many were read and answered are numbers.
LEMMA Numbers ==
    ASSUME Inv
    PROVE  /\ Answered \in Nat /\ Taken \in Nat /\ Requests \in Nat
           /\ Answered <= Taken /\ Taken <= Requests
           /\ \A k \in 1 .. Taken : k \in Request /\ service[k] # "unread"
<1>1. Answered \in Nat  BY LenProperties DEF Inv, TypeOK, Answered
<1>2. Taken \in Nat /\ Requests \in Nat /\ Answered <= Taken /\ Taken <= Requests
  BY <1>1, IdsType DEF Inv, ReadInv
<1>3. Arrived = 1 .. Taken  BY DEF Inv, ReadInv
<1>4. \A k \in 1 .. Taken : k \in Request /\ service[k] # "unread"
  BY <1>3 DEF Arrived
<1> QED  BY <1>1, <1>2, <1>4

\* While the continuation of r runs no other does.
LEMMA OthersRest ==
    ASSUME Inv, NEW r \in Request, pc[r] \notin {"none", "end"}
    PROVE  \A q \in Request : q # r => pc[q] \in {"none", "end"}
BY DEF Inv, CalledInv, Running

\* A continuation runs only after the service is done with its request, which
\* was read.
LEMMA CalledIsRead ==
    ASSUME Inv, NEW r \in Request, service[r] \in {"done", "long"}
    PROVE  r \in 1 .. Taken /\ requestId[r] = r % Ids
<1>1. r \in Arrived /\ Arrived = 1 .. Taken  BY DEF Arrived, Inv, ReadInv
<1> QED  BY <1>1 DEF Inv, ReadInv

\* At the start nothing was read.
LEMMA InitInv == Init => Inv
<1> SUFFICES ASSUME Init PROVE Inv
  OBVIOUS
<1>1. TypeOK /\ FoundInv  BY TypeInit
<1>2. Arrived = {} /\ Taken = 0
  <2>1. Arrived = {}  BY DEF Init, Arrived
  <2> QED  BY <2>1, FS_EmptySet DEF Taken
<1>3. Answered = 0  BY EmptySeq DEF Init, Answered
<1>4. 0 % Ids = 0 /\ (0 + 1) % Ids = 1
  <2>1. 0 = Ids * 0 + 0 /\ 1 = Ids * 0 + 1  BY IdsType
  <2> QED  BY <2>1, IdsType, OneRemainder
<1>5. ReadInv
  <2>1. 0 \in 0 .. Requests /\ {} = 1 .. 0 /\ 0 - 0 <= Ids  BY IdsType
  <2> QED  BY <1>2, <1>3, <1>4, <2>1 DEF Init, ReadInv
<1>6. \A r \in Request : pc[r] = "none"  BY DEF Init
<1>7. CalledInv /\ NextInv  BY <1>6 DEF CalledInv, Running, NextInv
<1>8. WrittenInv  BY <1>3 DEF WrittenInv
<1>9. LastInv  BY <1>3, <1>4, <1>6 DEF Init, LastInv
<1>10. DOMAIN responses_ = {}  BY DEF Init
<1>11. WaitingInv /\ IdleInv  BY <1>10 DEF WaitingInv, IdleInv
<1> QED  BY <1>1, <1>5, <1>7, <1>8, <1>9, <1>11 DEF Inv

\* What a step keeps if it neither reads a request nor writes a response.
LEMMA SameCounts ==
    ASSUME Inv, UNCHANGED <<requestId_, requestId, written>>, Arrived' = Arrived,
           \A k \in Request : pc[k] # "none" => pc'[k] # "none"
    PROVE  /\ Answered' = Answered /\ Taken' = Taken
           /\ ReadInv' /\ WrittenInv'
<1>1. Answered' = Answered /\ Taken' = Taken  BY DEF Answered, Taken
<1>2. ReadInv'  BY <1>1 DEF Inv, ReadInv
<1>3. ASSUME NEW k \in 1 .. Answered  PROVE written[k] = k /\ pc'[k] # "none"
  <2>1. k \in Request  BY Numbers
  <2> QED  BY <2>1 DEF Inv, WrittenInv
<1>4. WrittenInv'  BY <1>1, <1>3 DEF WrittenInv
<1> QED  BY <1>1, <1>2, <1>4

\* A request read is the next one.
LEMMA ReadStep ==
    ASSUME Inv, NEW r \in Request, Read(r), TypeOK', FoundInv'
    PROVE  Inv'
<1>1. /\ service[r] = "unread" /\ \A q \in 1 .. r - 1 : service[q] # "unread"
      /\ r - Answered <= Ids
      /\ requestId' = [requestId EXCEPT ![r] = requestId_]
      /\ requestId_' = Following(requestId_)
      /\ service' = [service EXCEPT ![r] = "running"]
      /\ UNCHANGED <<responses_, lastWrittenId_, pc, resp, written>>
  BY DEF Read, RoomForId, Answered
<1>2. Answered' = Answered  BY <1>1 DEF Answered
<1>3. r \in Nat /\ r <= Requests  BY Numbers DEF Request
<1>4. r = Taken + 1
  <2>1. r \notin 1 .. Taken  BY <1>1, Numbers
  <2>2. r > Taken /\ Taken + 1 >= 1  BY <1>3, <2>1, Numbers DEF Request
  <2>3. ASSUME r > Taken + 1  PROVE FALSE
    <3>1. Taken + 1 \in 1 .. r - 1 /\ Taken + 1 \in Request
      BY <1>3, <2>3, Numbers DEF Request
    <3>2. Taken + 1 \in Arrived  BY <1>1, <3>1 DEF Arrived
    <3>3. Taken + 1 \in 1 .. Taken  BY <3>2 DEF Inv, ReadInv
    <3> QED  BY <3>3, Numbers
  <2> QED  BY <1>3, <2>2, <2>3, Numbers
<1>5. Arrived' = 1 .. r
  <2>1. Arrived' = Arrived \cup {r}
    BY <1>1 DEF Arrived, Inv, TypeOK
  <2>2. Arrived = 1 .. Taken  BY DEF Inv, ReadInv
  <2>3. (1 .. Taken) \cup {Taken + 1} = 1 .. Taken + 1  BY Numbers
  <2> QED  BY <1>4, <2>1, <2>2, <2>3
<1>6. Taken' = r
  <2>1. 1 \in Int /\ r \in Int /\ ~(1 > r) /\ r - 1 + 1 = r  BY <1>3, <1>4, Numbers
  <2>2. Cardinality(1 .. r) = r  BY <2>1, FS_Interval
  <2> QED  BY <1>5, <2>2 DEF Taken
<1>7. ReadInv'
  <2>1. requestId_ = r % Ids  BY <1>4 DEF Inv, ReadInv
  <2>2. requestId_' = (r + 1) % Ids  BY <1>1, <1>3, <2>1, FollowingId
  <2>3. ASSUME NEW k \in 1 .. r  PROVE requestId'[k] = k % Ids
    <3>1. CASE k = r
      BY <1>1, <2>1, <3>1 DEF Inv, TypeOK
    <3>2. CASE k # r
      <4>1. k \in 1 .. Taken /\ k \in Request  BY <1>3, <1>4, <3>2, Numbers
      <4> QED  BY <1>1, <3>2, <4>1 DEF Inv, ReadInv, TypeOK
    <3> QED  BY <3>1, <3>2
  <2>4. r \in 0 .. Requests /\ Answered <= r /\ r - Answered <= Ids
    BY <1>1, <1>3, <1>4, Numbers
  <2> QED  BY <1>2, <1>5, <1>6, <2>2, <2>3, <2>4 DEF ReadInv
<1>8. pc[r] = "none"  BY <1>1 DEF Inv, CalledInv
<1>9. CalledInv'
  BY <1>1, <1>8 DEF Inv, CalledInv, Running, TypeOK
<1>10. WrittenInv' /\ LastInv' /\ IdleInv'
  BY <1>1, <1>2 DEF Inv, WrittenInv, LastInv, IdleInv, Running
<1>11. WaitingInv'
  <2>1. ASSUME NEW i \in DOMAIN responses_
        PROVE  responses_[i] \in Answered + 1 .. r
    <3>1. responses_[i] \in Answered + 1 .. Taken  BY DEF Inv, WaitingInv
    <3> QED  BY <1>4, <3>1, Numbers
  <2> QED  BY <1>1, <1>2, <1>6, <2>1 DEF Inv, WaitingInv
<1>12. NextInv'
  <2>1. Answered + 1 <= Taken => Answered + 1 <= r  BY <1>4, Numbers
  <2> QED  BY <1>1, <1>2, <1>6, <2>1 DEF Inv, NextInv
<1> QED  BY <1>7, <1>9, <1>10, <1>11, <1>12 DEF Inv

\* The service ends a request.
LEMMA ServeStep ==
    ASSUME Inv, NEW r \in Request, Serve(r), TypeOK', FoundInv'
    PROVE  Inv'
<1>1. PICK how \in {"done", "long", "failed"} :
        /\ service[r] = "running" /\ service' = [service EXCEPT ![r] = how]
        /\ UNCHANGED <<requestId_, responses_, lastWrittenId_, requestId, pc, resp,
                       written>>
  BY DEF Serve
<1>2. Arrived' = Arrived  BY <1>1 DEF Arrived, Inv, TypeOK
<1>3. Answered' = Answered /\ Taken' = Taken /\ ReadInv' /\ WrittenInv'
  BY <1>1, <1>2, SameCounts
<1>4. CalledInv'  BY <1>1 DEF Inv, CalledInv, Running, TypeOK
<1>5. LastInv' /\ IdleInv' /\ WaitingInv' /\ NextInv'
  BY <1>1, <1>3 DEF Inv, LastInv, IdleInv, WaitingInv, NextInv, Running
<1> QED  BY <1>3, <1>4, <1>5 DEF Inv

\* A response is put under the id of its request.
LEMMA StoreStep ==
    ASSUME Inv, OneThread, NEW r \in Request, Store(r), TypeOK', FoundInv'
    PROVE  Inv'
<1>1. /\ service[r] \in {"done", "long"} /\ pc[r] = "none" /\ Cardinality(Running) < Threads
      /\ responses_' = [i \in DOMAIN responses_ \cup {requestId[r]} |->
                          IF i = requestId[r] THEN r ELSE responses_[i]]
      /\ pc' = [pc EXCEPT ![r] = "find"]
      /\ UNCHANGED <<requestId_, lastWrittenId_, requestId, service, resp, written>>
  BY DEF Store, Goto
<1>2. \A q \in Request : pc[q] \in {"none", "end"}
  <2>1. Running \in SUBSET (1 .. Requests)  BY DEF Running, Request
  <2>2. IsFiniteSet(1 .. Requests)
    <3>1. 1 \in Int /\ Requests \in Int  BY IdsType
    <3> QED  BY <3>1, FS_Interval
  <2>3. IsFiniteSet(Running)  BY <2>1, <2>2, FS_Subset
  <2>4. Cardinality(Running) \in Nat  BY <2>3, FS_CardinalityType
  <2>5. Cardinality(Running) = 0  BY <1>1, <2>4 DEF OneThread
  <2>6. Running = {}  BY <2>3, <2>5, FS_EmptySet
  <2> QED  BY <2>6 DEF Running
<1>3. pc' \in [Request -> {"none", "find", "end"}] /\ pc'[r] = "find"
      /\ \A q \in Request : q # r => pc'[q] = pc[q]
  BY <1>1, <1>2 DEF Inv, TypeOK
<1>4. Answered' = Answered /\ Taken' = Taken /\ ReadInv' /\ WrittenInv'
  <2>1. Arrived' = Arrived  BY <1>1 DEF Arrived
  <2>2. \A k \in Request : pc[k] # "none" => pc'[k] # "none"  BY <1>1, <1>3
  <2> QED  BY <1>1, <2>1, <2>2, SameCounts
<1>5. r \in 1 .. Taken /\ requestId[r] = r % Ids  BY <1>1, CalledIsRead
<1>6. r \in Answered + 1 .. Taken
  <2>1. r \notin 1 .. Answered  BY <1>1 DEF Inv, WrittenInv
  <2> QED  BY <1>5, <2>1, Numbers
<1>7. CalledInv'
  <2>1. \A q \in Running' : q = r  BY <1>2, <1>3 DEF Running
  <2>2. \A q \in Request : pc'[q] # "none" => service'[q] \in {"done", "long"}
    BY <1>1, <1>3 DEF Inv, CalledInv
  <2> QED  BY <2>1, <2>2 DEF CalledInv
<1>8. LastInv'
  <2>1. lastWrittenId_ = Answered % Ids  BY <1>2 DEF Inv, LastInv
  <2> QED  BY <1>1, <1>3, <1>4, <2>1 DEF LastInv
<1>9. WaitingInv'
  <2>1. ASSUME NEW i \in DOMAIN responses_'
        PROVE  /\ responses_'[i] \in Answered + 1 .. Taken
               /\ responses_'[i] % Ids = i
               /\ pc'[responses_'[i]] # "none"
    <3>1. CASE i = requestId[r]
      <4>1. responses_'[i] = r  BY <1>1, <3>1
      <4> QED  BY <1>3, <1>5, <1>6, <3>1, <4>1
    <3>2. CASE i # requestId[r]
      <4>1. i \in DOMAIN responses_ /\ responses_'[i] = responses_[i]
        BY <1>1, <3>2
      <4>2. /\ responses_[i] \in Answered + 1 .. Taken
            /\ responses_[i] % Ids = i /\ pc[responses_[i]] # "none"
        BY <4>1 DEF Inv, WaitingInv
      <4>3. responses_[i] \in Request  BY <4>1 DEF Inv, TypeOK
      <4>4. responses_[i] # r  BY <1>1, <4>2
      <4> QED  BY <1>3, <4>1, <4>2, <4>3, <4>4
    <3> QED  BY <3>1, <3>2
  <2> QED  BY <1>4, <2>1 DEF WaitingInv
<1>10. NextInv'
  <2>1. \A q \in Request : pc'[q] \notin {"take", "write"}  BY <1>3
  <2> QED  BY <2>1 DEF NextInv
<1>11. IdleInv'
  <2>1. r \in Running'  BY <1>3 DEF Running
  <2> QED  BY <2>1 DEF IdleInv
<1> QED  BY <1>4, <1>7, <1>8, <1>9, <1>10, <1>11 DEF Inv

\* What a step of the running continuation keeps, whatever it does.
LEMMA RunningStep ==
    ASSUME Inv, NEW r \in Request, pc[r] \notin {"none", "end"},
           NEW label, label # "none", pc' = [pc EXCEPT ![r] = label],
           UNCHANGED service
    PROVE  /\ pc'[r] = label
           /\ \A q \in Request : q # r => pc'[q] \in {"none", "end"}
           /\ \A k \in Request : pc[k] # "none" => pc'[k] # "none"
           /\ Arrived' = Arrived /\ CalledInv'
<1>1. pc'[r] = label /\ \A q \in Request : q # r => pc'[q] = pc[q]
  BY DEF Inv, TypeOK
<1>2. \A q \in Request : q # r => pc'[q] \in {"none", "end"}
  BY <1>1, OthersRest
<1>3. \A k \in Request : pc[k] # "none" => pc'[k] # "none"  BY <1>1
<1>4. Arrived' = Arrived  BY DEF Arrived
<1>5. \A q \in Running' : q = r  BY <1>2 DEF Running
<1>6. \A q \in Request : pc'[q] # "none" => service'[q] \in {"done", "long"}
  BY <1>1 DEF Inv, CalledInv
<1> QED  BY <1>1, <1>2, <1>3, <1>4, <1>5, <1>6 DEF CalledInv

\* The response found is the next one; if there is none, none waits for another.
LEMMA FindStep ==
    ASSUME Inv, NEW r \in Request, Find(r), TypeOK', FoundInv'
    PROVE  Inv'
<1> DEFINE next == Following(lastWrittenId_)
<1>1. /\ pc[r] = "find"
      /\ UNCHANGED <<requestId_, responses_, lastWrittenId_, requestId, service,
                     written>>
  BY DEF Find
<1>2. PICK label \in {"take", "end"} :
        /\ pc' = [pc EXCEPT ![r] = label]
        /\ label = "take" => /\ next \in DOMAIN responses_
                             /\ resp' = [resp EXCEPT ![r] = responses_[next]]
        /\ label = "end" => next \notin DOMAIN responses_
  BY DEF Find, Goto
<1>3. /\ pc'[r] = label
      /\ \A q \in Request : q # r => pc'[q] \in {"none", "end"}
      /\ \A k \in Request : pc[k] # "none" => pc'[k] # "none"
      /\ Arrived' = Arrived /\ CalledInv'
  BY <1>1, <1>2, RunningStep
<1>4. Answered' = Answered /\ Taken' = Taken /\ ReadInv' /\ WrittenInv'
  BY <1>1, <1>3, SameCounts
<1>5. lastWrittenId_ = Answered % Ids
  <2>1. \A q \in Request : pc[q] # "advance"  BY <1>1, OthersRest
  <2> QED  BY <2>1 DEF Inv, LastInv
<1>6. next = (Answered + 1) % Ids  BY <1>5, Numbers, FollowingId
<1> HIDE DEF next
<1>7. LastInv'  BY <1>1, <1>2, <1>3, <1>4, <1>5 DEF LastInv
<1>8. WaitingInv'
  <2>1. ASSUME NEW i \in DOMAIN responses_  PROVE pc'[responses_[i]] # "none"
    <3>1. responses_[i] \in Request  BY DEF Inv, TypeOK
    <3> QED  BY <1>3, <3>1 DEF Inv, WaitingInv
  <2> QED  BY <1>1, <1>4, <2>1 DEF Inv, WaitingInv
<1>9. NextInv'
  <2>1. ASSUME label = "take"
        PROVE  /\ resp'[r] = Answered + 1 /\ Answered + 1 <= Taken
               /\ pc'[Answered + 1] # "none"
    <3> DEFINE q == responses_[next]
    <3>1. q \in Answered + 1 .. Taken /\ q % Ids = next /\ pc[q] # "none"
          /\ q \in Request
      BY <1>2, <2>1 DEF Inv, WaitingInv, TypeOK
    <3>2. resp'[r] = q  BY <1>2, <2>1 DEF Inv, TypeOK
    <3> HIDE DEF q
    <3>3. Answered + 1 \in Answered + 1 .. Taken  BY <3>1, Numbers
    <3>4. Taken - Answered <= Ids  BY DEF Inv, ReadInv
    <3>5. q = Answered + 1  BY <1>6, <3>1, <3>3, <3>4, Numbers, DistinctIds
    <3> QED  BY <1>3, <3>1, <3>2, <3>3, <3>5, Numbers
  <2> QED  BY <1>1, <1>2, <1>3, <1>4, <2>1 DEF NextInv
<1>10. IdleInv'
  <2>1. CASE label = "take"
    <3>1. r \in Running'  BY <1>3, <2>1 DEF Running
    <3> QED  BY <3>1 DEF IdleInv
  <2>2. CASE label = "end"
    BY <1>1, <1>2, <1>4, <1>6, <2>2 DEF IdleInv
  <2> QED  BY <2>1, <2>2
<1> QED  BY <1>3, <1>4, <1>7, <1>8, <1>9, <1>10 DEF Inv

\* The entry erased is that of the response found.
LEMMA TakeStep ==
    ASSUME Inv, NEW r \in Request, Take(r), TypeOK', FoundInv'
    PROVE  Inv'
<1>1. /\ pc[r] = "take"
      /\ responses_' = [i \in DOMAIN responses_ \ {requestId[resp[r]]} |->
                          responses_[i]]
      /\ pc' = [pc EXCEPT ![r] = "write"]
      /\ UNCHANGED <<requestId_, lastWrittenId_, requestId, service, resp, written>>
  BY DEF Take, Restrict, Goto
<1>2. /\ pc'[r] = "write"
      /\ \A q \in Request : q # r => pc'[q] \in {"none", "end"}
      /\ \A k \in Request : pc[k] # "none" => pc'[k] # "none"
      /\ Arrived' = Arrived /\ CalledInv'
  BY <1>1, RunningStep
<1>3. Answered' = Answered /\ Taken' = Taken /\ ReadInv' /\ WrittenInv'
  BY <1>1, <1>2, SameCounts
<1>4. resp[r] = Answered + 1 /\ Answered + 1 <= Taken
      /\ pc[Answered + 1] # "none"
  BY <1>1 DEF Inv, NextInv
<1>5. requestId[resp[r]] = (Answered + 1) % Ids
  <2>1. Answered + 1 \in 1 .. Taken  BY <1>4, Numbers
  <2> QED  BY <1>4, <2>1 DEF Inv, ReadInv
<1>6. LastInv'
  <2>1. \A q \in Request : pc[q] # "advance" /\ pc'[q] # "advance"
    BY <1>1, <1>2, OthersRest
  <2> QED  BY <1>1, <1>3, <2>1 DEF Inv, LastInv
<1>7. WaitingInv'
  <2>1. ASSUME NEW i \in DOMAIN responses_'
        PROVE  /\ i \in DOMAIN responses_ /\ responses_'[i] = responses_[i]
               /\ pc'[responses_[i]] # "none"
    <3>1. i \in DOMAIN responses_ /\ responses_'[i] = responses_[i]  BY <1>1
    <3>2. responses_[i] \in Request /\ pc[responses_[i]] # "none"
      BY <3>1 DEF Inv, TypeOK, WaitingInv
    <3> QED  BY <1>2, <3>1, <3>2
  <2> QED  BY <1>3, <2>1 DEF Inv, WaitingInv
<1>8. NextInv'
  <2>1. (Answered + 1) % Ids \notin DOMAIN responses_'  BY <1>1, <1>5
  <2>2. pc'[Answered + 1] # "none"
    <3>1. Answered + 1 \in Request  BY <1>4, Numbers
    <3> QED  BY <1>2, <1>4, <3>1
  <2> QED  BY <1>1, <1>2, <1>3, <1>4, <2>1, <2>2 DEF NextInv
<1>9. IdleInv'
  <2>1. r \in Running'  BY <1>2 DEF Running
  <2> QED  BY <2>1 DEF IdleInv
<1> QED  BY <1>2, <1>3, <1>6, <1>7, <1>8, <1>9 DEF Inv

\* A response too long is not written: it was the next one and is gone.
LEMMA TooLongStep ==
    ASSUME Inv, NEW r \in Request, Write(r), service[resp[r]] = "long",
           TypeOK', FoundInv'
    PROVE  Inv'
<1>1. /\ pc[r] = "write" /\ pc' = [pc EXCEPT ![r] = "end"]
      /\ UNCHANGED <<requestId_, responses_, lastWrittenId_, requestId, service,
                     resp, written>>
  BY DEF Write, Goto
<1>2. /\ pc'[r] = "end"
      /\ \A q \in Request : q # r => pc'[q] \in {"none", "end"}
      /\ \A k \in Request : pc[k] # "none" => pc'[k] # "none"
      /\ Arrived' = Arrived /\ CalledInv'
  BY <1>1, RunningStep
<1>3. Answered' = Answered /\ Taken' = Taken /\ ReadInv' /\ WrittenInv'
  BY <1>1, <1>2, SameCounts
<1>4. LastInv'
  <2>1. \A q \in Request : pc[q] # "advance" /\ pc'[q] # "advance"
    BY <1>1, <1>2, OthersRest
  <2> QED  BY <1>1, <1>3, <2>1 DEF Inv, LastInv
<1>5. WaitingInv'
  <2>1. ASSUME NEW i \in DOMAIN responses_  PROVE pc'[responses_[i]] # "none"
    <3>1. responses_[i] \in Request  BY DEF Inv, TypeOK
    <3> QED  BY <1>2, <3>1 DEF Inv, WaitingInv
  <2> QED  BY <1>1, <1>3, <2>1 DEF Inv, WaitingInv
<1>6. NextInv'
  <2>1. \A q \in Request : pc'[q] \notin {"take", "write"}  BY <1>2
  <2> QED  BY <2>1 DEF NextInv
<1>7. IdleInv'
  <2>1. (Answered + 1) % Ids \notin DOMAIN responses_
    BY <1>1 DEF Inv, NextInv
  <2> QED  BY <1>1, <1>3, <2>1 DEF IdleInv
<1> QED  BY <1>2, <1>3, <1>4, <1>5, <1>6, <1>7 DEF Inv

\* The response written is the next one.
LEMMA WriteStep ==
    ASSUME Inv, NEW r \in Request, Write(r), service[resp[r]] # "long",
           TypeOK', FoundInv'
    PROVE  Inv'
<1>1. /\ pc[r] = "write" /\ written' = Append(written, resp[r])
      /\ pc' = [pc EXCEPT ![r] = "advance"]
      /\ UNCHANGED <<requestId_, responses_, lastWrittenId_, requestId, service,
                     resp>>
  BY DEF Write, Goto
<1>2. /\ pc'[r] = "advance"
      /\ \A q \in Request : q # r => pc'[q] \in {"none", "end"}
      /\ \A k \in Request : pc[k] # "none" => pc'[k] # "none"
      /\ Arrived' = Arrived /\ CalledInv'
  BY <1>1, RunningStep
<1>3. /\ resp[r] = Answered + 1 /\ Answered + 1 <= Taken
      /\ pc[Answered + 1] # "none" /\ Answered + 1 \in Request
      /\ (Answered + 1) % Ids \notin DOMAIN responses_
  <2>1. Answered + 1 <= Taken  BY <1>1 DEF Inv, NextInv
  <2>2. Answered + 1 \in Request  BY <2>1, Numbers
  <2> QED  BY <1>1, <2>2 DEF Inv, NextInv
<1>4. /\ Answered' = Answered + 1 /\ written'[Answered + 1] = Answered + 1
      /\ \A k \in 1 .. Answered : written'[k] = written[k]
  BY <1>1, <1>3, AppendProperties DEF Answered, Inv, TypeOK
<1>5. Taken' = Taken  BY <1>2 DEF Taken
<1>6. ReadInv'
  <2>1. Answered + 1 <= Taken /\ Taken - (Answered + 1) <= Ids
    <3>1. Taken - Answered <= Ids  BY DEF Inv, ReadInv
    <3> QED  BY <1>3, <3>1, Numbers, IdsType
  <2> QED  BY <1>1, <1>2, <1>4, <1>5, <2>1 DEF Inv, ReadInv
<1>7. WrittenInv'
  <2>1. ASSUME NEW k \in 1 .. Answered + 1
        PROVE  written'[k] = k /\ pc'[k] # "none"
    <3>1. CASE k = Answered + 1
      BY <1>2, <1>3, <1>4, <3>1
    <3>2. CASE k # Answered + 1
      <4>1. k \in 1 .. Answered /\ k \in Request  BY <3>2, Numbers
      <4>2. written[k] = k /\ pc[k] # "none"  BY <4>1 DEF Inv, WrittenInv
      <4> QED  BY <1>2, <1>4, <4>1, <4>2
    <3> QED  BY <3>1, <3>2
  <2> QED  BY <1>4, <2>1 DEF WrittenInv
<1>8. LastInv'
  <2>1. \A q \in Request : pc[q] # "advance"  BY <1>1, OthersRest
  <2>2. lastWrittenId_ = Answered % Ids  BY <2>1 DEF Inv, LastInv
  <2>3. Answered + 1 > 0 /\ (Answered + 1) - 1 = Answered  BY Numbers
  <2> QED  BY <1>1, <1>2, <1>4, <2>2, <2>3 DEF LastInv
<1>9. WaitingInv'
  <2>1. ASSUME NEW i \in DOMAIN responses_
        PROVE  /\ responses_[i] \in Answered + 1 + 1 .. Taken
               /\ pc'[responses_[i]] # "none"
    <3>1. /\ responses_[i] \in Answered + 1 .. Taken
          /\ responses_[i] % Ids = i /\ pc[responses_[i]] # "none"
          /\ responses_[i] \in Request
      BY DEF Inv, TypeOK, WaitingInv
    <3>2. responses_[i] # Answered + 1  BY <1>3, <3>1
    <3> QED  BY <1>2, <3>1, <3>2, Numbers
  <2> QED  BY <1>1, <1>4, <1>5, <2>1 DEF Inv, WaitingInv
<1>10. NextInv'
  <2>1. \A q \in Request : pc'[q] \notin {"take", "write"}  BY <1>2
  <2> QED  BY <2>1 DEF NextInv
<1>11. IdleInv'
  <2>1. r \in Running'  BY <1>2 DEF Running
  <2> QED  BY <2>1 DEF IdleInv
<1> QED  BY <1>2, <1>6, <1>7, <1>8, <1>9, <1>10, <1>11 DEF Inv

\* lastWrittenId_ becomes the id of the response written.
LEMMA AdvanceStep ==
    ASSUME Inv, NEW r \in Request, Advance(r), TypeOK', FoundInv'
    PROVE  Inv'
<1>1. /\ pc[r] = "advance" /\ lastWrittenId_' = Following(lastWrittenId_)
      /\ pc' = [pc EXCEPT ![r] = "find"]
      /\ UNCHANGED <<requestId_, responses_, requestId, service, resp, written>>
  BY DEF Advance, Goto
<1>2. /\ pc'[r] = "find"
      /\ \A q \in Request : q # r => pc'[q] \in {"none", "end"}
      /\ \A k \in Request : pc[k] # "none" => pc'[k] # "none"
      /\ Arrived' = Arrived /\ CalledInv'
  BY <1>1, RunningStep
<1>3. Answered' = Answered /\ Taken' = Taken /\ ReadInv' /\ WrittenInv'
  BY <1>1, <1>2, SameCounts
<1>4. LastInv'
  <2>1. Answered > 0 /\ lastWrittenId_ = (Answered - 1) % Ids
    BY <1>1 DEF Inv, LastInv
  <2>2. Answered - 1 \in Nat /\ (Answered - 1) + 1 = Answered
    BY <2>1, Numbers
  <2>3. lastWrittenId_' = Answered % Ids  BY <1>1, <2>1, <2>2, FollowingId
  <2> QED  BY <1>2, <1>3, <2>3 DEF LastInv
<1>5. WaitingInv'
  <2>1. ASSUME NEW i \in DOMAIN responses_  PROVE pc'[responses_[i]] # "none"
    <3>1. responses_[i] \in Request  BY DEF Inv, TypeOK
    <3> QED  BY <1>2, <3>1 DEF Inv, WaitingInv
  <2> QED  BY <1>1, <1>3, <2>1 DEF Inv, WaitingInv
<1>6. NextInv'
  <2>1. \A q \in Request : pc'[q] \notin {"take", "write"}  BY <1>2
  <2> QED  BY <2>1 DEF NextInv
<1>7. IdleInv'
  <2>1. r \in Running'  BY <1>2 DEF Running
  <2> QED  BY <2>1 DEF IdleInv
<1> QED  BY <1>2, <1>3, <1>4, <1>5, <1>6, <1>7 DEF Inv

\* Every step keeps the invariant.
LEMMA StepInv ==
    ASSUME OneThread, Inv, [Next]_vars
    PROVE  Inv'
<1>1. TypeOK' /\ FoundInv'  BY TypeStep DEF Inv
<1>2. ASSUME NEW r \in Request,
             \/ Read(r) \/ Serve(r) \/ Store(r) \/ sendResponses(r)
      PROVE  Inv'
  BY <1>1, <1>2, ReadStep, ServeStep, StoreStep, FindStep, TakeStep, WriteStep,
     TooLongStep, AdvanceStep DEF sendResponses
<1>3. CASE UNCHANGED vars
  <2>1. Arrived' = Arrived /\ Answered' = Answered /\ Taken' = Taken
        /\ Running' = Running
    BY <1>3 DEF vars, Arrived, Answered, Taken, Running
  <2> QED
    BY <1>1, <1>3, <2>1 DEF vars, Inv, ReadInv, CalledInv, WrittenInv, LastInv,
       WaitingInv, NextInv, IdleInv
<1> QED  BY <1>2, <1>3 DEF Next

\* The invariant holds in every state.
LEMMA InvAlways == ASSUME OneThread PROVE Spec => []Inv
<1>1. Inv /\ [Next]_vars => Inv'  BY StepInv
<1> QED  BY <1>1, InitInv, PTL DEF Spec

-----------------------------------------------------------------------------
(* One executor thread: theorems.                                          *)

\* Only responses that wait are kept, and none whose turn it is waits for
\* another to arrive, also where the ids wrap.
THEOREM KeepsOnlyWaiting == ASSUME OneThread PROVE Spec => []OnlyWaitingKept
<1>1. Inv => OnlyWaitingKept
  <2> SUFFICES ASSUME Inv PROVE OnlyWaitingKept
    OBVIOUS
  <2>1. ASSUME Running = {}
        PROVE  Following(lastWrittenId_) \notin DOMAIN responses_
    <3>1. \A r \in Request : pc[r] # "advance"  BY <2>1 DEF Running
    <3>2. lastWrittenId_ = Answered % Ids  BY <3>1 DEF Inv, LastInv
    <3>3. Following(lastWrittenId_) = (Answered + 1) % Ids
      BY <3>2, Numbers, FollowingId
    <3> QED  BY <2>1, <3>3 DEF Inv, IdleInv
  <2>2. ASSUME NEW i \in DOMAIN responses_, NEW n \in DOMAIN written
        PROVE  responses_[i] # written[n]
    <3>1. responses_[i] \in Answered + 1 .. Taken  BY DEF Inv, WaitingInv
    <3>2. n \in 1 .. Answered
      BY LenProperties DEF Inv, TypeOK, Answered
    <3>3. written[n] = n  BY <3>2 DEF Inv, WrittenInv
    <3> QED  BY <3>1, <3>2, <3>3, Numbers
  <2> QED  BY <2>1, <2>2 DEF OnlyWaitingKept, Inv
<1> QED  BY <1>1, InvAlways, PTL

\* The requests sent so far, as the channel counts them.
Requested(n) == [r \in 1 .. n |-> r]

\* They are a sequence, and one more is appended to it.
LEMMA RequestedProperties ==
    ASSUME NEW n \in Nat
    PROVE  /\ Requested(n) \in Seq(Nat) /\ Len(Requested(n)) = n
           /\ \A k \in 1 .. n : Requested(n)[k] = k
           /\ Requested(n + 1) = Append(Requested(n), n + 1)
<1>1. ASSUME NEW m \in Nat
      PROVE  Requested(m) \in Seq(Nat) /\ Len(Requested(m)) = m
             /\ \A k \in 1 .. m : Requested(m)[k] = k
  <2>1. Requested(m) \in [1 .. m -> Nat]  BY DEF Requested
  <2>2. \A k \in 1 .. m : Requested(m)[k] = k  BY DEF Requested
  <2> QED  BY <2>1, <2>2
<1> DEFINE s == Requested(n)
           t == Requested(n + 1)
           a == Append(s, n + 1)
<1>2. s \in Seq(Nat) /\ Len(s) = n /\ \A k \in 1 .. n : s[k] = k  BY <1>1
<1>3. t \in Seq(Nat) /\ Len(t) = n + 1 /\ \A k \in 1 .. n + 1 : t[k] = k
  BY <1>1
<1> HIDE DEF s, t
<1>4. a \in Seq(Nat) /\ Len(a) = n + 1 /\ a[n + 1] = n + 1
      /\ \A k \in 1 .. n : a[k] = s[k]
  BY <1>2, AppendProperties
<1> HIDE DEF a
<1>5. ASSUME NEW k \in 1 .. n + 1  PROVE t[k] = a[k]
  <2>1. CASE k = n + 1
    BY <1>3, <1>4, <2>1
  <2>2. CASE k # n + 1
    <3>1. k \in 1 .. n  BY <2>2
    <3> QED  BY <1>2, <1>3, <1>4, <3>1
  <2> QED  BY <2>1, <2>2
<1>6. t = a  BY <1>3, <1>4, <1>5, SeqEqual
<1> QED  BY <1>2, <1>6 DEF s, t, a

\* Each step is a step of the message channel: reading a request sends it, the
\* write of a response receives it, and no other step is visible.
LEMMA ChannelStep ==
    ASSUME OneThread, Inv, Inv', [Next]_vars
    PROVE  [Channel!Next]_(Channel!vars)
<1> DEFINE sent == Requested(Taken)
<1>1. ASSUME NEW m \in Request, sent' = Append(sent, m), written' = written
      PROVE  Channel!Next
  BY <1>1 DEF Channel!Next, Channel!Send, Requested, Taken, Arrived
<1>2. ASSUME Len(written) < Len(sent), sent' = sent,
             written' = Append(written, sent[Len(written) + 1])
      PROVE  Channel!Next
  BY <1>2 DEF Channel!Next, Channel!Receive, Requested, Taken, Arrived
<1> HIDE DEF sent
<1>3. CASE Arrived' = Arrived /\ written' = written
  <2>1. sent' = sent  BY <1>3 DEF sent, Taken
  <2> QED  BY <1>3, <2>1 DEF Channel!vars, sent, Requested, Taken, Arrived
<1>4. ASSUME NEW r \in Request, Read(r)  PROVE Channel!Next
  <2>1. written' = written  BY <1>4 DEF Read
  <2>2. Taken' = Taken + 1 /\ r = Taken + 1
    <3>1. r \in Arrived' /\ r \notin Arrived
      BY <1>4 DEF Read, Arrived, Inv, TypeOK
    <3>2. Arrived' = Arrived \cup {r}
      BY <1>4 DEF Read, Arrived, Inv, TypeOK
    <3>3. Arrived = 1 .. Taken /\ Arrived' = 1 .. Taken'  BY DEF Inv, ReadInv
    <3>4. Taken \in Nat /\ Taken' \in Nat  BY Numbers DEF Inv, ReadInv
    <3>5. IsFiniteSet(Arrived)
      <4>1. 1 \in Int /\ Taken \in Int  BY <3>4
      <4> QED  BY <3>3, <4>1, FS_Interval
    <3>6. Taken' = Taken + 1  BY <3>1, <3>2, <3>5, FS_AddElement DEF Taken
    <3>7. r \in 1 .. Taken + 1 /\ r \notin 1 .. Taken  BY <3>1, <3>3, <3>6
    <3> QED  BY <3>4, <3>6, <3>7
  <2>3. sent' = Append(sent, r)
    BY <2>2, Numbers, RequestedProperties DEF sent
  <2> QED  BY <1>1, <2>1, <2>3
<1>5. ASSUME NEW r \in Request, Write(r), service[resp[r]] # "long"
      PROVE  Channel!Next
  <2>1. written' = Append(written, resp[r]) /\ pc[r] = "write" /\ service' = service
    BY <1>5 DEF Write
  <2>2. resp[r] = Answered + 1 /\ Answered + 1 <= Taken
    BY <2>1 DEF Inv, NextInv
  <2>3. sent' = sent  BY <2>1 DEF sent, Taken, Arrived
  <2>4. Len(sent) = Taken /\ sent[Answered + 1] = Answered + 1
    <3>1. Answered + 1 \in 1 .. Taken /\ Taken \in Nat  BY <2>2, Numbers
    <3> QED  BY <3>1, RequestedProperties DEF sent
  <2>5. Answered < Taken  BY <2>2, Numbers
  <2> QED  BY <1>2, <2>1, <2>2, <2>3, <2>4, <2>5 DEF Answered
<1>6. ASSUME NEW r \in Request,
             \/ Serve(r) \/ Store(r) \/ Find(r) \/ Take(r) \/ Advance(r)
             \/ Write(r) /\ service[resp[r]] = "long"
      PROVE  Arrived' = Arrived /\ written' = written
  <2>1. CASE Serve(r)
    BY <2>1 DEF Serve, Arrived, Inv, TypeOK
  <2>2. CASE Store(r) \/ Find(r) \/ Take(r) \/ Advance(r)
    BY <2>2 DEF Store, Find, Take, Advance, Arrived
  <2>3. CASE Write(r) /\ service[resp[r]] = "long"
    BY <2>3 DEF Write, Arrived
  <2> QED  BY <1>6, <2>1, <2>2, <2>3
<1>7. CASE UNCHANGED vars
  BY <1>3, <1>7 DEF vars, Arrived
<1> QED  BY <1>3, <1>4, <1>5, <1>6, <1>7 DEF Next, sendResponses

\* Whatever the order the service answers in, the responses are written in the
\* order of the requests, each once, none left out.
THEOREM AnswersInOrder == ASSUME OneThread PROVE Spec => ImplementsMessageChannel
<1>1. Init => Channel!Init
  <2> SUFFICES ASSUME Init PROVE Channel!Init
    OBVIOUS
  <2>1. Arrived = {} /\ Taken = 0
    <3>1. Arrived = {}  BY DEF Init, Arrived
    <3> QED  BY <3>1, FS_EmptySet DEF Taken
  <2>2. Requested(0) = <<>>
    <3>1. Requested(0) \in Seq(Nat) /\ Len(Requested(0)) = 0
      BY RequestedProperties
    <3> QED  BY <3>1, EmptySeq
  <2>3. Requested(Taken) = <<>>  BY <2>1, <2>2
  <2>4. written = <<>>  BY DEF Init
  <2> QED  BY <2>3, <2>4 DEF Channel!Init, Requested, Taken, Arrived
<1>2. Inv /\ Inv' /\ [Next]_vars => [Channel!Next]_(Channel!vars)
  BY ChannelStep
<1> QED
  BY <1>1, <1>2, InvAlways, PTL DEF Spec, ImplementsMessageChannel, Channel!Spec
=============================================================================
