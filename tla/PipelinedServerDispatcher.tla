---------------------- MODULE PipelinedServerDispatcher ----------------------
(***************************************************************************)
(* PipelinedServerDispatcher of ServerDispatcher.h.  The IO thread reads   *)
(* the requests 1, 2, ... of a connection and hands each to the service,   *)
(* which answers in any order, or with an exception.  The continuations of *)
(* the service's futures run on the threads of its executor: they put the  *)
(* response into responses_ and send what is next in the order of the      *)
(* requests.  A response too long for its length field cannot be sent: the *)
(* write throws, and the continuation ends there.  Nothing protects        *)
(* responses_ and lastWrittenId_, so each access of them is a step.        *)
(***************************************************************************)
EXTENDS Naturals, Sequences, FiniteSets, Functions

CONSTANTS
    Requests,   \* bound: how many requests are read in a run
    Threads,    \* executor threads: so many continuations run at a time
    Ids,        \* how many values a uint32_t has
    Failing,    \* the requests whose service may throw
    TooLong     \* the requests whose response may be too long to be framed

ASSUME ConstantsAssumption ==
    /\ Requests \in Nat /\ Threads \in Nat \ {0} /\ Ids \in Nat \ {0, 1}
    /\ Failing \subseteq 1 .. Requests /\ TooLong \subseteq 1 .. Requests

VARIABLES
    requestId_,
    responses_,       \* id |-> the request whose response it holds
    lastWrittenId_,
    requestId,        \* requestId[r]: the id the continuation of r captured
    service,          \* service[r]: where the service is with r
    pc,               \* pc[r]: the step of the continuation of r
    resp,             \* resp[r]: the response that continuation has found
    written           \* the requests whose responses were written, in order

vars == <<requestId_, responses_, lastWrittenId_, requestId, service, pc, resp,
          written>>

Request == 1 .. Requests
Id      == 0 .. Ids - 1

TypeOK ==
    /\ requestId_ \in Id /\ lastWrittenId_ \in Id
    /\ DOMAIN responses_ \subseteq Id
    /\ \A i \in DOMAIN responses_ : responses_[i] \in Request
    /\ requestId \in [Request -> Id]
    /\ service \in [Request -> {"unread", "running", "done", "long", "failed"}]
    /\ pc \in [Request -> {"none", "find", "take", "write", "advance", "end"}]
    /\ resp \in [Request -> Request \cup {0}]
    /\ written \in Seq(Request)

\* Mutant: both counters start at 0.
InitAtZero ==
    /\ requestId_ = 0 /\ lastWrittenId_ = 0
    /\ responses_ = <<>>
    /\ requestId = [r \in Request |-> 0]
    /\ service = [r \in Request |-> "unread"]
    /\ pc = [r \in Request |-> "none"]
    /\ resp = [r \in Request |-> 0]
    /\ written = <<>>

Init ==
    /\ requestId_ = 1 /\ lastWrittenId_ = 0
    /\ responses_ = <<>>
    /\ requestId = [r \in Request |-> 0]
    /\ service = [r \in Request |-> "unread"]
    /\ pc = [r \in Request |-> "none"]
    /\ resp = [r \in Request |-> 0]
    /\ written = <<>>

Following(i) == (i + 1) % Ids

Goto(r, label) == pc' = [pc EXCEPT ![r] = label]

\* Bound: no more requests follow the last one answered than a uint32_t has
\* values.
RoomForId(r) == r - Len(written) <= Ids

-----------------------------------------------------------------------------
(* The IO thread and the service.                                          *)

Read(r) ==
    /\ service[r] = "unread"
    /\ \A q \in 1 .. r - 1 : service[q] # "unread"
    /\ RoomForId(r)
    /\ requestId' = [requestId EXCEPT ![r] = requestId_]
    /\ requestId_' = Following(requestId_)
    /\ service' = [service EXCEPT ![r] = "running"]
    /\ UNCHANGED <<responses_, lastWrittenId_, pc, resp, written>>

\* The service ends with a response, one that is too long, or an exception.
Serve(r) ==
    /\ service[r] = "running"
    /\ \/ service' = [service EXCEPT ![r] = "done"]
       \/ r \in TooLong /\ service' = [service EXCEPT ![r] = "long"]
       \/ r \in Failing /\ service' = [service EXCEPT ![r] = "failed"]
    /\ UNCHANGED <<requestId_, responses_, lastWrittenId_, requestId, pc, resp,
                   written>>

-----------------------------------------------------------------------------
(* The continuation of r, which is not called for an exception.            *)

Running == {r \in Request : pc[r] \notin {"none", "end"}}

Store(r) ==
    /\ service[r] \in {"done", "long"} /\ pc[r] = "none"
    /\ Cardinality(Running) < Threads
    /\ responses_' = [i \in DOMAIN responses_ \cup {requestId[r]} |->
                        IF i = requestId[r] THEN r ELSE responses_[i]]
    /\ Goto(r, "find")
    /\ UNCHANGED <<requestId_, lastWrittenId_, requestId, service, resp, written>>

\* Mutant: any response that is there is sent.
FindAny(r) ==
    /\ pc[r] = "find"
    /\ IF responses_ # <<>>
         THEN /\ \E i \in DOMAIN responses_ : resp' = [resp EXCEPT ![r] = responses_[i]]
              /\ Goto(r, "take")
         ELSE Goto(r, "end") /\ UNCHANGED resp
    /\ UNCHANGED <<requestId_, responses_, lastWrittenId_, requestId, service,
                   written>>

\* responses_.find(lastWrittenId_ + 1), before the loop and at its end.
Find(r) ==
    /\ pc[r] = "find"
    /\ LET next == Following(lastWrittenId_)
       IN  IF next \in DOMAIN responses_
             THEN resp' = [resp EXCEPT ![r] = responses_[next]] /\ Goto(r, "take")
             ELSE Goto(r, "end") /\ UNCHANGED resp
    /\ UNCHANGED <<requestId_, responses_, lastWrittenId_, requestId, service,
                   written>>

\* Mutant: the entry is not erased.
TakeKeepsEntry(r) ==
    /\ pc[r] = "take"
    /\ Goto(r, "write")
    /\ UNCHANGED <<requestId_, responses_, lastWrittenId_, requestId, service,
                   resp, written>>

\* The response is moved out of the entry found, and the entry erased.  If
\* another continuation has erased it meanwhile (Threads > 1), that is
\* undefined; here the response is what the entry held.
Take(r) ==
    /\ pc[r] = "take"
    /\ responses_' = Restrict(responses_,
                              DOMAIN responses_ \ {requestId[resp[r]]})
    /\ Goto(r, "write")
    /\ UNCHANGED <<requestId_, lastWrittenId_, requestId, service, resp, written>>

\* fireWrite, outwards to the length field.  What it throws leaves
\* sendResponses(): the response is no longer in responses_, and
\* lastWrittenId_ is not increased.
Write(r) ==
    /\ pc[r] = "write"
    /\ IF service[resp[r]] = "long"
         THEN Goto(r, "end") /\ UNCHANGED written
         ELSE Goto(r, "advance") /\ written' = Append(written, resp[r])
    /\ UNCHANGED <<requestId_, responses_, lastWrittenId_, requestId, service,
                   resp>>

Advance(r) ==
    /\ pc[r] = "advance"
    /\ lastWrittenId_' = Following(lastWrittenId_)
    /\ Goto(r, "find")
    /\ UNCHANGED <<requestId_, responses_, requestId, service, resp, written>>

sendResponses(r) == Find(r) \/ Take(r) \/ Write(r) \/ Advance(r)

-----------------------------------------------------------------------------
Next == \E r \in Request : Read(r) \/ Serve(r) \/ Store(r) \/ sendResponses(r)

Spec == Init /\ [][Next]_vars

\* The service ends every request it runs, and the executor's threads go on.
FairSpec == /\ Spec
            /\ \A r \in Request : /\ WF_vars(Serve(r))
                                  /\ WF_vars(Store(r) \/ sendResponses(r))

-----------------------------------------------------------------------------
(* Properties, for one executor thread (Threads = 1).                      *)

Channel == INSTANCE MessageChannel
             WITH Message  <- Request,
                  sent     <- [r \in 1 .. Cardinality({q \in Request :
                                         service[q] # "unread"}) |-> r],
                  received <- written

\* Whatever the order the service answers in, the responses are written in the
\* order of the requests, each once, none left out ("Responses are queued until
\* they can be sent in order", ServerDispatcher.h:49), also where the ids wrap.
ImplementsMessageChannel == Channel!Spec

\* Only responses that wait are kept: nothing of a response that was written
\* stays in responses_, where its id would be found again after the ids wrap,
\* and none whose turn it is waits for another one to arrive.  The ids stay
\* within their width.
OnlyWaitingKept ==
    /\ TypeOK
    /\ Running = {} => Following(lastWrittenId_) \notin DOMAIN responses_
    /\ Running = {} => \A i \in DOMAIN responses_ : \A n \in DOMAIN written :
                        responses_[i] # written[n]

\* Every request is answered, except behind one whose service threw or whose
\* response was too long to be written: such a one holds back all that follow,
\* for lastWrittenId_ stays behind it.  Nothing else keeps a response back.
EveryRequestAnswered ==
    \A r \in Request : service[r] = "running" ~>
        \/ \E n \in DOMAIN written : written[n] = r
        \/ \E q \in 1 .. r : service[q] \in {"failed", "long"}
=============================================================================
