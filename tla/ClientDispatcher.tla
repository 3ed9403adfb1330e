-------------------------- MODULE ClientDispatcher --------------------------
(***************************************************************************)
(* MultiplexClientDispatcher: the client's table of pending calls, used    *)
(* at the same time by the application threads that make calls             *)
(* (operator()), by the IO threads that deliver responses (read) and by    *)
(* the timer thread (the onTimeout continuation).  folly's                 *)
(* ConcurrentHashMap makes each table operation atomic; a handler performs *)
(* several of them, so the model has one action per access of the shared   *)
(* state and the handlers interleave between accesses.                     *)
(*                                                                         *)
(* The model starts where RpcChannel::CallMethod draws a request id and    *)
(* ends where the future it waits for becomes ready.  The server and the   *)
(* network are one action each (Serve, ReadFind) without fairness: a       *)
(* request or a response may stay on its way for ever, which is also how   *)
(* the loss of the connection looks from here.                             *)
(***************************************************************************)
EXTENDS Integers, FiniteSets

CONSTANTS
    Call,        \* the calls made in a run
    Channel,     \* the RpcChannels that share this client's dispatcher
    ChannelOf,   \* the channel each call is made on
    Reader,      \* the IO threads, one per connection of the dispatcher
    Threads,     \* how many application threads can be inside operator()
    reqlimit,    \* the pending requests limit given to the constructor
    Oversized,   \* the calls whose request LengthFieldPrepender refuses
    None         \* no call

ASSUME ConstantsAssumption ==
    /\ IsFiniteSet(Call) /\ None \notin Call
    /\ ChannelOf \in [Call -> Channel]
    /\ Threads \in Nat \ {0}
    /\ reqlimit \in Nat
    /\ Oversized \subseteq Call

VARIABLES
    pc,          \* pc[c]: the next step of call c, see Running and Waiting
    id,          \* id[c]: the request id of call c, once it has started
    request_id,  \* request_id[ch]: the channel's atomic counter
    requests_,   \* the calls whose promise is in the table, under id[c]
    promise,     \* promise[c]: the call whose response c's promise holds
    outcome,     \* outcome[c]: what the caller's future became ready with
    net,         \* net[c]: where the request of c, then its response, is
    reader       \* reader[r]: the response IO thread r is delivering

vars == <<pc, id, request_id, requests_, promise, outcome, net, reader>>

Running == {"limit", "insert", "write", "arm"}   \* inside operator()
Waiting == {"await", "expiring"}                 \* the timer is armed
Error   == {"NO_ERROR", "PENDDING_LIMIT", "INVALID_REQUEST", "TIMEOUT",
            "LENGTH_EXCEPTION", "BROKEN_PROMISE"}

Idle == [at |-> "idle", in |-> None, p |-> None]

TypeOK ==
    /\ pc \in [Call -> {"new", "done"} \cup Running \cup Waiting]
    /\ id \in [Call -> Nat]
    /\ request_id \in [Channel -> Nat]
    /\ requests_ \subseteq Call
    /\ promise \in [Call -> Call \cup {None}]
    /\ outcome \in [Call -> Error \cup {"none"}]
    /\ net \in [Call -> {"none", "sent", "replied", "read"}]
    /\ reader \in [Reader -> {Idle} \cup
                             [at : {"erase", "set"}, in : Call, p : Call]]

Init ==
    /\ pc = [c \in Call |-> "new"]
    /\ id = [c \in Call |-> 0]
    /\ request_id = [ch \in Channel |-> 0]
    /\ requests_ = {}
    /\ promise = [c \in Call |-> None]
    /\ outcome = [c \in Call |-> "none"]
    /\ net = [c \in Call |-> "none"]
    /\ reader = [r \in Reader |-> Idle]

-----------------------------------------------------------------------------
At(S) == {c \in Call : pc[c] \in S}

\* The table without the entry stored under key k, if there is one.
Erase(k) == {c \in requests_ : id[c] # k}

\* The caller's future becomes ready with e.
Settle(c, e) == /\ pc' = [pc EXCEPT ![c] = "done"]
                /\ outcome' = [outcome EXCEPT ![c] = e]

Goto(c, label) == /\ pc' = [pc EXCEPT ![c] = label]
                  /\ UNCHANGED outcome

-----------------------------------------------------------------------------
(* operator(): an application thread makes call c.                         *)

\* Mutant: the counter is read and not advanced.
InvokeSameId(c) ==
    /\ pc[c] = "new"
    /\ Cardinality(At(Running)) < Threads
    /\ id' = [id EXCEPT ![c] = request_id[ChannelOf[c]]]
    /\ Goto(c, "limit")
    /\ UNCHANGED <<request_id, requests_, promise, net, reader>>

\* CallMethod draws the id: std::atomic fetch-and-add on the channel.
Invoke(c) ==
    /\ pc[c] = "new"
    /\ Cardinality(At(Running)) < Threads
    /\ LET ch == ChannelOf[c] IN
         /\ id' = [id EXCEPT ![c] = request_id[ch]]
         /\ request_id' = [request_id EXCEPT ![ch] = @ + 1]
    /\ Goto(c, "limit")
    /\ UNCHANGED <<requests_, promise, net, reader>>

\* Mutant: one entry more than the limit passes.
CheckLimitOffByOne(c) ==
    /\ pc[c] = "limit"
    /\ IF Cardinality(requests_) > reqlimit
         THEN Settle(c, "PENDDING_LIMIT")
         ELSE Goto(c, "insert")
    /\ UNCHANGED <<id, request_id, requests_, promise, net, reader>>

\* The size of the table against the limit, before the insertion.
CheckLimit(c) ==
    /\ pc[c] = "limit"
    /\ IF Cardinality(requests_) >= reqlimit
         THEN Settle(c, "PENDDING_LIMIT")
         ELSE Goto(c, "insert")
    /\ UNCHANGED <<id, request_id, requests_, promise, net, reader>>

\* ConcurrentHashMap::insert keeps the entry that is there.
Insert(c) ==
    /\ pc[c] = "insert"
    /\ IF \E d \in requests_ : id[d] = id[c]
         THEN Settle(c, "INVALID_REQUEST") /\ UNCHANGED requests_
         ELSE Goto(c, "write") /\ requests_' = requests_ \cup {c}
    /\ UNCHANGED <<id, request_id, promise, net, reader>>

\* Mutant: the request is handed to the socket before its length is checked.
WriteThenCheck(c) ==
    /\ pc[c] = "write"
    /\ net' = [net EXCEPT ![c] = "sent"]
    /\ IF c \in Oversized THEN Settle(c, "LENGTH_EXCEPTION") ELSE Goto(c, "arm")
    /\ UNCHANGED <<id, request_id, requests_, promise, reader>>

\* pipeline_->write: serialises, prepends the length, hands to the socket.
\* The exception for a body too long for its length field leaves operator()
\* from here; the entry stays in the table.
Write(c) ==
    /\ pc[c] = "write"
    /\ IF c \in Oversized
         THEN Settle(c, "LENGTH_EXCEPTION") /\ UNCHANGED net
         ELSE Goto(c, "arm") /\ net' = [net EXCEPT ![c] = "sent"]
    /\ UNCHANGED <<id, request_id, requests_, promise, reader>>

\* p->getFuture().onTimeout(timeout, ...): no timer if the response is here.
Arm(c) ==
    /\ pc[c] = "arm"
    /\ IF promise[c] # None THEN Settle(c, "NO_ERROR") ELSE Goto(c, "await")
    /\ UNCHANGED <<id, request_id, requests_, promise, net, reader>>

-----------------------------------------------------------------------------
(* The timer thread: it first wins the race for the future, then runs the  *)
(* continuation.                                                           *)

\* Mutant: the future has no timeout.
TimerNeverFires(c) == FALSE /\ pc[c] = "await" /\ UNCHANGED vars

TimerFires(c) ==
    /\ pc[c] = "await"
    /\ Goto(c, "expiring")
    /\ UNCHANGED <<id, request_id, requests_, promise, net, reader>>

\* Mutant: the continuation does not erase the entry.
TimeoutKeepsEntry(c) ==
    /\ pc[c] = "expiring"
    /\ Settle(c, "TIMEOUT")
    /\ UNCHANGED <<id, request_id, requests_, promise, net, reader>>

TimeoutHandler(c) ==
    /\ pc[c] = "expiring"
    /\ requests_' = Erase(id[c])
    /\ Settle(c, "TIMEOUT")
    /\ UNCHANGED <<id, request_id, promise, net, reader>>

-----------------------------------------------------------------------------
(* The server, as far as the dispatcher sees it: it runs the method of a   *)
(* request once and sends one response with the id of the request.         *)

Serve(c) ==
    /\ net[c] = "sent"
    /\ net' = [net EXCEPT ![c] = "replied"]
    /\ UNCHANGED <<pc, id, request_id, requests_, promise, outcome, reader>>

-----------------------------------------------------------------------------
(* read: IO thread r delivers the response to call `in'.                   *)

\* requests_.find: a response without an entry is discarded.
ReadFind(r, in) ==
    /\ reader[r].at = "idle"
    /\ net[in] = "replied"
    /\ net' = [net EXCEPT ![in] = "read"]
    /\ \/ /\ \A c \in requests_ : id[c] # id[in]
          /\ UNCHANGED reader
       \/ \E p \in requests_ :
             /\ id[p] = id[in]
             /\ reader' = [reader EXCEPT ![r] =
                              [at |-> "erase", in |-> in, p |-> p]]
    /\ UNCHANGED <<pc, id, request_id, requests_, promise, outcome>>

\* Mutant: the response is dropped half way and the reader is not reset.
ReadEraseStops(r) ==
    /\ reader[r].at = "erase"
    /\ UNCHANGED requests_
    /\ reader' = [reader EXCEPT ![r] =
                     [at |-> "idle", in |-> reader[r].in, p |-> reader[r].p]]
    /\ UNCHANGED <<pc, id, request_id, promise, outcome, net>>

\* requests_.erase: by key, whatever is stored under it by now.
ReadErase(r) ==
    /\ reader[r].at = "erase"
    /\ requests_' = Erase(id[reader[r].in])
    /\ reader' = [reader EXCEPT ![r] =
                     [at |-> "set", in |-> reader[r].in, p |-> reader[r].p]]
    /\ UNCHANGED <<pc, id, request_id, promise, outcome, net>>

\* Mutant: the response does not race with the timer, it always wins.
ReadSetOverwrites(r) ==
    LET p == reader[r].p IN
    /\ reader[r].at = "set"
    /\ promise' = [promise EXCEPT ![p] = reader[r].in]
    /\ IF pc[p] \in {"await", "done"} THEN Settle(p, "NO_ERROR")
                                     ELSE UNCHANGED <<pc, outcome>>
    /\ reader' = [reader EXCEPT ![r] = Idle]
    /\ UNCHANGED <<id, request_id, requests_, net>>

\* p->setValue(in): readies the caller's future unless the timer won the
\* race.  A promise that is already satisfied throws and stays as it is.
ReadSet(r) ==
    LET p == reader[r].p IN
    /\ reader[r].at = "set"
    /\ promise' = IF promise[p] = None
                    THEN [promise EXCEPT ![p] = reader[r].in] ELSE promise
    /\ IF pc[p] = "await" THEN Settle(p, "NO_ERROR")
                          ELSE UNCHANGED <<pc, outcome>>
    /\ reader' = [reader EXCEPT ![r] = Idle]
    /\ UNCHANGED <<id, request_id, requests_, net>>

\* The last reference to an unsatisfied promise goes away with an entry that
\* was erased under another call's id: folly breaks the promise.
BreakPromise(c) ==
    /\ pc[c] = "await"
    /\ c \notin requests_
    /\ promise[c] = None
    /\ \A r \in Reader : reader[r].p # c
    /\ Settle(c, "BROKEN_PROMISE")
    /\ UNCHANGED <<id, request_id, requests_, promise, net, reader>>

-----------------------------------------------------------------------------
Operate(c) == \/ CheckLimit(c) \/ Insert(c) \/ Write(c) \/ Arm(c)
              \/ TimerFires(c) \/ TimeoutHandler(c) \/ BreakPromise(c)

Deliver(r) == ReadErase(r) \/ ReadSet(r)

Next == \/ \E c \in Call : Invoke(c) \/ Operate(c) \/ Serve(c)
        \/ \E r \in Reader : Deliver(r) \/ \E in \in Call : ReadFind(r, in)

Spec == Init /\ [][Next]_vars

\* Threads inside a handler go on and armed timers fire.  Nothing makes the
\* application call, the server answer or the network deliver.
Fairness == /\ \A c \in Call : WF_vars(Operate(c))
            /\ \A r \in Reader : WF_vars(Deliver(r))

FairSpec == Spec /\ Fairness

-----------------------------------------------------------------------------
(* Properties.                                                             *)

\* A caller that gets a response without error gets the response to its own
\* request, although responses arrive in any order and are matched by id
\* only (requests_, ClientDispatcher.h:153-155).
OwnResponse == \A c \in Call : outcome[c] = "NO_ERROR" => promise[c] = c

\* Once the future of a call is ready, by a response, an error or the timer,
\* its entry is gone: a response that comes later finds nothing (read,
\* ClientDispatcher.h:51-54), and the table does not grow with dead entries.
\* (The entry of an oversized request stays: its exception leaves operator()
\* before there is a timeout.)
SettledIsForgotten ==
    \A c \in Call : outcome[c] \notin {"none", "LENGTH_EXCEPTION"}
                       => c \notin requests_

\* The size check and the insertion are two steps (ClientDispatcher.h:81,91):
\* threads that pass the check together overshoot the limit, by at most one
\* entry for each thread but the first.
PendingBound == Cardinality(requests_) <= reqlimit + Threads - 1

\* setValue is never called on a satisfied promise, which would throw on the
\* IO thread: find and erase are two steps (ClientDispatcher.h:47-58), so
\* two responses under one id could both find the promise.
PromiseSatisfiedOnce ==
    \A r \in Reader : reader[r].at = "set" => promise[reader[r].p] = None

\* A future that is ready stays as it is, although the timer and a late
\* response race for it (onTimeout, ClientDispatcher.h:124).
SettleOnce ==
    [][\A c \in Call : outcome[c] # "none" => outcome'[c] = outcome[c]]_vars

\* Every call that starts ends, with a response, an error or the timeout,
\* even when the server or the network never answers.
EveryCallSettles ==
    \A c \in Call : pc[c] # "new" ~> outcome[c] # "none"

-----------------------------------------------------------------------------
(* The dispatcher of one channel implements RpcCalls.                      *)

Ending(e) ==
    CASE e = "NO_ERROR" -> "answered"
      [] e = "TIMEOUT" -> "expired"
      [] e \in {"PENDDING_LIMIT", "INVALID_REQUEST"} -> "refused"
      [] e \in {"LENGTH_EXCEPTION", "BROKEN_PROMISE"} -> "failed"

status == [c \in Call |-> IF pc[c] = "new" THEN "idle"
                         ELSE IF outcome[c] = "none" THEN "open"
                         ELSE Ending(outcome[c])]

executed == [c \in Call |-> IF net[c] \in {"replied", "read"} THEN 1 ELSE 0]

Calls == INSTANCE RpcCalls WITH status <- status, executed <- executed

\* Every behaviour of the dispatcher is one RpcCalls allows: each call ends
\* in one way, answered only after the server executed it, and a refused or
\* failed call is never executed.
ImplementsRpcCalls == Calls!Spec
=============================================================================
