--------------------------- MODULE CallbackThreads ---------------------------
(***************************************************************************)
(* Which thread does what for RpcChannel's callers: the application's      *)
(* threads, the IO thread of each client's connection, and the timer       *)
(* thread.  A blocking call waits in future.get(); a callback runs inside  *)
(* whatever readies the future: the IO thread's read, the timer thread's   *)
(* timeout, or CallMethod itself when the future is ready when it attaches *)
(* the continuation.  A callback may make calls of its own.                *)
(*                                                                         *)
(* EventBaseHandler ("ensure we can write from any thread",                *)
(* PbRpcClient.cc:18) writes on the connection's IO thread, and a thread   *)
(* that writes from elsewhere waits until that thread has done it.  The    *)
(* timeout is armed after the write.                                       *)
(*                                                                         *)
(* A thread is its stack of frames: it runs a callback, is writing a       *)
(* request, is about to arm the timeout, or waits for a response.          *)
(***************************************************************************)
EXTENDS Naturals, Sequences, FiniteSets, SequencesExt

CONSTANTS
    Call,       \* the calls made in a run
    App,        \* the application's threads
    IO,         \* the IO threads; each has one client
    Timer,      \* the timer thread
    Oversized,  \* the calls whose request may be too long to be written
    Programs,   \* the programs checked, see Program
    none        \* no call

Thread == App \cup IO \cup {Timer}

\* A program: the callback each call is made in (none: an application thread
\* makes it), the calls made without a callback, the client of each call, and
\* the pending requests limit of the clients.
Program == [parent : [Call -> Call \cup {none}], blocking : SUBSET Call,
            io : [Call -> IO], reqlimit : Nat]

ASSUME ConstantsAssumption ==
    /\ IsFiniteSet(Call) /\ none \notin Call
    /\ App \cap IO = {} /\ Timer \notin App \cup IO
    /\ Oversized \subseteq Call
    /\ Programs \subseteq Program

VARIABLES
    program,  \* the program that runs
    stack,    \* stack[t]: the frames of thread t, the running one last
    status,   \* status[c]: how far call c is
    ended,    \* ended[c]: what its future became ready with
    ran       \* ran[c]: how often its callback was run

vars == <<program, stack, status, ended, ran>>

Frame == [is : {"callback", "write", "arm", "wait"}, call : Call]

TypeOK ==
    /\ program \in Programs
    /\ stack \in [Thread -> Seq(Frame)]
    /\ status \in [Call -> {"new", "writing", "sent", "fulfilled", "pending", "done"}]
    /\ ended \in [Call -> {"none", "RESPONSE", "TIMEOUT", "PENDDING_LIMIT",
                           "LENGTH_EXCEPTION"}]
    /\ ran \in [Call -> Nat]
    /\ \A t, u \in Thread : \A i \in DOMAIN stack[t], j \in DOMAIN stack[u] :
         stack[t][i] = stack[u][j] => t = u /\ i = j

Init ==
    /\ program \in Programs
    /\ stack = [t \in Thread |-> <<>>]
    /\ status = [c \in Call |-> "new"]
    /\ ended = [c \in Call |-> "none"]
    /\ ran = [c \in Call |-> 0]

-----------------------------------------------------------------------------
Top(t, is, c)  == stack[t] # <<>> /\ Last(stack[t]) = [is |-> is, call |-> c]
Free(t)        == stack[t] = <<>>
Blocking(c)    == c \in program.blocking
IoOf(c)        == program.io[c]

\* t leaves the frame it is in for the frames s.
Instead(t, s) == stack' = [stack EXCEPT ![t] = Front(@) \o s]
Over(t, s)    == stack' = [stack EXCEPT ![t] = @ \o s]

Becomes(c, s) == status' = [status EXCEPT ![c] = s]
Ends(c, e)    == ended' = [ended EXCEPT ![c] = e]

\* What a thread does with a ready future: a blocking call returns, and the
\* continuation of another one runs its callback.
Returned(c) == IF Blocking(c) THEN <<>> ELSE <<[is |-> "callback", call |-> c]>>
Runs(c)     == ran' = IF Blocking(c) THEN ran ELSE [ran EXCEPT ![c] = @ + 1]

\* The table of the client of c has an entry for each call until its response
\* or its timeout, and for ever if its write threw.
Entries(c) ==
    {d \in Call : /\ IoOf(d) = IoOf(c)
                  /\ \/ status[d] \in {"writing", "sent", "pending"}
                     \/ ended[d] = "LENGTH_EXCEPTION"}

TableFull(c) == Cardinality(Entries(c)) >= program.reqlimit

-----------------------------------------------------------------------------
(* CallMethod on thread t.  The size check and the insertion are one step  *)
(* here (Refuse, Throw and Make); ClientDispatcher has their race.         *)

\* t is where call c is made.
MakesNow(t, c) ==
    /\ status[c] = "new"
    /\ IF program.parent[c] = none THEN t \in App /\ Free(t)
                                   ELSE Top(t, "callback", program.parent[c])

Refuse(t, c) ==
    /\ MakesNow(t, c)
    /\ TableFull(c)
    /\ Becomes(c, "done") /\ Ends(c, "PENDDING_LIMIT")
    /\ Over(t, Returned(c)) /\ Runs(c)
    /\ UNCHANGED program

\* LengthFieldPrepender comes before EventBaseHandler: the exception leaves
\* CallMethod at once, and the callback that made the call with it.  The entry
\* was inserted before, and stays.
Throw(t, c) ==
    /\ MakesNow(t, c) /\ c \in Oversized
    /\ ~TableFull(c)
    /\ Becomes(c, "done") /\ Ends(c, "LENGTH_EXCEPTION")
    /\ IF Free(t) THEN UNCHANGED stack ELSE Instead(t, <<>>)
    /\ UNCHANGED <<program, ran>>

Make(t, c) ==
    /\ MakesNow(t, c)
    /\ ~TableFull(c)
    /\ Becomes(c, "writing")
    /\ Over(t, <<[is |-> "write", call |-> c]>>)
    /\ UNCHANGED <<program, ended, ran>>

\* Mutant: also the IO thread itself waits for its loop.
CanWriteInLoop(t, c) == Free(IoOf(c))

\* EventBaseHandler: at once on the IO thread itself, else when that thread is
\* back in its loop.
CanWrite(t, c) == t = IoOf(c) \/ Free(IoOf(c))

Write(t, c) ==
    /\ Top(t, "write", c)
    /\ CanWrite(t, c)
    /\ Becomes(c, "sent")
    /\ Instead(t, <<[is |-> "arm", call |-> c]>>)
    /\ UNCHANGED <<program, ended, ran>>

\* Mutant: a continuation that comes too late is not run.
ArmDropsCallback(t, c) ==
    /\ Top(t, "arm", c)
    /\ Becomes(c, IF status[c] = "fulfilled" THEN "done" ELSE "pending")
    /\ Instead(t, IF Blocking(c) THEN <<[is |-> "wait", call |-> c]>> ELSE <<>>)
    /\ UNCHANGED <<program, ran, ended>>

\* onTimeout, then get() or thenValue: on this thread if the response is here.
Arm(t, c) ==
    /\ Top(t, "arm", c)
    /\ \/ /\ status[c] = "fulfilled"
          /\ Becomes(c, "done")
          /\ Instead(t, Returned(c)) /\ Runs(c)
       \/ /\ status[c] = "sent"
          /\ Becomes(c, "pending")
          /\ Instead(t, IF Blocking(c) THEN <<[is |-> "wait", call |-> c]>>
                                       ELSE <<>>)
          /\ UNCHANGED ran
    /\ UNCHANGED <<program, ended>>

\* get() returns; the response is parsed whatever its error code.
Wake(t, c) ==
    /\ Top(t, "wait", c) /\ status[c] = "done"
    /\ Instead(t, <<>>)
    /\ UNCHANGED <<program, status, ended, ran>>

\* The callback returns, whether it has made its calls or not.
Return(t, c) ==
    /\ Top(t, "callback", c)
    /\ Instead(t, <<>>)
    /\ UNCHANGED <<program, status, ended, ran>>

CallMethod(t, c) == \/ Write(t, c) \/ Arm(t, c) \/ Wake(t, c) \/ Return(t, c)

-----------------------------------------------------------------------------
(* A future becomes ready on thread t.                                     *)

Completes(t, c, e) ==
    /\ status[c] = "pending"
    /\ Becomes(c, "done") /\ Ends(c, e)
    /\ Over(t, Returned(c)) /\ Runs(c)
    /\ UNCHANGED program

\* Mutant: a thread in the middle of something reads all the same.
DeliverBusy(c) ==
    \/ Completes(IoOf(c), c, "RESPONSE")
    \/ /\ status[c] = "sent"
       /\ Becomes(c, "fulfilled") /\ Ends(c, "RESPONSE")
       /\ UNCHANGED <<program, stack, ran>>

\* The IO thread reads the response, which may never come: before the timeout
\* is armed there is no continuation to run.
Deliver(c) ==
    /\ Free(IoOf(c))
    /\ \/ Completes(IoOf(c), c, "RESPONSE")
       \/ /\ status[c] = "sent"
          /\ Becomes(c, "fulfilled") /\ Ends(c, "RESPONSE")
          /\ UNCHANGED <<program, stack, ran>>

\* Mutant: the timeout is run by the connection's IO thread.
ExpireOnIO(c) == Free(IoOf(c)) /\ Completes(IoOf(c), c, "TIMEOUT")

\* The timer thread runs the timeout.
Expire(c) == Free(Timer) /\ Completes(Timer, c, "TIMEOUT")

-----------------------------------------------------------------------------
Next == \/ \E t \in Thread, c \in Call :
             Refuse(t, c) \/ Throw(t, c) \/ Make(t, c) \/ CallMethod(t, c)
        \/ \E c \in Call : Deliver(c) \/ Expire(c)

Spec == Init /\ [][Next]_vars

\* Threads go on unless they wait, callbacks return, armed timers fire.
Fairness == /\ \A t \in Thread, c \in Call : WF_vars(CallMethod(t, c))
            /\ \A c \in Call : WF_vars(Expire(c))

FairSpec == Spec /\ Fairness

-----------------------------------------------------------------------------
(* Properties.                                                             *)

\* The callback of a call that ends in a response or an error code is run once,
\* whichever thread gets there first; that of a call whose write throws is not
\* run: the exception leaves CallMethod where it calls the dispatcher, before
\* there is a continuation (PbRpcClient.cc:202,209).  A call is in at most one
\* frame of one stack (TypeOK).
CallbackOnce ==
    /\ TypeOK
    /\ \A c \in Call : ran[c] =
        IF ~Blocking(c) /\ status[c] = "done" /\ ended[c] # "LENGTH_EXCEPTION"
          THEN 1 ELSE 0

\* A blocking call made by a callback on the IO thread that would have to read
\* its response never gets it, also if the server answers at once: it returns
\* after the timeout, with a response parsed from nothing.
SelfWaitTimesOut ==
    \A c \in Call : Top(IoOf(c), "wait", c) => ended[c] \in {"none", "TIMEOUT"}

\* Threads wait for each other: each is writing on the IO thread of another, or
\* waits for a call that only a response could end before the timer thread,
\* one of them, is free.
Stalled ==
    \E S \in (SUBSET Thread) \ {{}} : \A t \in S : \E c \in Call :
        \/ Top(t, "write", c) /\ ~CanWrite(t, c) /\ IoOf(c) \in S
        \/ Top(t, "wait", c) /\ status[c] = "pending" /\ Timer \in S

\* Callbacks make no blocking call, and call only the client they are a
\* callback of.
Careful ==
    \A c \in Call : program.parent[c] # none =>
        ~Blocking(c) /\ IoOf(c) = IoOf(program.parent[c])

\* Under these two rules the threads never stall, although callbacks run on the
\* timer thread and inside each other.
CarefulNeverStalls == Careful => ~Stalled

\* Without them, too, every call ends, unless threads stall for good: no timer
\* helps a thread that waits for its write.
EveryCallEndsOrStalls ==
    \/ <>[]Stalled
    \/ \A c \in Call : status[c] # "new" ~> ended[c] # "none"
=============================================================================
