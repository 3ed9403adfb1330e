------------------------------ MODULE RpcCalls ------------------------------
(***************************************************************************)
(* What the RPC client promises for every call, whatever the interleaving  *)
(* of the calling threads, the IO threads, the timer thread and the        *)
(* server: a call that is opened ends in at most one way, it is answered   *)
(* only after the server executed it, the server executes it at most once, *)
(* and a call the client refused or failed to write is never executed.     *)
(*                                                                         *)
(* ClientDispatcher implements this specification (Refinement there).      *)
(***************************************************************************)
EXTENDS Naturals

CONSTANTS Call         \* the calls of the run

VARIABLES status,      \* status[c]: how far the caller knows call c to be
          executed     \* executed[c]: how often the server has run the method

vars == <<status, executed>>

Endings == {"answered", "refused", "expired", "failed"}
Status  == {"idle", "open"} \cup Endings

TypeOK == /\ status \in [Call -> Status]
          /\ executed \in [Call -> Nat]

Init == /\ status = [c \in Call |-> "idle"]
        /\ executed = [c \in Call |-> 0]

End(c, s) == /\ status[c] = "open"
             /\ status' = [status EXCEPT ![c] = s]
             /\ UNCHANGED executed

\* The application makes the call.
Open(c) == /\ status[c] = "idle"
           /\ status' = [status EXCEPT ![c] = "open"]
           /\ UNCHANGED executed

\* The server runs the method, for the first time: also for a call that has
\* expired meanwhile, never for one that was refused or failed to be written.
Execute(c) == /\ status[c] \in {"open", "expired"}
              /\ executed[c] = 0
              /\ executed' = [executed EXCEPT ![c] = 1]
              /\ UNCHANGED status

\* The caller gets the server's response.
Answer(c) == executed[c] = 1 /\ End(c, "answered")

\* The caller gets PENDDING_LIMIT or INVALID_REQUEST.
Refuse(c) == executed[c] = 0 /\ End(c, "refused")

\* The caller gets TIMEOUT.
Expire(c) == End(c, "expired")

\* The caller gets the exception thrown while the request was written.
Fail(c) == executed[c] = 0 /\ End(c, "failed")

Finish(c) == Answer(c) \/ Refuse(c) \/ Expire(c) \/ Fail(c)

Next == \E c \in Call : Open(c) \/ Execute(c) \/ Finish(c)

Spec == Init /\ [][Next]_vars

\* Every open call ends.
FairSpec == Spec /\ \A c \in Call : WF_vars(Finish(c))
=============================================================================
