--------------------------- MODULE MessageChannel ---------------------------
(***************************************************************************)
(* What framing promises over a byte stream: the messages written on a     *)
(* connection come out of it whole, in order, none twice and none lost in  *)
(* between.  (The connection may break: a suffix may never come out.)      *)
(***************************************************************************)
EXTENDS Naturals, Sequences

CONSTANTS Message    \* what can be written

VARIABLES sent,      \* the messages written so far, in order
          received   \* the messages that have come out, in order

vars == <<sent, received>>

Init == sent = <<>> /\ received = <<>>

Send(m) == sent' = Append(sent, m) /\ UNCHANGED received

Receive == /\ Len(received) < Len(sent)
           /\ received' = Append(received, sent[Len(received) + 1])
           /\ UNCHANGED sent

Next == Receive \/ \E m \in Message : Send(m)

Spec == Init /\ [][Next]_vars
=============================================================================
