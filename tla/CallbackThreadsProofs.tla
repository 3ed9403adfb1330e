------------------------ MODULE CallbackThreadsProofs ------------------------
(***************************************************************************)
(* Proofs about CallbackThreads, for any programs, any number of threads   *)
(* of each kind and any calls.                                             *)
(***************************************************************************)
EXTENDS CallbackThreads, SequenceTheorems, TLAPS

-----------------------------------------------------------------------------
(* The inductive invariant.                                                *)

\* A call is in at most one frame of one stack.
UniqueInv ==
    \A t, u \in Thread : \A i \in 1 .. Len(stack[t]), j \in 1 .. Len(stack[u]) :
        stack[t][i].call = stack[u][j].call => t = u /\ i = j

\* The frame a call is in tells how far the call is.
Stage(f) ==
    \/ f.is = "write" /\ status[f.call] = "writing"
    \/ f.is = "arm" /\ status[f.call] \in {"sent", "fulfilled"}
    \/ f.is = "wait" /\ status[f.call] \in {"pending", "done"} /\ Blocking(f.call)
    \/ f.is = "callback" /\ status[f.call] = "done" /\ ~Blocking(f.call)

\* An IO thread that makes a call of its own client has not read its response.
Unread(t, f) ==
    f.is # "callback" /\ t = IoOf(f.call) => ended[f.call] \in {"none", "TIMEOUT"}

\* The rules of use, of a frame: only an application's thread makes a blocking
\* call, and an IO thread has the calls of its own client only.
Obeys(t, f) ==
    /\ f.is # "callback" /\ Blocking(f.call) => t \in App
    /\ t \in IO => IoOf(f.call) = t

FrameOK(t, f) == Stage(f) /\ Unread(t, f) /\ (Careful => Obeys(t, f))

FrameInv ==
    \A t \in Thread : \A i \in 1 .. Len(stack[t]) : FrameOK(t, stack[t][i])

\* What its future became ready with, by how far the call is.
EndedInv ==
    \A c \in Call :
        /\ status[c] \in {"new", "writing", "sent", "pending"} => ended[c] = "none"
        /\ status[c] = "fulfilled" => ended[c] = "RESPONSE"

\* TypeOK but for its last conjunct, which UniqueInv implies.
Types ==
    /\ program \in Program
    /\ program \in Programs
    /\ stack \in [Thread -> Seq(Frame)]
    /\ status \in [Call -> {"new", "writing", "sent", "fulfilled", "pending", "done"}]
    /\ ended \in [Call -> {"none", "RESPONSE", "TIMEOUT", "PENDDING_LIMIT",
                           "LENGTH_EXCEPTION"}]
    /\ ran \in [Call -> Nat]

\* CallbackOnce's second conjunct.
RanInv ==
    \A c \in Call : ran[c] =
        IF ~Blocking(c) /\ status[c] = "done" /\ ended[c] # "LENGTH_EXCEPTION"
          THEN 1 ELSE 0

Inv == Types /\ UniqueInv /\ FrameInv /\ EndedInv /\ RanInv

-----------------------------------------------------------------------------
(* What a step does to the stacks.                                         *)

\* Frame k of thread t is left or taken: the frames of stack' are the other
\* frames of stack, each in its place, and a frame of F in place k of t.
Moved(t, k, F) ==
    /\ stack' \in [Thread -> Seq(Frame)]
    /\ \A u \in Thread : \A i \in 1 .. Len(stack'[u]) :
         \/ /\ i \in 1 .. Len(stack[u]) /\ stack'[u][i] = stack[u][i]
            /\ ~(u = t /\ i = k)
         \/ u = t /\ i = k /\ stack'[u][i] \in F

\* t takes a frame on top of its stack.
LEMMA OverMoves ==
    ASSUME Types, NEW t \in Thread, NEW f \in Frame, Over(t, <<f>>)
    PROVE  Moved(t, Len(stack[t]) + 1, {f})
<1> DEFINE s == stack[t]
<1>1. s \in Seq(Frame) /\ <<f>> \in Seq(Frame) /\ Len(<<f>>) = 1 /\ <<f>>[1] = f
  BY DEF Types
<1>2. s \o <<f>> \in Seq(Frame)
      /\ Len(s \o <<f>>) = Len(s) + 1
      /\ \A i \in 1 .. Len(s) + 1 :
           (s \o <<f>>)[i] = IF i <= Len(s) THEN s[i] ELSE <<f>>[i - Len(s)]
  <2> HIDE DEF s
  <2> QED  BY <1>1, ConcatProperties
<1>3. Len(s) \in Nat
  <2> HIDE DEF s
  <2> QED  BY <1>1, LenProperties
<1>4. stack' = [stack EXCEPT ![t] = s \o <<f>>]  BY DEF Over
<1>5. stack' \in [Thread -> Seq(Frame)]  BY <1>2, <1>4 DEF Types
<1>6. ASSUME NEW u \in Thread, NEW i \in 1 .. Len(stack'[u])
      PROVE  \/ /\ i \in 1 .. Len(stack[u]) /\ stack'[u][i] = stack[u][i]
                /\ ~(u = t /\ i = Len(stack[t]) + 1)
             \/ u = t /\ i = Len(stack[t]) + 1 /\ stack'[u][i] \in {f}
  <2>1. CASE u # t
    BY <1>4, <2>1 DEF Types
  <2>2. CASE u = t
    <3>1. stack'[u] = s \o <<f>>  BY <1>4, <2>2 DEF Types
    <3>2. i \in 1 .. Len(s) + 1  BY <1>2, <3>1
    <3>3. stack'[u][i] = IF i <= Len(s) THEN s[i] ELSE <<f>>[i - Len(s)]
      BY <1>2, <3>1, <3>2
    <3>4. CASE i <= Len(s)
      <4>1. i \in 1 .. Len(s) /\ i # Len(s) + 1 /\ stack'[u][i] = s[i]
        <5> HIDE DEF s
        <5> QED  BY <1>3, <3>2, <3>3, <3>4
      <4> QED  BY <2>2, <4>1
    <3>5. CASE ~(i <= Len(s))
      <4>1. i = Len(s) + 1 /\ stack'[u][i] = f
        <5> HIDE DEF s
        <5>1. i = Len(s) + 1 /\ i - Len(s) = 1  BY <1>3, <3>2, <3>5
        <5> QED  BY <1>1, <3>3, <3>5, <5>1
      <4> QED  BY <2>2, <4>1
    <3> QED  BY <3>4, <3>5
  <2> QED  BY <2>1, <2>2
<1> QED  BY <1>5, <1>6 DEF Moved

\* All but the last element of a sequence.
LEMMA FrontProperties ==
    ASSUME NEW S, NEW s \in Seq(S), s # <<>>
    PROVE  /\ Len(s) \in Nat \ {0}
           /\ Front(s) \in Seq(S)
           /\ Len(Front(s)) = Len(s) - 1
           /\ \A i \in 1 .. Len(s) - 1 : Front(s)[i] = s[i]
<1>1. Len(s) \in Nat \ {0}  BY EmptySeq
<1>2. \A i \in 1 .. Len(s) - 1 : s[i] \in S  BY <1>1, ElementOfSeq
<1>3. 1 \in Int /\ Len(s) - 1 \in Int  BY <1>1
<1> DEFINE r == SubSeq(s, 1, Len(s) - 1)
<1>4. /\ r \in Seq(S)
      /\ Len(r) = IF 1 <= Len(s) - 1 THEN (Len(s) - 1) - 1 + 1 ELSE 0
      /\ \A i \in 1 .. (Len(s) - 1) - 1 + 1 : r[i] = s[1 + i - 1]
  BY <1>2, <1>3, SubSeqProperties
<1>5. Len(r) = Len(s) - 1 /\ \A i \in 1 .. Len(s) - 1 : r[i] = s[i]
  <2>1. Len(s) - 1 = (Len(s) - 1) - 1 + 1  BY <1>1
  <2>2. \A i \in 1 .. Len(s) - 1 : 1 + i - 1 = i  BY <1>1
  <2> HIDE DEF r
  <2>3. Len(r) = Len(s) - 1
    <3> DEFINE n == Len(s)
    <3>1. n \in Nat \ {0} /\ Len(r) = IF 1 <= n - 1 THEN (n - 1) - 1 + 1 ELSE 0
      BY <1>1, <1>4
    <3> HIDE DEF n
    <3>2. Len(r) = n - 1  BY <3>1
    <3> QED  BY <3>2 DEF n
  <2>4. \A i \in 1 .. Len(s) - 1 : r[i] = s[1 + i - 1]  BY <1>4, <2>1
  <2> QED  BY <2>2, <2>3, <2>4
<1>6. Front(s) = r  BY DEF Front
<1> QED  BY <1>1, <1>4, <1>5, <1>6

\* t leaves the frame on top of its stack.
LEMMA LeaveMoves ==
    ASSUME Types, NEW t \in Thread, stack[t] # <<>>, Instead(t, <<>>)
    PROVE  Moved(t, Len(stack[t]), {})
<1> DEFINE s == stack[t]
<1> DEFINE r == Front(s)
<1>1. s \in Seq(Frame)  BY DEF Types
<1>2. Len(s) \in Nat \ {0} /\ r \in Seq(Frame) /\ Len(r) = Len(s) - 1
      /\ \A i \in 1 .. Len(s) - 1 : r[i] = s[i]
  <2>1. s # <<>>  OBVIOUS
  <2> HIDE DEF s
  <2> QED  BY <1>1, <2>1, FrontProperties
<1>3. r \o <<>> = r
  <2> HIDE DEF r
  <2> QED  BY <1>2, ConcatEmptySeq
<1>4. stack' = [stack EXCEPT ![t] = r]  BY <1>3 DEF Instead
<1>5. stack' \in [Thread -> Seq(Frame)]  BY <1>2, <1>4 DEF Types
<1>6. ASSUME NEW u \in Thread, NEW i \in 1 .. Len(stack'[u])
      PROVE  /\ i \in 1 .. Len(stack[u]) /\ stack'[u][i] = stack[u][i]
             /\ ~(u = t /\ i = Len(stack[t]))
  <2>1. CASE u # t
    BY <1>4, <2>1 DEF Types
  <2>2. CASE u = t
    <3>1. stack'[u] = r  BY <1>4, <2>2 DEF Types
    <3>2. i \in 1 .. Len(s) - 1 /\ stack'[u][i] = s[i]
      <4> HIDE DEF s, r
      <4> QED  BY <1>2, <3>1
    <3>3. i \in 1 .. Len(s) /\ i # Len(s)
      <4> HIDE DEF s
      <4> QED  BY <1>2, <3>2
    <3> QED  BY <2>2, <3>2, <3>3
  <2> QED  BY <2>1, <2>2
<1> QED  BY <1>5, <1>6 DEF Moved

\* t goes on from the frame on top of its stack to another one.
LEMMA InsteadMoves ==
    ASSUME Types, NEW t \in Thread, NEW f \in Frame, stack[t] # <<>>,
           Instead(t, <<f>>)
    PROVE  Moved(t, Len(stack[t]), {f})
<1> DEFINE s == stack[t]
<1>1. s \in Seq(Frame) /\ <<f>> \in Seq(Frame) /\ Len(<<f>>) = 1 /\ <<f>>[1] = f
  BY DEF Types
<1> DEFINE r == Front(s)
<1>2. Len(s) \in Nat \ {0} /\ r \in Seq(Frame) /\ Len(r) = Len(s) - 1
      /\ \A i \in 1 .. Len(s) - 1 : r[i] = s[i]
  <2>1. s # <<>>  OBVIOUS
  <2> HIDE DEF s
  <2> QED  BY <1>1, <2>1, FrontProperties
<1>3. r \o <<f>> \in Seq(Frame) /\ Len(r \o <<f>>) = Len(s)
      /\ \A i \in 1 .. Len(s) :
           (r \o <<f>>)[i] = IF i <= Len(r) THEN r[i] ELSE <<f>>[i - Len(r)]
  <2>1. Len(s) = Len(r) + 1
    <3> HIDE DEF s, r
    <3> QED  BY <1>2
  <2> HIDE DEF s, r
  <2> QED  BY <1>1, <1>2, <2>1, ConcatProperties
<1>4. stack' = [stack EXCEPT ![t] = r \o <<f>>]  BY DEF Instead
<1>5. stack' \in [Thread -> Seq(Frame)]  BY <1>3, <1>4 DEF Types
<1>6. ASSUME NEW u \in Thread, NEW i \in 1 .. Len(stack'[u])
      PROVE  \/ /\ i \in 1 .. Len(stack[u]) /\ stack'[u][i] = stack[u][i]
                /\ ~(u = t /\ i = Len(stack[t]))
             \/ u = t /\ i = Len(stack[t]) /\ stack'[u][i] \in {f}
  <2>1. CASE u # t
    BY <1>4, <2>1 DEF Types
  <2>2. CASE u = t
    <3>1. stack'[u] = r \o <<f>>  BY <1>4, <2>2 DEF Types
    <3>2. i \in 1 .. Len(s)
          /\ stack'[u][i] = IF i <= Len(r) THEN r[i] ELSE <<f>>[i - Len(r)]
      BY <1>3, <3>1
    <3>3. CASE i <= Len(r)
      <4>1. i \in 1 .. Len(s) - 1 /\ i # Len(s) /\ stack'[u][i] = s[i]
        <5> HIDE DEF s, r
        <5>1. i \in 1 .. Len(s) - 1 /\ i # Len(s)  BY <1>2, <3>2, <3>3
        <5> QED  BY <1>2, <3>2, <3>3, <5>1
      <4> QED  BY <2>2, <3>2, <4>1
    <3>4. CASE ~(i <= Len(r))
      <4>1. i = Len(s) /\ stack'[u][i] = f
        <5> HIDE DEF s, r
        <5>1. i = Len(s) /\ i - Len(r) = 1  BY <1>2, <3>2, <3>4
        <5> QED  BY <1>1, <3>2, <3>4, <5>1
      <4> QED  BY <2>2, <4>1
    <3> QED  BY <3>3, <3>4
  <2> QED  BY <2>1, <2>2
<1> QED  BY <1>5, <1>6 DEF Moved

-----------------------------------------------------------------------------
(* Frames and calls.                                                       *)

\* A step that changes call c, and no other.
Touches(c) ==
    /\ program' = program
    /\ \A d \in Call : d # c => status'[d] = status[d] /\ ended'[d] = ended[d]

\* The frame of another call stays as it should be.
LEMMA OtherFrames ==
    ASSUME Types, NEW c \in Call, Touches(c), NEW t \in Thread, NEW f \in Frame,
           FrameOK(t, f), f.call # c
    PROVE  FrameOK(t, f)'
<1>1. f.call \in Call  BY DEF Frame
<1> QED  BY <1>1 DEF Touches, FrameOK, Stage, Unread, Careful, Obeys, Blocking, IoOf

\* A frame of call c that takes the place of the only frame of c, if there is
\* one, keeps the frames as they should be.
LEMMA MovedFrames ==
    ASSUME Types, UniqueInv, FrameInv,
           NEW c \in Call, NEW t \in Thread, NEW k \in Nat, NEW F,
           Moved(t, k, F), Touches(c),
           \A u \in Thread : \A i \in 1 .. Len(stack[u]) :
               stack[u][i].call = c => u = t /\ i = k,
           \A f \in F : f.call = c /\ FrameOK(t, f)'
    PROVE  UniqueInv' /\ FrameInv'
<1>1. ASSUME NEW u \in Thread, NEW i \in 1 .. Len(stack'[u])
      PROVE  FrameOK(u, stack[u][i])'
  <2>1. CASE i \in 1 .. Len(stack[u]) /\ stack'[u][i] = stack[u][i]
             /\ ~(u = t /\ i = k)
    <3>1. PICK f \in Frame : f = stack[u][i]
      BY <2>1, ElementOfSeq DEF Types
    <3>2. FrameOK(u, f) /\ f.call # c  BY <2>1, <3>1 DEF FrameInv
    <3>3. FrameOK(u, f)'  BY <3>2, OtherFrames
    <3>4. stack'[u][i] = f  BY <2>1, <3>1
    <3> QED  BY <3>3, <3>4
  <2>2. CASE u = t /\ i = k /\ stack'[u][i] \in F
    <3>1. PICK f \in F : f = stack'[u][i]  BY <2>2
    <3>2. FrameOK(t, f)'  OBVIOUS
    <3> QED  BY <2>2, <3>1, <3>2
  <2> QED  BY <2>1, <2>2 DEF Moved
<1>2. ASSUME NEW u \in Thread, NEW v \in Thread,
             NEW i \in 1 .. Len(stack'[u]), NEW j \in 1 .. Len(stack'[v]),
             stack'[u][i].call = stack'[v][j].call
      PROVE  u = v /\ i = j
  <2>1. \/ i \in 1 .. Len(stack[u]) /\ stack'[u][i] = stack[u][i]
           /\ ~(u = t /\ i = k)
        \/ u = t /\ i = k /\ stack'[u][i].call = c
    BY DEF Moved
  <2>2. \/ j \in 1 .. Len(stack[v]) /\ stack'[v][j] = stack[v][j]
           /\ ~(v = t /\ j = k)
        \/ v = t /\ j = k /\ stack'[v][j].call = c
    BY DEF Moved
  <2>3. CASE u = t /\ i = k
    <3>1. stack'[v][j].call = c  BY <1>2, <2>1, <2>3
    <3>2. v = t /\ j = k  BY <2>2, <3>1
    <3> QED  BY <2>3, <3>2
  <2>4. CASE v = t /\ j = k
    <3>1. stack'[u][i].call = c  BY <1>2, <2>2, <2>4
    <3>2. u = t /\ i = k  BY <2>1, <3>1
    <3> QED  BY <2>4, <3>2
  <2>5. CASE ~(u = t /\ i = k) /\ ~(v = t /\ j = k)
    <3>1. stack[u][i].call = stack[v][j].call  BY <1>2, <2>1, <2>2, <2>5
    <3> QED  BY <2>1, <2>2, <2>5, <3>1 DEF UniqueInv
  <2> QED  BY <2>3, <2>4, <2>5
<1>3. UniqueInv'  BY <1>2 DEF UniqueInv
<1>4. FrameInv'  BY <1>1 DEF FrameInv
<1> QED  BY <1>3, <1>4

\* So does a step of call c that leaves the stacks alone, when the frame of c
\* stays as it should be.
LEMMA KeptFrames ==
    ASSUME Types, UniqueInv, FrameInv, NEW c \in Call, stack' = stack, Touches(c),
           \A t \in Thread, f \in Frame :
               f.call = c /\ FrameOK(t, f)
               /\ (\E i \in 1 .. Len(stack[t]) : stack[t][i] = f) => FrameOK(t, f)'
    PROVE  UniqueInv' /\ FrameInv'
<1>1. ASSUME NEW u \in Thread, NEW i \in 1 .. Len(stack[u])
      PROVE  FrameOK(u, stack[u][i])'
  <2>1. PICK f \in Frame : f = stack[u][i]
    BY ElementOfSeq DEF Types
  <2>2. FrameOK(u, f)  BY <2>1 DEF FrameInv
  <2>3. FrameOK(u, f)'  BY <2>1, <2>2, OtherFrames
  <2> QED  BY <2>1, <2>3
<1>2. UniqueInv'  BY DEF UniqueInv
<1>3. FrameInv'  BY <1>1 DEF FrameInv
<1> QED  BY <1>2, <1>3

\* The frame on top of the stack of t is its last one, and the only one of its
\* call.
LEMMA TopFrame ==
    ASSUME Types, UniqueInv, FrameInv, NEW t \in Thread, NEW c \in Call, NEW is,
           Top(t, is, c)
    PROVE  /\ Len(stack[t]) \in Nat \ {0}
           /\ stack[t] # <<>>
           /\ [is |-> is, call |-> c] \in Frame
           /\ FrameOK(t, [is |-> is, call |-> c])
           /\ \A u \in Thread : \A i \in 1 .. Len(stack[u]) :
                stack[u][i].call = c => u = t /\ i = Len(stack[t])
<1>1. stack[t] \in Seq(Frame) /\ stack[t] # <<>>  BY DEF Types, Top
<1>2. Len(stack[t]) \in Nat \ {0}  BY <1>1, EmptySeq
<1>3. Len(stack[t]) \in 1 .. Len(stack[t])  BY <1>2
<1>4. stack[t][Len(stack[t])] = [is |-> is, call |-> c]  BY DEF Top, Last
<1>5. [is |-> is, call |-> c] \in Frame  BY <1>1, <1>3, <1>4, ElementOfSeq
<1>6. FrameOK(t, [is |-> is, call |-> c])  BY <1>3, <1>4 DEF FrameInv
<1>7. stack[t][Len(stack[t])].call = c  BY <1>4
<1>8. \A u \in Thread : \A i \in 1 .. Len(stack[u]) :
        stack[u][i].call = c => u = t /\ i = Len(stack[t])
  BY <1>3, <1>7 DEF UniqueInv
<1> QED  BY <1>1, <1>2, <1>5, <1>6, <1>8

\* A call that has not begun is in no frame.
LEMMA NewFrameless ==
    ASSUME Types, FrameInv, NEW c \in Call, status[c] = "new",
           NEW t \in Thread, NEW i \in 1 .. Len(stack[t])
    PROVE  stack[t][i].call # c
BY DEF FrameInv, FrameOK, Stage

\* A call that waits for its timeout is in a frame only if somebody waits for it.
LEMMA PendingFrames ==
    ASSUME Types, FrameInv, NEW c \in Call, status[c] = "pending",
           NEW t \in Thread, NEW i \in 1 .. Len(stack[t]), stack[t][i].call = c
    PROVE  stack[t][i].is = "wait" /\ Blocking(c)
BY DEF FrameInv, FrameOK, Stage

\* Who makes a call obeys the rules of use, if the program does.
LEMMA MakerObeys ==
    ASSUME Inv, NEW t \in Thread, NEW c \in Call,
           MakesNow(t, c), Careful
    PROVE  (Blocking(c) => t \in App) /\ (t \in IO => IoOf(c) = t)
<1>1. CASE program.parent[c] = none
  BY <1>1, ConstantsAssumption DEF MakesNow, ConstantsAssumption, Careful
<1>2. CASE program.parent[c] # none
  <2>1. program.parent[c] \in Call /\ Top(t, "callback", program.parent[c])
    BY <1>2 DEF MakesNow, Inv, Types, Program
  <2>2. FrameOK(t, [is |-> "callback", call |-> program.parent[c]])
    BY <2>1, TopFrame DEF Inv
  <2>3. t \in IO => IoOf(program.parent[c]) = t  BY <2>2 DEF FrameOK, Obeys
  <2> QED  BY <1>2, <2>3 DEF Careful
<1> QED  BY <1>1, <1>2

\* A future that becomes ready puts no frame on the stack for a blocking call,
\* and its callback for another one.
LEMMA ReadyMoves ==
    ASSUME Types, NEW t \in Thread, NEW c \in Call, Over(t, Returned(c))
    PROVE  /\ Blocking(c) => stack' = stack
           /\ ~Blocking(c) =>
                Moved(t, Len(stack[t]) + 1, {[is |-> "callback", call |-> c]})
<1>1. ASSUME Blocking(c)  PROVE stack' = stack
  <2>1. stack[t] \in Seq(Frame)  BY DEF Types
  <2>2. stack[t] \o <<>> = stack[t]  BY <2>1, ConcatEmptySeq
  <2>3. stack' = [stack EXCEPT ![t] = stack[t]]  BY <1>1, <2>2 DEF Over, Returned
  <2> QED  BY <2>3 DEF Types
<1>2. ASSUME ~Blocking(c)
      PROVE  Moved(t, Len(stack[t]) + 1, {[is |-> "callback", call |-> c]})
  <2>1. [is |-> "callback", call |-> c] \in Frame  BY DEF Frame
  <2>2. Over(t, <<[is |-> "callback", call |-> c]>>)  BY <1>2 DEF Returned
  <2> QED  BY <2>1, <2>2, OverMoves
<1> QED  BY <1>1, <1>2

\* The length of a stack, and the place above it.
LEMMA Place ==
    ASSUME Types, NEW t \in Thread
    PROVE  Len(stack[t]) \in Nat /\ Len(stack[t]) + 1 \in Nat
<1>1. stack[t] \in Seq(Frame)  BY DEF Types
<1>2. Len(stack[t]) \in Nat  BY <1>1, LenProperties
<1> QED  BY <1>2

\* A call that ends in a response or an error code has its callback run, for the
\* first time.
LEMMA RanStep ==
    ASSUME Inv, NEW c \in Call, Touches(c), Runs(c),
           status[c] # "done", status'[c] = "done", ended'[c] # "LENGTH_EXCEPTION"
    PROVE  ran' \in [Call -> Nat] /\ RanInv'
<1>1. ran' = IF Blocking(c) THEN ran ELSE [ran EXCEPT ![c] = @ + 1]  BY DEF Runs
<1>2. ran' \in [Call -> Nat]  BY <1>1 DEF Inv, Types
<1>3. ran[c] = 0  BY DEF Inv, RanInv
<1>4. \A d \in Call : Blocking(d)' = Blocking(d)  BY DEF Blocking, Touches
<1>5. ASSUME NEW d \in Call, d # c
      PROVE  ran'[d] = ran[d] /\ status'[d] = status[d] /\ ended'[d] = ended[d]
  BY <1>1, <1>5 DEF Touches, Inv, Types
<1>6. ran'[c] = IF Blocking(c) THEN 0 ELSE 1  BY <1>1, <1>3 DEF Inv, Types
<1>7. RanInv'  BY <1>4, <1>5, <1>6 DEF Inv, RanInv
<1> QED  BY <1>2, <1>7

\* A call that does not end, or ends in an exception, has it not run.
LEMMA UnranStep ==
    ASSUME Inv, NEW c \in Call, Touches(c), ran' = ran, status[c] # "done",
           status'[c] = "done" => ended'[c] = "LENGTH_EXCEPTION"
    PROVE  RanInv'
<1>1. \A d \in Call : Blocking(d)' = Blocking(d)  BY DEF Blocking, Touches
<1>2. ran[c] = 0  BY DEF Inv, RanInv
<1> QED  BY <1>1, <1>2 DEF Touches, Inv, RanInv

-----------------------------------------------------------------------------
(* Preservation, one lemma per action.                                     *)

\* The refusal of a full table readies the future of a call that has no frame.
LEMMA RefuseStep ==
    ASSUME Inv, NEW t \in Thread, NEW c \in Call, Refuse(t, c)
    PROVE  Inv'
<1>1. status[c] = "new" /\ program' = program
      /\ status' = [status EXCEPT ![c] = "done"]
      /\ ended' = [ended EXCEPT ![c] = "PENDDING_LIMIT"]
      /\ Over(t, Returned(c)) /\ Runs(c)
  BY DEF Refuse, MakesNow, Becomes, Ends
<1>2. status'[c] = "done" /\ ended'[c] = "PENDDING_LIMIT"
  BY <1>1 DEF Inv, Types
<1>3. Touches(c)  BY <1>1 DEF Touches, Inv, Types
<1>4. \A u \in Thread : \A i \in 1 .. Len(stack[u]) : stack[u][i].call # c
  BY <1>1, NewFrameless DEF Inv
<1>5. (UniqueInv /\ FrameInv)' /\ stack' \in [Thread -> Seq(Frame)]
  <2>1. CASE Blocking(c)
    <3>1. stack' = stack  BY <1>1, <2>1, ReadyMoves DEF Inv
    <3>2. (UniqueInv /\ FrameInv)'  BY <1>3, <1>4, <3>1, KeptFrames DEF Inv
    <3> QED  BY <3>1, <3>2 DEF Inv, Types
  <2>2. CASE ~Blocking(c)
    <3> DEFINE f == [is |-> "callback", call |-> c]
               k == Len(stack[t]) + 1
    <3>1. Moved(t, k, {f})  BY <1>1, <2>2, ReadyMoves DEF Inv
    <3>2. Stage(f)'  BY <1>1, <1>2, <2>2 DEF Stage, Blocking
    <3>3. Unread(t, f)'  BY DEF Unread
    <3>4. (Careful => Obeys(t, f))'
      <4>1. Careful => (t \in IO => IoOf(c) = t)  BY MakerObeys DEF Refuse
      <4> QED  BY <1>1, <4>1 DEF Careful, Obeys, Blocking, IoOf
    <3>5. FrameOK(t, f)'  BY <3>2, <3>3, <3>4 DEF FrameOK
    <3>6. k \in Nat  BY Place DEF Inv
    <3>7. \A g \in {f} : g.call = c /\ FrameOK(t, g)'  BY <3>5
    <3>8. (UniqueInv /\ FrameInv)'
      <4> HIDE DEF f, k
      <4> QED  BY <1>3, <1>4, <3>1, <3>6, <3>7, MovedFrames DEF Inv
    <3> QED  BY <3>1, <3>8 DEF Moved
  <2> QED  BY <2>1, <2>2
<1>6. EndedInv'  BY <1>2, <1>3 DEF EndedInv, Touches, Inv
<1>7. ran' \in [Call -> Nat] /\ RanInv'  BY <1>1, <1>2, <1>3, RanStep
<1>8. Types'  BY <1>1, <1>5, <1>7 DEF Inv, Types
<1> QED  BY <1>5, <1>6, <1>7, <1>8 DEF Inv

\* The exception takes the callback that made the call with it.
LEMMA ThrowStep ==
    ASSUME Inv, NEW t \in Thread, NEW c \in Call, Throw(t, c)
    PROVE  Inv'
<1>1. status[c] = "new" /\ program' = program /\ ran' = ran
      /\ status' = [status EXCEPT ![c] = "done"]
      /\ ended' = [ended EXCEPT ![c] = "LENGTH_EXCEPTION"]
  BY DEF Throw, MakesNow, Becomes, Ends
<1>2. status'[c] = "done" /\ ended'[c] = "LENGTH_EXCEPTION"
  BY <1>1 DEF Inv, Types
<1>3. Touches(c)  BY <1>1 DEF Touches, Inv, Types
<1>4. \A u \in Thread : \A i \in 1 .. Len(stack[u]) : stack[u][i].call # c
  BY <1>1, NewFrameless DEF Inv
<1>5. (UniqueInv /\ FrameInv)' /\ stack' \in [Thread -> Seq(Frame)]
  <2>1. CASE Free(t)
    <3>1. stack' = stack  BY <2>1 DEF Throw
    <3>2. (UniqueInv /\ FrameInv)'  BY <1>3, <1>4, <3>1, KeptFrames DEF Inv
    <3> QED  BY <3>1, <3>2 DEF Inv, Types
  <2>2. CASE ~Free(t)
    <3>1. stack[t] # <<>> /\ Instead(t, <<>>)  BY <2>2 DEF Throw, Free
    <3>2. Moved(t, Len(stack[t]), {})  BY <3>1, LeaveMoves DEF Inv
    <3>3. Len(stack[t]) \in Nat  BY Place DEF Inv
    <3>4. (UniqueInv /\ FrameInv)'
      BY <1>3, <1>4, <3>2, <3>3, MovedFrames DEF Inv
    <3> QED  BY <3>2, <3>4 DEF Moved
  <2> QED  BY <2>1, <2>2
<1>6. EndedInv'  BY <1>2, <1>3 DEF EndedInv, Touches, Inv
<1>7. RanInv'  BY <1>1, <1>2, <1>3, UnranStep
<1>8. Types'  BY <1>1, <1>5 DEF Inv, Types
<1> QED  BY <1>5, <1>6, <1>7, <1>8 DEF Inv

\* A thread that makes a call takes a frame for it.
LEMMA MakeStep ==
    ASSUME Inv, NEW t \in Thread, NEW c \in Call, Make(t, c)
    PROVE  Inv'
<1> DEFINE f == [is |-> "write", call |-> c]
           k == Len(stack[t]) + 1
<1>1. status[c] = "new" /\ program' = program /\ ran' = ran /\ ended' = ended
      /\ status' = [status EXCEPT ![c] = "writing"]
      /\ Over(t, <<f>>)
  BY DEF Make, MakesNow, Becomes
<1>2. status'[c] = "writing" /\ ended'[c] = "none"
  BY <1>1 DEF Inv, Types, EndedInv
<1>3. Touches(c)  BY <1>1 DEF Touches, Inv, Types
<1>4. \A u \in Thread : \A i \in 1 .. Len(stack[u]) : stack[u][i].call # c
  BY <1>1, NewFrameless DEF Inv
<1>5. Moved(t, k, {f})
  <2>1. f \in Frame  BY DEF Frame
  <2> HIDE DEF f
  <2> QED  BY <1>1, <2>1, OverMoves DEF Inv
<1>6. FrameOK(t, f)'
  <2>1. Stage(f)'  BY <1>2 DEF Stage
  <2>2. Unread(t, f)'  BY <1>2 DEF Unread
  <2>3. (Careful => Obeys(t, f))'
    <3>1. Careful => (Blocking(c) => t \in App) /\ (t \in IO => IoOf(c) = t)
      BY MakerObeys DEF Make
    <3> QED  BY <1>1, <3>1 DEF Careful, Obeys, Blocking, IoOf
  <2> QED  BY <2>1, <2>2, <2>3 DEF FrameOK
<1>7. (UniqueInv /\ FrameInv)' /\ stack' \in [Thread -> Seq(Frame)]
  <2>1. k \in Nat  BY Place DEF Inv
  <2>2. \A g \in {f} : g.call = c /\ FrameOK(t, g)'  BY <1>6
  <2> HIDE DEF f, k
  <2>3. (UniqueInv /\ FrameInv)'
    BY <1>3, <1>4, <1>5, <2>1, <2>2, MovedFrames DEF Inv
  <2> QED  BY <1>5, <2>3 DEF Moved
<1>8. EndedInv'  BY <1>2, <1>3 DEF EndedInv, Touches, Inv
<1>9. RanInv'  BY <1>1, <1>2, <1>3, UnranStep
<1>10. Types'  BY <1>1, <1>7 DEF Inv, Types
<1> QED  BY <1>7, <1>8, <1>9, <1>10 DEF Inv

\* It stays in the frame's place when the request is written.
LEMMA WriteStep ==
    ASSUME Inv, NEW t \in Thread, NEW c \in Call, Write(t, c)
    PROVE  Inv'
<1> DEFINE f == [is |-> "arm", call |-> c]
           w == [is |-> "write", call |-> c]
           k == Len(stack[t])
<1>1. Top(t, "write", c) /\ program' = program /\ ran' = ran /\ ended' = ended
      /\ status' = [status EXCEPT ![c] = "sent"]
      /\ Instead(t, <<f>>)
  BY DEF Write, Becomes
<1>2. k \in Nat \ {0} /\ stack[t] # <<>> /\ FrameOK(t, w)
      /\ \A u \in Thread : \A i \in 1 .. Len(stack[u]) :
           stack[u][i].call = c => u = t /\ i = k
  BY <1>1, TopFrame DEF Inv
<1>3. status[c] = "writing"  BY <1>2 DEF FrameOK, Stage
<1>4. status'[c] = "sent" /\ ended'[c] = "none"
  BY <1>1, <1>3 DEF Inv, Types, EndedInv
<1>5. Touches(c)  BY <1>1 DEF Touches, Inv, Types
<1>6. Moved(t, k, {f})
  <2>1. f \in Frame  BY DEF Frame
  <2> HIDE DEF f
  <2> QED  BY <1>1, <1>2, <2>1, InsteadMoves DEF Inv
<1>7. FrameOK(t, f)'
  <2>1. Stage(f)'  BY <1>4 DEF Stage
  <2>2. Unread(t, f)'  BY <1>4 DEF Unread
  <2>3. (Careful => Obeys(t, f))'
    <3>1. Careful => Obeys(t, w)  BY <1>2 DEF FrameOK
    <3> QED  BY <1>1, <3>1 DEF Careful, Obeys, Blocking, IoOf
  <2> QED  BY <2>1, <2>2, <2>3 DEF FrameOK
<1>8. (UniqueInv /\ FrameInv)' /\ stack' \in [Thread -> Seq(Frame)]
  <2>1. \A g \in {f} : g.call = c /\ FrameOK(t, g)'  BY <1>7
  <2> HIDE DEF f, k, w
  <2>2. (UniqueInv /\ FrameInv)'
    BY <1>2, <1>5, <1>6, <2>1, MovedFrames DEF Inv
  <2> QED  BY <1>6, <2>2 DEF Moved
<1>9. EndedInv'  BY <1>4, <1>5 DEF EndedInv, Touches, Inv
<1>10. RanInv'  BY <1>1, <1>3, <1>4, <1>5, UnranStep
<1>11. Types'  BY <1>1, <1>8 DEF Inv, Types
<1> QED  BY <1>8, <1>9, <1>10, <1>11 DEF Inv

\* The response is here: get() returns, or the continuation runs the callback
\* in the frame's place.
LEMMA ArmReadyStep ==
    ASSUME Inv, NEW t \in Thread, NEW c \in Call, Top(t, "arm", c),
           status[c] = "fulfilled", Becomes(c, "done"),
           Instead(t, Returned(c)), Runs(c), UNCHANGED <<program, ended>>
    PROVE  Inv'
<1> DEFINE f == [is |-> "callback", call |-> c]
           a == [is |-> "arm", call |-> c]
           k == Len(stack[t])
<1>1. k \in Nat \ {0} /\ stack[t] # <<>> /\ FrameOK(t, a)
      /\ \A u \in Thread : \A i \in 1 .. Len(stack[u]) :
           stack[u][i].call = c => u = t /\ i = k
  BY TopFrame DEF Inv
<1>2. status' = [status EXCEPT ![c] = "done"]  BY DEF Becomes
<1>3. status'[c] = "done" /\ ended'[c] = "RESPONSE"
  BY <1>2 DEF Inv, Types, EndedInv
<1>4. Touches(c)  BY <1>2 DEF Touches, Inv, Types
<1>5. (UniqueInv /\ FrameInv)' /\ stack' \in [Thread -> Seq(Frame)]
  <2>1. CASE Blocking(c)
    <3>1. Instead(t, <<>>)  BY <2>1 DEF Returned
    <3>2. Moved(t, k, {})
      <4> HIDE DEF k
      <4> QED  BY <1>1, <3>1, LeaveMoves DEF Inv, k
    <3>3. (UniqueInv /\ FrameInv)'
      <4> HIDE DEF k
      <4> QED  BY <1>1, <1>4, <3>2, MovedFrames DEF Inv
    <3> QED  BY <3>2, <3>3 DEF Moved
  <2>2. CASE ~Blocking(c)
    <3>1. Instead(t, <<f>>)  BY <2>2 DEF Returned
    <3>2. Moved(t, k, {f})
      <4>1. f \in Frame  BY DEF Frame
      <4> HIDE DEF f
      <4> QED  BY <1>1, <3>1, <4>1, InsteadMoves DEF Inv
    <3>3. FrameOK(t, f)'
      <4>1. Stage(f)'  BY <1>3, <2>2 DEF Stage, Blocking
      <4>2. Unread(t, f)'  BY DEF Unread
      <4>3. (Careful => Obeys(t, f))'
        <5>1. Careful => Obeys(t, a)  BY <1>1 DEF FrameOK
        <5> QED  BY <5>1 DEF Careful, Obeys, Blocking, IoOf
      <4> QED  BY <4>1, <4>2, <4>3 DEF FrameOK
    <3>4. \A g \in {f} : g.call = c /\ FrameOK(t, g)'  BY <3>3
    <3>5. (UniqueInv /\ FrameInv)'
      <4> HIDE DEF f, a, k
      <4> QED  BY <1>1, <1>4, <3>2, <3>4, MovedFrames DEF Inv
    <3> QED  BY <3>2, <3>5 DEF Moved
  <2> QED  BY <2>1, <2>2
<1>6. EndedInv'  BY <1>3, <1>4 DEF EndedInv, Touches, Inv
<1>7. ran' \in [Call -> Nat] /\ RanInv'  BY <1>3, <1>4, RanStep
<1>8. Types'  BY <1>2, <1>5, <1>7 DEF Inv, Types
<1> QED  BY <1>5, <1>6, <1>7, <1>8 DEF Inv

\* The response is not here: get() waits, or the continuation is left behind.
LEMMA ArmWaitStep ==
    ASSUME Inv, NEW t \in Thread, NEW c \in Call, Top(t, "arm", c),
           status[c] = "sent", Becomes(c, "pending"),
           Instead(t, IF Blocking(c) THEN <<[is |-> "wait", call |-> c]>>
                                     ELSE <<>>),
           UNCHANGED <<program, ended, ran>>
    PROVE  Inv'
<1> DEFINE f == [is |-> "wait", call |-> c]
           a == [is |-> "arm", call |-> c]
           k == Len(stack[t])
<1>1. k \in Nat \ {0} /\ stack[t] # <<>> /\ FrameOK(t, a)
      /\ \A u \in Thread : \A i \in 1 .. Len(stack[u]) :
           stack[u][i].call = c => u = t /\ i = k
  BY TopFrame DEF Inv
<1>2. status' = [status EXCEPT ![c] = "pending"]  BY DEF Becomes
<1>3. status'[c] = "pending" /\ ended'[c] = "none"
  BY <1>2 DEF Inv, Types, EndedInv
<1>4. Touches(c)  BY <1>2 DEF Touches, Inv, Types
<1>5. (UniqueInv /\ FrameInv)' /\ stack' \in [Thread -> Seq(Frame)]
  <2>1. CASE ~Blocking(c)
    <3>1. Instead(t, <<>>)  BY <2>1
    <3>2. Moved(t, k, {})
      <4> HIDE DEF k
      <4> QED  BY <1>1, <3>1, LeaveMoves DEF Inv, k
    <3>3. (UniqueInv /\ FrameInv)'
      <4> HIDE DEF k
      <4> QED  BY <1>1, <1>4, <3>2, MovedFrames DEF Inv
    <3> QED  BY <3>2, <3>3 DEF Moved
  <2>2. CASE Blocking(c)
    <3>1. Instead(t, <<f>>)  BY <2>2
    <3>2. Moved(t, k, {f})
      <4>1. f \in Frame  BY DEF Frame
      <4> HIDE DEF f
      <4> QED  BY <1>1, <3>1, <4>1, InsteadMoves DEF Inv
    <3>3. FrameOK(t, f)'
      <4>1. Stage(f)'  BY <1>3, <2>2 DEF Stage, Blocking
      <4>2. Unread(t, f)'  BY <1>3 DEF Unread
      <4>3. (Careful => Obeys(t, f))'
        <5>1. Careful => Obeys(t, a)  BY <1>1 DEF FrameOK
        <5> QED  BY <5>1 DEF Careful, Obeys, Blocking, IoOf
      <4> QED  BY <4>1, <4>2, <4>3 DEF FrameOK
    <3>4. \A g \in {f} : g.call = c /\ FrameOK(t, g)'  BY <3>3
    <3>5. (UniqueInv /\ FrameInv)'
      <4> HIDE DEF f, a, k
      <4> QED  BY <1>1, <1>4, <3>2, <3>4, MovedFrames DEF Inv
    <3> QED  BY <3>2, <3>5 DEF Moved
  <2> QED  BY <2>1, <2>2
<1>6. EndedInv'  BY <1>3, <1>4 DEF EndedInv, Touches, Inv
<1>7. RanInv'  BY <1>3, <1>4, UnranStep
<1>8. Types'  BY <1>2, <1>5 DEF Inv, Types
<1> QED  BY <1>5, <1>6, <1>7, <1>8 DEF Inv

\* A thread whose call or callback returns goes on below it.
LEMMA LeaveStep ==
    ASSUME Inv, NEW t \in Thread, NEW c \in Call, NEW is, Top(t, is, c),
           Instead(t, <<>>), UNCHANGED <<program, status, ended, ran>>
    PROVE  Inv'
<1>1. Len(stack[t]) \in Nat /\ stack[t] # <<>>
      /\ \A u \in Thread : \A i \in 1 .. Len(stack[u]) :
           stack[u][i].call = c => u = t /\ i = Len(stack[t])
  BY TopFrame DEF Inv
<1>2. Moved(t, Len(stack[t]), {})  BY <1>1, LeaveMoves DEF Inv
<1>3. Touches(c)  BY DEF Touches
<1>4. (UniqueInv /\ FrameInv)'  BY <1>1, <1>2, <1>3, MovedFrames DEF Inv
<1>5. Types'  BY <1>2 DEF Moved, Inv, Types
<1>6. (EndedInv /\ RanInv)'  BY DEF Inv, EndedInv, RanInv, Blocking
<1> QED  BY <1>4, <1>5, <1>6 DEF Inv

\* A future becomes ready on a thread t back in its loop, with the response if t
\* is the IO thread and with the timeout if it is the timer thread.
LEMMA CompletesStep ==
    ASSUME Inv, NEW t \in Thread, NEW c \in Call, NEW e,
           Completes(t, c, e), Free(t),
           \/ e = "RESPONSE" /\ t = IoOf(c)
           \/ e = "TIMEOUT" /\ t = Timer
    PROVE  Inv'
<1>1. status[c] = "pending" /\ program' = program
      /\ status' = [status EXCEPT ![c] = "done"]
      /\ ended' = [ended EXCEPT ![c] = e]
      /\ Over(t, Returned(c)) /\ Runs(c)
  BY DEF Completes, Becomes, Ends
<1>2. status'[c] = "done" /\ ended'[c] = e
  BY <1>1 DEF Inv, Types
<1>3. Touches(c)  BY <1>1 DEF Touches, Inv, Types
<1>4. ASSUME NEW u \in Thread, NEW i \in 1 .. Len(stack[u]), stack[u][i].call = c
      PROVE  stack[u][i].is = "wait" /\ Blocking(c)
  BY <1>1, <1>4, PendingFrames DEF Inv
<1>5. (UniqueInv /\ FrameInv)' /\ stack' \in [Thread -> Seq(Frame)]
  <2>1. CASE Blocking(c)
    <3>1. stack' = stack  BY <1>1, <2>1, ReadyMoves DEF Inv
    <3>2. ASSUME NEW u \in Thread, NEW f \in Frame, f.call = c, FrameOK(u, f),
                 NEW i \in 1 .. Len(stack[u]), stack[u][i] = f
          PROVE  FrameOK(u, f)'
      <4>1. f.is = "wait"  BY <1>4, <3>2
      <4>2. Stage(f)'  BY <1>1, <1>2, <2>1, <3>2, <4>1 DEF Stage, Blocking
      <4>3. Unread(u, f)'
        <5>1. u # t
          <6>1. stack[u] \in Seq(Frame)  BY DEF Inv, Types
          <6>2. stack[u] # <<>>  BY <3>2, <6>1
          <6> QED  BY <6>2 DEF Free
        <5>2. e = "TIMEOUT" \/ u # IoOf(c)  BY <5>1
        <5> QED  BY <1>1, <1>2, <3>2, <5>2 DEF Unread, IoOf
      <4>4. (Careful => Obeys(u, f))'
        BY <1>1, <3>2 DEF FrameOK, Careful, Obeys, Blocking, IoOf
      <4> QED  BY <4>2, <4>3, <4>4 DEF FrameOK
    <3>3. (UniqueInv /\ FrameInv)'  BY <1>3, <3>1, <3>2, KeptFrames DEF Inv
    <3> QED  BY <3>1, <3>3 DEF Inv, Types
  <2>2. CASE ~Blocking(c)
    <3> DEFINE f == [is |-> "callback", call |-> c]
               k == Len(stack[t]) + 1
    <3>1. Moved(t, k, {f})  BY <1>1, <2>2, ReadyMoves DEF Inv
    <3>2. Stage(f)'  BY <1>1, <1>2, <2>2 DEF Stage, Blocking
    <3>3. Unread(t, f)'  BY DEF Unread
    <3>4. (Careful => Obeys(t, f))'
      <4>1. t \in IO => IoOf(c) = t  BY ConstantsAssumption DEF ConstantsAssumption
      <4> QED  BY <1>1, <4>1 DEF Obeys, Blocking, IoOf
    <3>5. FrameOK(t, f)'  BY <3>2, <3>3, <3>4 DEF FrameOK
    <3>6. k \in Nat  BY Place DEF Inv
    <3>7. \A g \in {f} : g.call = c /\ FrameOK(t, g)'  BY <3>5
    <3>8. (UniqueInv /\ FrameInv)'
      <4>1. \A u \in Thread : \A i \in 1 .. Len(stack[u]) : stack[u][i].call # c
        BY <1>4, <2>2
      <4> HIDE DEF f, k
      <4> QED  BY <1>3, <3>1, <3>6, <3>7, <4>1, MovedFrames DEF Inv
    <3> QED  BY <3>1, <3>8 DEF Moved
  <2> QED  BY <2>1, <2>2
<1>6. EndedInv'  BY <1>2, <1>3 DEF EndedInv, Touches, Inv
<1>7. ran' \in [Call -> Nat] /\ RanInv'  BY <1>1, <1>2, <1>3, RanStep
<1>8. Types'
  <2>1. e \in {"RESPONSE", "TIMEOUT"}  OBVIOUS
  <2> QED  BY <1>1, <1>5, <1>7, <2>1 DEF Inv, Types
<1> QED  BY <1>5, <1>6, <1>7, <1>8 DEF Inv

\* The response is read before the timeout is armed.
LEMMA EarlyStep ==
    ASSUME Inv, NEW c \in Call, Free(IoOf(c)), status[c] = "sent",
           Becomes(c, "fulfilled"), Ends(c, "RESPONSE"),
           UNCHANGED <<program, stack, ran>>
    PROVE  Inv'
<1>1. status' = [status EXCEPT ![c] = "fulfilled"]
      /\ ended' = [ended EXCEPT ![c] = "RESPONSE"]
  BY DEF Becomes, Ends
<1>2. status'[c] = "fulfilled" /\ ended'[c] = "RESPONSE"
  BY <1>1 DEF Inv, Types
<1>3. Touches(c)  BY <1>1 DEF Touches, Inv, Types
<1>4. ASSUME NEW u \in Thread, NEW f \in Frame, f.call = c, FrameOK(u, f),
             NEW i \in 1 .. Len(stack[u]), stack[u][i] = f
      PROVE  FrameOK(u, f)'
  <2>1. Stage(f)'  BY <1>2, <1>4 DEF FrameOK, Stage
  <2>2. Unread(u, f)'
    <3>1. stack[u] \in Seq(Frame)  BY DEF Inv, Types
    <3>2. stack[u] # <<>>  BY <1>4, <3>1
    <3>3. u # IoOf(c)  BY <3>2 DEF Free
    <3> QED  BY <1>4, <3>3 DEF Unread, IoOf
  <2>3. (Careful => Obeys(u, f))'
    BY <1>4 DEF FrameOK, Careful, Obeys, Blocking, IoOf
  <2> QED  BY <2>1, <2>2, <2>3 DEF FrameOK
<1>5. (UniqueInv /\ FrameInv)'  BY <1>3, <1>4, KeptFrames DEF Inv
<1>6. EndedInv'  BY <1>2, <1>3 DEF EndedInv, Touches, Inv
<1>7. RanInv'  BY <1>2, <1>3, UnranStep
<1>8. Types'  BY <1>1 DEF Inv, Types
<1> QED  BY <1>5, <1>6, <1>7, <1>8 DEF Inv

-----------------------------------------------------------------------------
(* The theorems.                                                           *)

\* No call has been made in the initial states.
LEMMA InvInit ==
    ASSUME Init  PROVE Inv
<1>1. program \in Program /\ program \in Programs
  BY ConstantsAssumption DEF Init, ConstantsAssumption
<1>2. <<>> \in Seq(Frame) /\ Len(<<>>) = 0  BY EmptySeq
<1>3. \A t \in Thread : stack[t] = <<>>  BY DEF Init
<1>4. stack \in [Thread -> Seq(Frame)]  BY <1>2 DEF Init
<1>5. Types  BY <1>1, <1>4 DEF Init, Types
<1>6. UniqueInv /\ FrameInv  BY <1>2, <1>3 DEF UniqueInv, FrameInv
<1>7. EndedInv /\ RanInv  BY DEF Init, EndedInv, RanInv
<1> QED  BY <1>5, <1>6, <1>7 DEF Inv

\* Every step keeps the invariant.
LEMMA InvStep ==
    ASSUME Inv, [Next]_vars  PROVE Inv'
<1>1. ASSUME NEW t \in Thread, NEW c \in Call, Refuse(t, c)  PROVE Inv'
  BY <1>1, RefuseStep
<1>2. ASSUME NEW t \in Thread, NEW c \in Call, Throw(t, c)  PROVE Inv'
  BY <1>2, ThrowStep
<1>3. ASSUME NEW t \in Thread, NEW c \in Call, Make(t, c)  PROVE Inv'
  BY <1>3, MakeStep
<1>4. ASSUME NEW t \in Thread, NEW c \in Call, Write(t, c)  PROVE Inv'
  BY <1>4, WriteStep
<1>5. ASSUME NEW t \in Thread, NEW c \in Call, Arm(t, c)  PROVE Inv'
  <2>1. CASE status[c] = "fulfilled" /\ Becomes(c, "done")
             /\ Instead(t, Returned(c)) /\ Runs(c)
    BY <1>5, <2>1, ArmReadyStep DEF Arm
  <2>2. CASE status[c] = "sent" /\ Becomes(c, "pending") /\ UNCHANGED ran
             /\ Instead(t, IF Blocking(c) THEN <<[is |-> "wait", call |-> c]>>
                                          ELSE <<>>)
    BY <1>5, <2>2, ArmWaitStep DEF Arm
  <2> QED  BY <1>5, <2>1, <2>2 DEF Arm
<1>6. ASSUME NEW t \in Thread, NEW c \in Call, Wake(t, c) \/ Return(t, c)
      PROVE  Inv'
  BY <1>6, LeaveStep DEF Wake, Return
<1>7. ASSUME NEW c \in Call, Deliver(c)  PROVE Inv'
  <2>1. IoOf(c) \in Thread  BY DEF Inv, Types, Program, IoOf, Thread
  <2>2. CASE Completes(IoOf(c), c, "RESPONSE")
    BY <1>7, <2>1, <2>2, CompletesStep DEF Deliver
  <2>3. CASE ~Completes(IoOf(c), c, "RESPONSE")
    BY <1>7, <2>3, EarlyStep DEF Deliver
  <2> QED  BY <2>2, <2>3
<1>8. ASSUME NEW c \in Call, Expire(c)  PROVE Inv'
  <2>1. Timer \in Thread  BY DEF Thread
  <2> QED  BY <1>8, <2>1, CompletesStep DEF Expire
<1>9. CASE UNCHANGED vars
  <2> USE <1>9 DEF vars, Inv
  <2>1. Types'  BY DEF Types
  <2>2. UniqueInv'  BY DEF UniqueInv
  <2>3. FrameInv'
    BY DEF FrameInv, FrameOK, Stage, Unread, Obeys, Careful, Blocking, IoOf
  <2>4. (EndedInv /\ RanInv)'  BY DEF EndedInv, RanInv, Blocking
  <2> QED  BY <2>1, <2>2, <2>3, <2>4
<1> QED
  BY <1>1, <1>2, <1>3, <1>4, <1>5, <1>6, <1>7, <1>8, <1>9 DEF Next, CallMethod

\* The invariant holds in every state.
LEMMA InvAlways == Spec => []Inv
BY InvInit, InvStep, PTL DEF Spec

\* The callback of a call is run once when it ends in a response or an error
\* code, by the IO thread, the timer thread or CallMethod, and never otherwise.
THEOREM CallbackRunOnce == Spec => []CallbackOnce
<1>1. ASSUME Inv  PROVE TypeOK
  <2>1. \A t \in Thread : DOMAIN stack[t] = 1 .. Len(stack[t])
    BY <1>1, LenProperties DEF Inv, Types
  <2>2. \A t, u \in Thread : \A i \in DOMAIN stack[t], j \in DOMAIN stack[u] :
          stack[t][i] = stack[u][j] => t = u /\ i = j
    BY <1>1, <2>1 DEF Inv, UniqueInv
  <2> QED  BY <1>1, <2>2 DEF Inv, Types, TypeOK
<1>2. Inv => CallbackOnce  BY <1>1 DEF CallbackOnce, Inv, RanInv
<1> QED  BY <1>2, InvAlways, PTL

\* A callback on the IO thread that makes a blocking call of its own client is
\* not given the response.
THEOREM SelfWaitIsVain == Spec => []SelfWaitTimesOut
<1>1. ASSUME Inv, NEW c \in Call, Top(IoOf(c), "wait", c)
      PROVE  ended[c] \in {"none", "TIMEOUT"}
  <2>1. IoOf(c) \in Thread  BY <1>1 DEF Inv, Types, Program, IoOf, Thread
  <2>2. FrameOK(IoOf(c), [is |-> "wait", call |-> c])
    BY <1>1, <2>1, TopFrame DEF Inv
  <2> QED  BY <2>2 DEF FrameOK, Unread
<1>2. Inv => SelfWaitTimesOut  BY <1>1 DEF SelfWaitTimesOut
<1> QED  BY <1>2, InvAlways, PTL

\* Two rules of use exclude that threads wait for each other: one of them would
\* be an IO thread, which neither waits for a write nor for a response.
THEOREM CarefulRunsOn == Spec => []CarefulNeverStalls
<1>1. ASSUME Inv, Careful, Stalled  PROVE FALSE
  <2>1. PICK S \in (SUBSET Thread) \ {{}} : \A t \in S : \E c \in Call :
          \/ Top(t, "write", c) /\ ~CanWrite(t, c) /\ IoOf(c) \in S
          \/ Top(t, "wait", c) /\ status[c] = "pending" /\ Timer \in S
    BY <1>1 DEF Stalled
  <2>2. ASSUME NEW t \in Thread, NEW c \in Call, Top(t, "wait", c)
        PROVE  t \in App
    <3>1. FrameOK(t, [is |-> "wait", call |-> c])
      BY <1>1, <2>2, TopFrame DEF Inv
    <3> QED  BY <1>1, <3>1 DEF FrameOK, Stage, Obeys
  <2>3. ASSUME NEW t \in Thread, NEW c \in Call, Top(t, "write", c), t \in IO
        PROVE  CanWrite(t, c)
    <3>1. FrameOK(t, [is |-> "write", call |-> c])
      BY <1>1, <2>3, TopFrame DEF Inv
    <3> QED  BY <1>1, <2>3, <3>1 DEF FrameOK, Obeys, CanWrite
  <2>4. App \cap IO = {} /\ Timer \notin App
    BY ConstantsAssumption DEF ConstantsAssumption
  <2>5. \A c \in Call : IoOf(c) \in IO  BY <1>1 DEF Inv, Types, Program, IoOf
  <2>6. ASSUME NEW t \in S, t \in IO  PROVE FALSE
    BY <2>1, <2>2, <2>3, <2>4, <2>6
  <2>7. ASSUME Timer \in S  PROVE FALSE
    BY <2>1, <2>2, <2>4, <2>5, <2>6, <2>7
  <2>8. PICK t \in S : TRUE  OBVIOUS
  <2> QED  BY <2>1, <2>5, <2>6, <2>7, <2>8
<1>2. Inv => CarefulNeverStalls  BY <1>1 DEF CarefulNeverStalls
<1> QED  BY <1>2, InvAlways, PTL
=============================================================================
