-------------------------- MODULE MCCallbackThreads --------------------------
(* Two calls of the application and one call each in their callbacks, on one *)
(* client or two, blocking or not; the last may be too long to be written.   *)
EXTENDS CallbackThreads

CONSTANTS c1, c2, c3, c4, a, b

MCProgram(reqlimit, blocking, io2, io3, io4) ==
    [parent   |-> [c \in Call |-> CASE c = c3 -> c1 [] c = c4 -> c2 [] OTHER -> none],
     blocking |-> blocking,
     io       |-> [c \in Call |-> CASE c = c2 -> io2 [] c = c3 -> io3 [] c = c4 -> io4
                                    [] OTHER -> a],
     reqlimit |-> reqlimit]

MCPrograms == {MCProgram(reqlimit, blocking, io2, io3, io4) :
                  reqlimit \in 1 .. 2,
                  blocking \in {{}, {c2}, {c3}, {c3, c4}},
                  io2 \in IO, io3 \in IO, io4 \in IO}
=============================================================================
