---------------------------- MODULE MCRpcMessage ----------------------------
(***************************************************************************)
(* The message classes on two objects.  At most MaxOps operations are done *)
(* on them, the first from empty objects; the requests and responses that  *)
(* CallMethod and handleRpcCall fill in are built in one.  A peer of a     *)
(* later version writes an error code this one does not know, a field it   *)
(* does not know, or a known field with another type.                      *)
(***************************************************************************)
EXTENDS ProtoMessage, GeneratedMethods

\* A value of one byte, of two and of ten, the default and another one.
MCSetValue ==
    [c \in ClassName |->
       [i \in DOMAIN FieldsOfClass[c] |->
          CASE FieldsOfClass[c][i].kind = "enum" -> {0, 2} \cap FieldsOfClass[c][i].valid
            [] FieldsOfClass[c][i].kind = "int64" -> {0, 300, -1}
            [] FieldsOfClass[c][i].kind = "bytes" -> {<<>>, <<7, 8>>}
            [] OTHER -> {0, 5}]]

MCBuilt ==
    [c \in ClassName |->
       IF c = "RpcMessage"
       THEN {1 :> 1 @@ 2 :> id @@ 3 :> 5 @@ 4 :> 0 @@ 5 :> <<7, 8>> : id \in {0, 300}}
            \cup {1 :> 2 @@ 2 :> 300 @@ 3 :> 5 @@ 4 :> 0 @@ 6 :> v @@ 7 :> 0 :
                    v \in {<<>>, <<7, 8>>}}
            \cup {1 :> 2 @@ 2 :> 300 @@ 7 :> 6}
       ELSE {}]

MCForeign == {[n |-> 7, kind |-> "enum", v |-> 8],
              [n |-> 9, kind |-> "uint32", v |-> 1],
              [n |-> 1, kind |-> "bytes", v |-> <<1>>]}

\* The two objects may be exchanged.
MCSymmetry == Permutations(Object)

MCMaxOps == [c \in ClassName |-> IF c = "RpcMessage" THEN 3 ELSE 4]
=============================================================================
