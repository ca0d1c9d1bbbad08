--------------------------- MODULE MCKeyProtocol ---------------------------
(***************************************************************************)
(* Small instances of KeyProtocol: frames of three parts, so that there is *)
(* a first, a last and one that may be left out; answers of two chunks to  *)
(* a challenge and to the capabilities, of one to the serial number.       *)
(***************************************************************************)
EXTENDS KeyProtocol, TLC

MCChunksOf == [kind \in AnswerKinds |-> IF kind = "serial" THEN 1 ELSE 2]
\* A whole answer and the end of it fit.  What is too long for the serial number
\* is another client's answer to a challenge.
MCBufChunks == [kind \in AnswerKinds |->
    CASE kind = "serial"       -> 2
      [] kind = "challenge"    -> 3
      [] kind = "capabilities" -> 3]

\* A payload with an all-zero middle part, and one with an all-zero first.
MCPayloads == {<<1, 0>>, <<0, 2>>}
MCBodies == {[k \in Body |-> p[k + 1]] : p \in MCPayloads}

\* Frames of two parts, for the run with two clients: a challenge's is not that
\* of a request for the serial number, which is all zero.
MCOneBody == {[k \in Body |-> 1]}
=============================================================================
