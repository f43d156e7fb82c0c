---------------------------- MODULE MC_Serializer ----------------------------
(* The serializer on a workspace of 28 bytes: a chunk carries at most 3    *)
(* body bytes, so a body of 4 bytes takes two chunks, and a chunk of 3     *)
(* bytes leaves exactly the last chunk's 5 bytes free.                     *)
EXTENDS Serializer

MC_WsSize == 28
MC_BufferBodies == 1 .. MaxBody
MC_BufferBodiesAll == 0 .. MaxBody
====
