---------------------------- MODULE MessageStream ----------------------------
(***************************************************************************)
(* What a serializer promises its caller about the messages it writes,     *)
(* one after the other, counted in bytes and with no regard to the coding  *)
(* (identity, chunked, deflate or gzip) that carries them.                 *)
(*                                                                         *)
(* A message is begun with a header of HdrLen bytes and a body that is     *)
(* either given whole (a closed body) or handed in piece by piece while it *)
(* is open.  The serializer takes the body bytes it has been given into    *)
(* its output coding (inB counts the bytes given, outB the bytes taken),   *)
(* the caller takes the header bytes away, and the message is done only    *)
(* when the body is closed, every byte given has been taken and the whole  *)
(* header is gone.  Nothing is taken before it is given, nothing taken is  *)
(* given back, and a closed body never opens again.  A new message may be  *)
(* begun, and the object reset, at any time.                               *)
(***************************************************************************)
EXTENDS Naturals

CONSTANTS HdrLen, MaxBody

VARIABLES
  phase,  \* "idle" (no message), "open", "closed" (body complete), "done"
  hdr,    \* header bytes the caller has not taken yet
  inB,    \* body bytes handed to the serializer for this message
  outB    \* body bytes of this message taken into the output coding

absvars == <<phase, hdr, inB, outB>>

Active == {"open", "closed"}

Init == phase = "idle" /\ hdr = 0 /\ inB = 0 /\ outB = 0

\* A message begins: all of its header is pending; a closed body is given
\* whole, an open one starts empty; some of the body may be taken at once.
Begin ==
  /\ phase' \in Active
  /\ hdr' = HdrLen
  /\ inB' \in 0 .. MaxBody
  /\ outB' \in 0 .. inB'

\* The object forgets the message: nothing is in flight any more.
Reset ==
  /\ phase' = "idle"
  /\ hdr' = 0 /\ inB' = 0 /\ outB' = 0

\* Body bytes are given (only while the body is open) and taken; the body
\* may be closed in the same step.
Take ==
  /\ phase \in Active
  /\ inB' \in inB .. MaxBody
  /\ phase = "closed" => inB' = inB
  /\ outB' \in outB .. inB'
  /\ phase' \in IF phase = "open" THEN Active ELSE {"closed"}
  /\ hdr' = hdr

\* The caller takes header bytes; the message is done at the step that
\* leaves nothing of it: a closed body wholly taken and no header left.
Send ==
  /\ phase \in Active
  /\ hdr' \in 0 .. hdr
  /\ \/ phase' = phase
     \/ /\ phase = "closed" /\ outB = inB /\ hdr' = 0
        /\ phase' = "done"
  /\ UNCHANGED <<inB, outB>>

Next == Begin \/ Reset \/ Take \/ Send

Spec == Init /\ [][Next]_absvars

=============================================================================
