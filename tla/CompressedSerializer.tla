------------------------- MODULE CompressedSerializer -------------------------
(***************************************************************************)
(* The whole serializer of src/src/serializer.cpp: the identity-coding     *)
(* model of Serializer composed with the is_compressed_ paths, in which a   *)
(* deflate or gzip filter (zlib_service.hpp) sits between the body and      *)
(* tmp0_.  A serializer object is reused across messages, so both kinds of  *)
(* message run on the same state: what one leaves in tmp0_ and tmp1_ is     *)
(* what the next one finds.                                                 *)
(*                                                                         *)
(* The filter is an input: each prepare() runs the loop of lines 295-320,   *)
(* and the model chooses its outcome (input bytes taken, output bytes       *)
(* written, finished or not) among the outcomes the loop's break            *)
(* conditions allow.  Compressed byte counts go to the peer's decoder dec,  *)
(* exactly as the code frames them.                                         *)
(***************************************************************************)
EXTENDS Serializer

CONSTANTS
  ZMax,      \* bound on the compressed bytes one message produces
  MaxMsgs,   \* bound on the messages one serializer object is started for
  ZStyles    \* the body styles compressed messages are started with

ASSUME CAssumption ==
  /\ ZMax \in Nat \ {0}
  /\ MaxMsgs \in Nat \ {0}
  /\ ZStyles \subseteq Styles

\* serializer.cpp 255-259: chunked overhead, zlib flush marker, one byte.
min_compressed_cap == chunked_overhead + 6 + 1

VARIABLES
  compressed,  \* is_compressed_
  fdone,       \* filter_done_
  cap0,        \* capacity of the region tmp0_ was last set up on
  zbuf,        \* tmp1_.size(): body bytes waiting for the filter
  zoff,        \* tmp1_'s read position: where its first piece starts
  zcap,        \* capacity of tmp1_
  bufRem,      \* bytes of buf_ the filter has not taken (buffers style)
  zin,         \* body bytes the filter has taken, this message
  zout,        \* compressed bytes the filter has written, this message
  asserted,    \* a BOOST_ASSERT of the compressed prepare() has failed
  oob,         \* prepare() has written past the end of the out_ array
  msgs         \* start_* calls so far

cvars == <<compressed, fdone, cap0, zbuf, zoff, zcap, bufRem, zin, zout,
           asserted, oob, msgs>>
allvars == <<vars, cvars>>

CInit ==
  /\ Init
  /\ compressed = FALSE
  /\ fdone = FALSE
  /\ cap0 = 0            \* a default-constructed circular_buffer
  /\ zbuf = 0
  /\ zoff = 0
  /\ zcap = 0
  /\ bufRem = 0
  /\ zin = 0
  /\ zout = 0
  /\ asserted = FALSE
  /\ oob = FALSE
  /\ msgs = 0

-----------------------------------------------------------------------------
(* Identity-coded messages: the actions of Serializer.  start_init clears   *)
(* is_compressed_ and filter_done_ (through reset()); start_source and     *)
(* start_stream set tmp0_ up on the whole workspace.                        *)

IdStart ==
  /\ msgs < MaxMsgs
  /\ msgs' = msgs + 1
  /\ Start
  /\ compressed' = FALSE
  /\ fdone' = FALSE
  /\ cap0' = IF st' \in {"source", "stream"} THEN WsSize ELSE cap0
  /\ zin' = 0
  /\ zout' = 0
  /\ UNCHANGED <<zbuf, zoff, zcap, bufRem, asserted, oob>>

CReset ==
  /\ Reset
  /\ compressed' = FALSE
  /\ fdone' = FALSE
  /\ UNCHANGED <<cap0, zbuf, zoff, zcap, bufRem, zin, zout, asserted, oob,
                 msgs>>

\* The Expect: 100-continue branch comes before the is_compressed_ test.
ExpectPrepare ==
  /\ PrepareHeaderOnly \/ PrepareExpect100
  /\ UNCHANGED cvars

IdPrepare ==
  /\ ~compressed
  /\ \/ PrepareBuffered
     \/ PrepareSourceIdentity
     \/ PrepareSourceChunked
     \/ PrepareSourceView
     \/ PrepareStream
  /\ UNCHANGED cvars

\* consume(n) while n ends inside the header, for both kinds of message.
HeaderConsume ==
  /\ \E n \in 0 .. shown : ConsumeHeaderOnly(n) \/ ConsumeInHeader(n)
  /\ UNCHANGED cvars

IdConsume ==
  /\ ~compressed
  /\ \E n \in 0 .. shown : ConsumeBody(n)
  /\ UNCHANGED cvars

IdStream ==
  /\ ~compressed
  /\ StreamCommitIdentity \/ StreamCommitChunked \/ StreamClose
  /\ UNCHANGED cvars

-----------------------------------------------------------------------------
(* Compressed messages: start_*.                                            *)

\* start_init when the message's coding is not identity: the filter is made
\* from the workspace, is_compressed_ is set; reset() has cleared filter_done_.
ZStartInit(c, e) ==
  /\ msgs < MaxMsgs
  /\ msgs' = msgs + 1
  /\ StartInit(c, e)
  /\ compressed' = TRUE
  /\ fdone' = FALSE
  /\ zin' = 0
  /\ zout' = 0
  /\ UNCHANGED <<asserted, oob>>

\* start_empty does not touch tmp0_ or tmp1_.
ZStartEmpty(c, e) ==
  /\ ZStartInit(c, e)
  /\ st' = "empty"
  /\ more' = FALSE
  /\ out' = IF c THEN last_chunk_len ELSE 0
  /\ srcRem' = 0
  /\ given' = 0
  /\ dec' = IF c THEN FeedLast(DecInit(c)) ELSE DecInit(c)
  /\ UNCHANGED <<tmp0, cap0, zbuf, zoff, zcap, bufRem>>

\* start_buffers, compressed branch: out_ = {header, tmp0_ x 2}, tmp0_ on
\* the whole workspace, more_ = true.
ZStartBuffers(c, e, b) ==
  /\ ZStartInit(c, e)
  /\ st' = "buffers"
  /\ more' = TRUE
  /\ out' = 0
  /\ tmp0' = 0
  /\ cap0' = WsSize
  /\ bufRem' = b
  /\ given' = b
  /\ srcRem' = 0
  /\ dec' = DecInit(c)
  /\ UNCHANGED <<zbuf, zoff, zcap>>

\* start_source / start_stream, compressed: tmp1_ takes the front half of
\* the workspace and tmp0_ the rest, which must hold a one-byte chunk (else
\* length_error, and the start does not complete).
ZStartPull(c, e, s, n) ==
  LET half == WsSize \div 2 IN
  /\ WsSize - half >= chunked_overhead + 1
  /\ ZStartInit(c, e)
  /\ st' = s
  /\ more' = TRUE
  /\ out' = 0
  /\ tmp0' = 0
  /\ cap0' = WsSize - half
  /\ zbuf' = 0
  /\ zoff' = 0
  /\ zcap' = half
  /\ bufRem' = 0
  /\ srcRem' = n
  /\ given' = 0
  /\ dec' = DecInit(c)

ZStart ==
  \E c, e \in BOOLEAN :
    \/ "empty" \in ZStyles /\ ZStartEmpty(c, e)
    \/ "buffers" \in ZStyles /\ \E b \in BufferBodies : ZStartBuffers(c, e, b)
    \/ "source" \in ZStyles /\ \E n \in 0 .. MaxBody : ZStartPull(c, e, "source", n)
    \/ "stream" \in ZStyles /\ ZStartPull(c, e, "stream", 0)

-----------------------------------------------------------------------------
(* prepare() of a compressed message, lines 159-343.  The caller must have  *)
(* drained tmp0_ (else logic_error) and tmp0_ must hold the chunk overhead, *)
(* the zlib flush marker and a byte (else length_error): both throw, so no  *)
(* step is taken.  tmp0_ is empty, so its whole capacity is contiguous.     *)

ZCanPrepare ==
  /\ CanPrepare
  /\ ~is_expect_continue
  /\ compressed
  /\ tmp0 = 0
  /\ cap0 >= min_compressed_cap

\* get_output: tmp0_'s free space, less the CRLF and the last chunk when
\* chunked; after the 18 bytes of the chunk header this leaves cap0 - 25.
MutWindow ==
  IF is_chunked THEN cap0 - chunk_header_len - crlf_len ELSE cap0

Window ==
  IF is_chunked THEN cap0 - chunked_overhead ELSE cap0

\* The room the filter writes into, within the model's bound on output.
FilterRoom == MinOf(Window, ZMax - zout)

\* Output sizes of one loop: none, one byte, or all the room (the sizes the
\* properties tell apart).
OutSizes == {0, 1, FilterRoom} \cap 0 .. FilterRoom

\* The outcomes of the loop of lines 295-320 on inp input bytes whose first
\* contiguous piece holds piece bytes, when more_ is mIn at its start and
\* mAfter once the input taken is consumed.  get_input (lines 183-208)
\* shows each call the first piece only, and on_process is told more_, not
\* whether another piece follows: a filter told there is no more input
\* finishes after taking the piece it was shown, which is all the input or,
\* when the input wraps around tmp1_, its first piece.  So a loop that
\* wrote nothing finished on its first call.  The loop stops short of the
\* room only on a call that wrote nothing: a filter still expecting input
\* may do that (deflate buffers its input), one told there is none must
\* write or finish.
FilterLoop(inp, piece, mIn, mAfter, k, w, fin) ==
  /\ fin => (k = inp \/ k = piece) /\ ~mAfter
  /\ (fin /\ w = 0) => ~mIn
  /\ (~fin /\ w < FilterRoom) => mIn

\* What the loop and lines 322-342 leave: w compressed bytes in tmp0_ and,
\* when chunked, the chunk header backfilled with w (even when w = 0),
\* "\r\n", and the last chunk once filter_done_.  BOOST_ASSERT(tmp0_.size()
\* > 0) fails when nothing was written to an unchunked body.
Emit(k, w, fin) ==
  /\ zin' = zin + k
  /\ zout' = zout + w
  /\ fdone' = (fdone \/ fin)
  /\ IF is_chunked
       THEN /\ tmp0' = chunk_header_len + w + crlf_len
                       + (IF fdone' THEN last_chunk_len ELSE 0)
            /\ dec' = IF fdone' THEN FeedLast(FeedChunk(dec, w))
                                ELSE FeedChunk(dec, w)
            /\ UNCHANGED asserted
       ELSE /\ tmp0' = w
            /\ dec' = Feed(dec, Data(w))
            /\ asserted' = (asserted \/ w = 0)

\* tmp1_ holding avail bytes from zoff on: its first contiguous piece, and
\* consume(k) (line 247), which moves the read position on and, in the
\* circular buffer, back to the front once nothing is left.
Piece(avail) == MinOf(avail, zcap - zoff)

ZTake(avail, k) ==
  /\ zbuf' = avail - k
  /\ zoff' = IF avail - k = 0 THEN 0 ELSE (zoff + k) % zcap

\* on_end: out_ = {header?, tmp0_ x 2}, the view is all of it.
ZView == shown' = hp + tmp0'

\* Buffers: the input is buf_; consuming it to the end clears more_.
ZPrepareBuffers ==
  /\ ZCanPrepare
  /\ st = "buffers"
  /\ \E k \in 0 .. bufRem, w \in OutSizes, fin \in BOOLEAN :
       LET mAfter == more /\ bufRem - k > 0 IN
       /\ FilterLoop(bufRem, bufRem, more, mAfter, k, w, fin)
       /\ bufRem' = bufRem - k
       /\ more' = mAfter
       /\ Emit(k, w, fin)
  /\ ZView
  /\ UNCHANGED <<st, started, is_done, is_chunked, is_expect_continue, hp,
                 out, srcRem, given, sent, cap0, zbuf, zoff, zcap, compressed,
                 oob, msgs>>

\* Source: one read into tmp1_ first (lines 261-266); more_ = !finished and
\* the bytes are committed, whatever the error code.  A source that has
\* reported finished reports it again.
ZPrepareSource ==
  /\ ZCanPrepare
  /\ st = "source"
  /\ \E r \in ReadResults(zcap - zbuf) :
       /\ ~more => r.fin
       /\ \E k \in 0 .. zbuf + r.b, w \in OutSizes, fin \in BOOLEAN :
            /\ FilterLoop(zbuf + r.b, Piece(zbuf + r.b), ~r.fin, ~r.fin,
                          k, w, fin)
            /\ ZTake(zbuf + r.b, k)
            /\ more' = ~r.fin
            /\ srcRem' = srcRem - r.b
            /\ given' = given + r.b
            /\ Emit(k, w, fin)
  /\ ZView
  /\ UNCHANGED <<st, started, is_done, is_chunked, is_expect_continue, hp,
                 out, sent, cap0, zcap, bufRem, compressed, oob, msgs>>

\* Stream: the input is what the caller committed to tmp1_.  There is no
\* need_data: the loop runs on an empty tmp1_ too.
ZPrepareStream ==
  /\ ZCanPrepare
  /\ st = "stream"
  /\ \E k \in 0 .. zbuf, w \in OutSizes, fin \in BOOLEAN :
       /\ FilterLoop(zbuf, Piece(zbuf), more, more, k, w, fin)
       /\ ZTake(zbuf, k)
       /\ Emit(k, w, fin)
  /\ ZView
  /\ UNCHANGED <<st, started, is_done, is_chunked, is_expect_continue, more,
                 hp, out, srcRem, given, sent, cap0, zcap, bufRem, compressed,
                 oob, msgs>>

\* Empty: the compressed branch runs on whatever tmp0_ and tmp1_ the last
\* message left (start_empty sets up neither).  on_end then stores the two
\* pieces of tmp0_ from out_[1] or out_[0] on, into an out_ of one slot, or
\* two when chunked, with the header slot first: always past its end.  What
\* follows is undefined; the model keeps the size of the view.
ZPrepareEmpty ==
  /\ ZCanPrepare
  /\ st = "empty"
  /\ \E k \in 0 .. zbuf, w \in OutSizes, fin \in BOOLEAN :
       /\ FilterLoop(zbuf, Piece(zbuf), more, more, k, w, fin)
       /\ ZTake(zbuf, k)
       /\ Emit(k, w, fin)
  /\ oob' = TRUE
  /\ shown' = hp + out
  /\ UNCHANGED <<st, started, is_done, is_chunked, is_expect_continue, more,
                 hp, out, srcRem, given, sent, cap0, zcap, bufRem, compressed,
                 msgs>>

ZPrepare ==
  \/ ZPrepareBuffers
  \/ ZPrepareSource
  \/ ZPrepareStream
  \/ ZPrepareEmpty

-----------------------------------------------------------------------------
(* consume(n) past the header of a compressed message (lines 480-511):     *)
(* tmp0_ gives up the bytes, and the message is done once tmp0_ is empty    *)
(* and filter_done_.  An empty body still consumes out_.  The ghost sent   *)
(* counts identity-coded body bytes only: a compressed body may go on with  *)
(* chunks of size 0 for ever.                                               *)

MutZConsumeBody(n, noFilter, fromHeader) ==
  /\ CanConsume(n)
  /\ ~is_expect_continue
  /\ compressed
  /\ n >= hp
  /\ LET b == IF fromHeader THEN n ELSE n - hp IN
       /\ hp' = 0
       /\ shown' = shown - n
       /\ IF st = "empty"
            THEN /\ out' = out - b
                 /\ is_done' = (out - b = 0)
                 /\ UNCHANGED tmp0
            ELSE /\ tmp0' = tmp0 - b
                 /\ is_done' = (tmp0 - b = 0 /\ (noFilter \/ fdone))
                 /\ UNCHANGED out
  /\ UNCHANGED <<st, started, is_chunked, is_expect_continue, more, srcRem,
                 given, sent, dec>>
  /\ UNCHANGED cvars
MutZConsumeBodyEarly(n) == MutZConsumeBody(n, TRUE, FALSE)
MutZConsumeBodyHeader(n) == MutZConsumeBody(n, FALSE, TRUE)

ZConsumeBody(n) ==
  /\ CanConsume(n)
  /\ ~is_expect_continue
  /\ compressed
  /\ n >= hp
  /\ LET b == n - hp IN
       /\ hp' = 0
       /\ shown' = shown - n
       /\ IF st = "empty"
            THEN /\ out' = out - b
                 /\ is_done' = (out - b = 0)
                 /\ UNCHANGED tmp0
            ELSE /\ tmp0' = tmp0 - b
                 /\ is_done' = (tmp0 - b = 0 /\ fdone)
                 /\ UNCHANGED out
  /\ UNCHANGED <<st, started, is_chunked, is_expect_continue, more, srcRem,
                 given, sent, dec>>
  /\ UNCHANGED cvars

ZConsume == \E n \in 0 .. shown : ZConsumeBody(n)

-----------------------------------------------------------------------------
(* The stream handle of a compressed message: prepare() offers tmp1_'s free *)
(* space and commit(n) commits to tmp1_; close() clears more_ and writes no *)
(* last chunk, which the compressed prepare() writes once the filter is     *)
(* done.                                                                    *)

ZStreamCommit ==
  /\ compressed
  /\ st = "stream" /\ more
  /\ \E n \in 1 .. MinOf(zcap - zbuf, MaxBody - given) :
       /\ zbuf' = zbuf + n
       /\ given' = given + n
  /\ UNCHANGED <<st, started, is_done, is_chunked, is_expect_continue, more,
                 hp, out, tmp0, shown, srcRem, sent, dec>>
  /\ UNCHANGED <<compressed, fdone, cap0, zoff, zcap, bufRem, zin, zout,
                 asserted, oob, msgs>>

MutZStreamClose ==
  /\ compressed
  /\ st = "stream" /\ more
  /\ UNCHANGED vars
  /\ UNCHANGED cvars

ZStreamClose ==
  /\ compressed
  /\ st = "stream" /\ more
  /\ more' = FALSE
  /\ UNCHANGED <<st, started, is_done, is_chunked, is_expect_continue, hp,
                 out, tmp0, shown, srcRem, given, sent, dec>>
  /\ UNCHANGED cvars

-----------------------------------------------------------------------------

CNext ==
  \/ IdStart
  \/ CReset
  \/ ExpectPrepare
  \/ IdPrepare
  \/ HeaderConsume
  \/ IdConsume
  \/ IdStream
  \/ ZStart
  \/ ZPrepare
  \/ ZConsume
  \/ ZStreamCommit
  \/ ZStreamClose

CSpec == CInit /\ [][CNext]_allvars

(***************************************************************************)
(* The caller's loop for one compressed message, as LiveSpec of Serializer *)
(* for identity messages: the caller keeps calling prepare and consume and *)
(* eventually closes a stream (weak fairness); a filter or source that can *)
(* make progress (take input, write output, finish; return bytes or        *)
(* finished) eventually does (strong fairness).                            *)
(***************************************************************************)
ZFirstStart == st = "none" /\ ZStart

ZPrepareAll == ExpectPrepare \/ ZPrepare

ZConsumeAll == HeaderConsume \/ ZConsume

ZProgress ==
  /\ ZPrepare
  /\ \/ zin' # zin
     \/ zout' # zout
     \/ fdone' # fdone
     \/ given' # given
     \/ more' # more

ZDriverNext ==
  \/ ZFirstStart
  \/ ZPrepareAll
  \/ ZConsumeAll
  \/ ZStreamCommit
  \/ ZStreamClose

ZFairness ==
  /\ WF_allvars(ZFirstStart)
  /\ WF_allvars(ZPrepareAll)
  /\ WF_allvars(ZConsumeAll)
  /\ WF_allvars(ZStreamClose)
  /\ SF_allvars(ZProgress)

ZLiveSpec == CInit /\ [][ZDriverNext]_allvars /\ ZFairness

-----------------------------------------------------------------------------
(* Properties.                                                             *)

CTypeOK ==
  /\ TypeOK
  /\ compressed \in BOOLEAN
  /\ fdone \in BOOLEAN
  /\ cap0 \in Nat
  /\ zbuf \in Nat
  /\ zoff \in Nat
  /\ zcap \in Nat
  /\ bufRem \in Nat
  /\ zin \in Nat
  /\ zout \in 0 .. ZMax
  /\ msgs \in 0 .. MaxMsgs
  /\ asserted \in BOOLEAN
  /\ oob \in BOOLEAN

\* The room reserved in prepare() (get_output keeps the CRLF and the last
\* chunk free) and in stream::prepare() keeps tmp0_ and tmp1_ within the
\* regions start_* gave them, across messages that reuse the workspace.
BuffersFitRegions == tmp0 <= cap0 /\ zbuf <= zcap

\* When consume() sets is_done_, the body is complete: for a compressed
\* message the filter has finished after taking every body byte handed over
\* (none is left in buf_ or tmp1_, the source was read to its end); for an
\* identity message, CompleteAtDone of Serializer.  (A compressed empty
\* body has no input; what its prepare() does is OutViewInBounds's matter.)
MessageCompleteAtDone ==
  is_done =>
    IF compressed
      THEN st # "empty" =>
           /\ fdone
           /\ zin = given
           /\ (st \in {"source", "stream"} => zbuf = 0)
           /\ bufRem = 0
           /\ srcRem = 0
      ELSE CompleteAtDone

\* MessageCompleteAtDone for what the filter sees whole: when consume() sets
\* is_done_ on a compressed buffers body, the filter has finished and has
\* taken every byte of buf_ (get_input shows it one range at a time, but
\* more_ stays set until buf_ is empty, lines 186-191 and 242-244); an
\* identity message, whatever the messages before it left in the
\* workspace, is done only once CompleteAtDone holds.  Source and stream
\* bodies are left out: tmp1_ wraps (run z_wrap_loss).
BuffersCompleteAtDone ==
  is_done =>
    IF compressed
      THEN st = "buffers" => fdone /\ zin = given /\ bufRem = 0
      ELSE CompleteAtDone

\* The BOOST_ASSERTs of the compressed prepare() (tmp0_ is not empty after
\* the filter loop; the view is not empty) never fail.
AssertionsHold == ~asserted

\* prepare() never writes past the end of the out_ array start_* made.
OutViewInBounds == ~oob

\* A caller that keeps calling prepare() and consume() on a compressed
\* message (and closes its stream) reaches is_done().
ZTermination == <>is_done

-----------------------------------------------------------------------------
(***************************************************************************)
(* Refinement.  The serializer, in both codings, implements MessageStream  *)
(* under the mapping of Serializer (AbsPhase, AbsHdr, AbsGiven), with the  *)
(* bytes taken of a compressed message counted as the filter's input once  *)
(* the filter has finished (a deflate stream carries its input only when   *)
(* it ends), and those of an identity message as in IdAbsTaken.            *)
(***************************************************************************)

AbsTaken ==
  IF ~started THEN 0
  ELSE IF compressed THEN (IF fdone THEN zin ELSE 0)
  ELSE IdAbsTaken

Abs == INSTANCE MessageStream
         WITH phase <- AbsPhase, hdr <- AbsHdr, inB <- AbsGiven,
              outB <- AbsTaken

\* Every step of the serializer (start_*, reset, prepare, consume and the
\* stream handle, in either coding) is a step of MessageStream: body bytes
\* are taken only after they are given and never given back, the body is
\* closed once, and is_done_ comes only with the body closed and wholly
\* taken and the header consumed.
RefinesMessageStream == Abs!Spec
====
