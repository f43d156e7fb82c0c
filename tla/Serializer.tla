----------------------------- MODULE Serializer -----------------------------
(***************************************************************************)
(* The HTTP/1 serializer of src/src/serializer.cpp, for messages whose     *)
(* content-coding is identity: start_empty, start_buffers, start_source,   *)
(* start_stream, reset, prepare, consume and the stream handle's commit    *)
(* and close.                                                              *)
(*                                                                         *)
(* Byte contents are abstracted away.  tmp0 (a circular buffer) is its     *)
(* size; the out_ array is the header bytes not yet consumed (hp) and the  *)
(* bytes after the header (out, used by the empty and buffers styles).     *)
(* Every framing piece the code writes is also fed, in the order it is     *)
(* written, to a model of the peer's chunked decoder (dec): this ghost     *)
(* state is what the wire-format properties are stated on.                 *)
(***************************************************************************)
EXTENDS Naturals

CONSTANTS
  WsSize,            \* bytes of the workspace left for tmp0 / out_ storage
  HdrLen,            \* length of the header octets of every message
  MaxBody,           \* largest body a source or a stream caller produces
  BufferBodies,      \* total sizes of the caller's buffers for start_buffers
  PartialErrorReads  \* may source::read return bytes together with an error

ASSUME Assumption ==
  /\ WsSize \in Nat /\ WsSize >= 26
  /\ HdrLen \in Nat \ {0}
  /\ MaxBody \in Nat
  /\ BufferBodies \subseteq 0 .. MaxBody
  /\ PartialErrorReads \in BOOLEAN

\* The framing constants of serializer.hpp.
chunk_header_len == 18
crlf_len == 2
last_chunk_len == 5
chunked_overhead == chunk_header_len + crlf_len + last_chunk_len

VARIABLES
  st,                 \* style: "none" before any start_*, else the body style
  started,            \* a start_* has run since construction or reset()
  is_done,
  is_chunked,
  is_expect_continue,
  more,               \* more_: the body may still yield bytes
  hp,                 \* header bytes still in out_[0]; 0 once out_.data() # hp_
  out,                \* bytes of out_ after the header (empty/buffers styles)
  tmp0,               \* bytes committed to tmp0_ and not yet consumed
  shown,              \* bytes of the last view prepare() returned, not consumed
  srcRem,             \* bytes the source has not yet produced
  given,              \* body bytes handed to the serializer by source/stream/buffers
  sent,               \* body bytes (after the header) consumed by the caller
  dec                 \* the peer's decoder, fed with every framing piece written

vars == <<st, started, is_done, is_chunked, is_expect_continue, more, hp, out,
          tmp0, shown, srcRem, given, sent, dec>>

Styles == {"empty", "buffers", "source", "stream"}

-----------------------------------------------------------------------------
(* The pieces of the wire after the header and the peer that decodes them. *)

Line(n) == [k |-> "line", n |-> n]   \* a chunk-size line for n bytes
Data(n) == [k |-> "data", n |-> n]   \* n body bytes
Crlf == [k |-> "crlf", n |-> 0]

Phases == {"ident", "size", "data", "crlf", "trailer", "done", "bad"}

\* A decoder at the start of the body: chunked or identity framing.
DecInit(c) == [ph |-> IF c THEN "size" ELSE "ident", left |-> 0, body |-> 0]

\* One piece through a decoder of the chunked coding of RFC 9112 7.1.  A
\* zero-size line is the last chunk; anything after its CRLF is an error.
Feed(d, p) ==
  CASE p.k = "data" /\ p.n = 0 -> d
    [] d.ph = "ident" /\ p.k = "data" -> [d EXCEPT !.body = @ + p.n]
    [] d.ph = "size" /\ p.k = "line" ->
         [d EXCEPT !.ph = IF p.n = 0 THEN "trailer" ELSE "data", !.left = p.n]
    [] d.ph = "data" /\ p.k = "data" /\ p.n <= d.left ->
         [d EXCEPT !.ph = IF p.n = d.left THEN "crlf" ELSE "data",
                   !.left = @ - p.n, !.body = @ + p.n]
    [] d.ph = "crlf" /\ p.k = "crlf" -> [d EXCEPT !.ph = "size"]
    [] d.ph = "trailer" /\ p.k = "crlf" -> [d EXCEPT !.ph = "done"]
    [] OTHER -> [d EXCEPT !.ph = "bad"]

\* A chunk of n bytes: its size line, its data and its CRLF.
FeedChunk(d, n) == Feed(Feed(Feed(d, Line(n)), Data(n)), Crlf)

\* The last chunk "0\r\n\r\n".
FeedLast(d) == Feed(Feed(d, Line(0)), Crlf)

-----------------------------------------------------------------------------

Init ==
  /\ st = "none"
  /\ started = FALSE
  /\ is_done = FALSE
  /\ is_chunked = FALSE
  /\ is_expect_continue = FALSE
  /\ more = FALSE
  /\ hp = 0
  /\ out = 0
  /\ tmp0 = 0
  /\ shown = 0
  /\ srcRem = 0
  /\ given = 0
  /\ sent = 0
  /\ dec = DecInit(FALSE)

\* start_init: reset() and the flags taken from the message metadata, then
\* what every start_* does last: out_[0] = the header.
StartInit(c, e) ==
  /\ started' = TRUE
  /\ is_done' = FALSE
  /\ is_chunked' = c
  /\ is_expect_continue' = e
  /\ hp' = HdrLen
  /\ shown' = 0
  /\ sent' = 0

\* start_empty: out_ = {header} or, when chunked, {header, "0\r\n\r\n"}.
StartEmpty(c, e) ==
  /\ StartInit(c, e)
  /\ st' = "empty"
  /\ more' = FALSE
  /\ out' = IF c THEN last_chunk_len ELSE 0
  /\ tmp0' = 0
  /\ srcRem' = 0
  /\ given' = 0
  /\ dec' = IF c THEN FeedLast(DecInit(c)) ELSE DecInit(c)

\* start_buffers on a body of b bytes: {header, bufs...}, or when chunked
\* {header, chunk-size(b), bufs..., "\r\n0\r\n\r\n"}.
StartBuffers(c, e, b) ==
  /\ StartInit(c, e)
  /\ st' = "buffers"
  /\ more' = FALSE
  /\ out' = IF c THEN chunk_header_len + b + crlf_len + last_chunk_len ELSE b
  /\ tmp0' = 0
  /\ srcRem' = 0
  /\ given' = b
  /\ dec' = IF c
              THEN FeedLast(FeedChunk(DecInit(c), b))
              ELSE Feed(DecInit(c), Data(b))

\* start_source with a source that will produce n bytes (s = "source"), and
\* start_stream (s = "stream", n = 0).
StartPull(c, e, s, n) ==
  /\ StartInit(c, e)
  /\ st' = s
  /\ more' = TRUE
  /\ out' = 0
  /\ tmp0' = 0
  /\ srcRem' = n
  /\ given' = 0
  /\ dec' = DecInit(c)

\* reset(): clears the flags; style, out_ and tmp0_ are left as they are.
Reset ==
  /\ started' = FALSE
  /\ more' = FALSE
  /\ is_done' = FALSE
  /\ is_chunked' = FALSE
  /\ is_expect_continue' = FALSE
  /\ UNCHANGED <<st, hp, out, tmp0, shown, srcRem, given, sent, dec>>

-----------------------------------------------------------------------------
(* prepare().  It throws when is_done_ is set, and before any start_* no    *)
(* style is set; both are preconditions of the caller, so no branch of      *)
(* prepare is enabled then.                                                 *)

\* tmp0_.capacity(): the free space of the circular buffer.
Free == WsSize - tmp0

MinOf(a, b) == IF a <= b THEN a ELSE b

\* What source::read(dest) may return into a buffer of d bytes: at most the
\* bytes it still has; finished only with its last bytes; an error with no
\* bytes unless PartialErrorReads.
ReadResults(d) ==
  { r \in [b : 0 .. MinOf(d, srcRem), fin : BOOLEAN, err : BOOLEAN] :
      /\ r.fin => (r.b = srcRem /\ ~r.err)
      /\ r.err => (r.b = 0 \/ PartialErrorReads) }

CanPrepare == started /\ ~is_done

\* Mutant: the expect-continue view also carries the bytes of tmp0.
MutPrepareHeaderOnly ==
  /\ CanPrepare
  /\ is_expect_continue
  /\ hp > 0
  /\ shown' = hp + tmp0
  /\ UNCHANGED <<st, started, is_done, is_chunked, is_expect_continue, more,
                 hp, out, tmp0, srcRem, given, sent, dec>>

\* Expect: 100-continue while out_[0] still holds header bytes: the header.
PrepareHeaderOnly ==
  /\ CanPrepare
  /\ is_expect_continue
  /\ hp > 0
  /\ shown' = hp
  /\ UNCHANGED <<st, started, is_done, is_chunked, is_expect_continue, more,
                 hp, out, tmp0, srcRem, given, sent, dec>>

\* The header has been consumed: clear the flag, return expect_100_continue.
PrepareExpect100 ==
  /\ CanPrepare
  /\ is_expect_continue
  /\ hp = 0
  /\ is_expect_continue' = FALSE
  /\ shown' = 0
  /\ UNCHANGED <<st, started, is_done, is_chunked, more, hp, out, tmp0,
                 srcRem, given, sent, dec>>

\* style::empty and style::buffers: the view is out_ as it stands.
PrepareBuffered ==
  /\ CanPrepare
  /\ ~is_expect_continue
  /\ st \in {"empty", "buffers"}
  /\ shown' = hp + out
  /\ UNCHANGED <<st, started, is_done, is_chunked, is_expect_continue, more,
                 hp, out, tmp0, srcRem, given, sent, dec>>

\* style::source, identity: read into all of tmp0's free space and commit
\* what was read, then return the error if there is one.
PrepareSourceIdentity ==
  /\ CanPrepare
  /\ ~is_expect_continue
  /\ st = "source" /\ more /\ ~is_chunked
  /\ \E r \in ReadResults(Free) :
       /\ tmp0' = tmp0 + r.b
       /\ srcRem' = srcRem - r.b
       /\ given' = given + r.b
       /\ dec' = Feed(dec, Data(r.b))
       /\ more' = IF r.err THEN more ELSE ~r.fin
       /\ shown' = IF r.err THEN 0 ELSE hp + tmp0'
  /\ UNCHANGED <<st, started, is_done, is_chunked, is_expect_continue, hp,
                 out, sent>>

\* Mutant: the chunk is framed even when read() returned no bytes, and a
\* finished read leaves more_ set.
MutPrepareSourceChunked(zeroChunk, keepMore) ==
  /\ CanPrepare
  /\ ~is_expect_continue
  /\ st = "source" /\ more /\ is_chunked
  /\ Free > chunked_overhead
  /\ \E r \in ReadResults(Free - crlf_len - last_chunk_len - chunk_header_len) :
       LET framed == zeroChunk \/ r.b # 0
           chunk == IF framed THEN FeedChunk(dec, r.b) ELSE dec
       IN  /\ srcRem' = srcRem - r.b
           /\ given' = given + r.b
           /\ IF r.err
                THEN /\ shown' = 0
                     /\ UNCHANGED <<more, tmp0, dec>>
                ELSE /\ tmp0' = tmp0
                                + (IF framed THEN chunk_header_len + r.b + crlf_len ELSE 0)
                                + (IF r.fin THEN last_chunk_len ELSE 0)
                     /\ dec' = IF r.fin THEN FeedLast(chunk) ELSE chunk
                     /\ more' = IF keepMore THEN more ELSE (more /\ ~r.fin)
                     /\ shown' = hp + tmp0'
  /\ UNCHANGED <<st, started, is_done, is_chunked, is_expect_continue, hp,
                 out, sent>>
MutZeroChunk == MutPrepareSourceChunked(TRUE, FALSE)
MutKeepMore == MutPrepareSourceChunked(FALSE, TRUE)

\* style::source, chunked, room for more than the chunked overhead: read
\* after an 18-byte gap into free - 7 bytes; on an error return it before
\* committing anything; else frame what was read as one chunk, and append
\* the last chunk when the source is finished.
PrepareSourceChunked ==
  /\ CanPrepare
  /\ ~is_expect_continue
  /\ st = "source" /\ more /\ is_chunked
  /\ Free > chunked_overhead
  /\ \E r \in ReadResults(Free - crlf_len - last_chunk_len - chunk_header_len) :
       LET chunk == IF r.b # 0 THEN FeedChunk(dec, r.b) ELSE dec
       IN  /\ srcRem' = srcRem - r.b
           /\ given' = given + r.b
           /\ IF r.err
                THEN /\ shown' = 0
                     /\ UNCHANGED <<more, tmp0, dec>>
                ELSE /\ tmp0' = tmp0
                                + (IF r.b # 0 THEN chunk_header_len + r.b + crlf_len ELSE 0)
                                + (IF r.fin THEN last_chunk_len ELSE 0)
                     /\ dec' = IF r.fin THEN FeedLast(chunk) ELSE chunk
                     /\ more' = (more /\ ~r.fin)
                     /\ shown' = hp + tmp0'
  /\ UNCHANGED <<st, started, is_done, is_chunked, is_expect_continue, hp,
                 out, sent>>

\* style::source with nothing to read (finished, or chunked and too full to
\* hold a chunk): the view is the header and tmp0.
PrepareSourceView ==
  /\ CanPrepare
  /\ ~is_expect_continue
  /\ st = "source"
  /\ ~more \/ (is_chunked /\ Free <= chunked_overhead)
  /\ shown' = hp + tmp0
  /\ UNCHANGED <<st, started, is_done, is_chunked, is_expect_continue, more,
                 hp, out, tmp0, srcRem, given, sent, dec>>

\* style::stream: need_data when tmp0 is empty and the body is not closed,
\* else the header and tmp0.
PrepareStream ==
  /\ CanPrepare
  /\ ~is_expect_continue
  /\ st = "stream"
  /\ shown' = IF tmp0 = 0 /\ more THEN 0 ELSE hp + tmp0
  /\ UNCHANGED <<st, started, is_done, is_chunked, is_expect_continue, more,
                 hp, out, tmp0, srcRem, given, sent, dec>>

Prepare ==
  \/ PrepareHeaderOnly
  \/ PrepareExpect100
  \/ PrepareBuffered
  \/ PrepareSourceIdentity
  \/ PrepareSourceChunked
  \/ PrepareSourceView
  \/ PrepareStream

-----------------------------------------------------------------------------
(* consume(n), for n no larger than the view the caller was last given.    *)

CanConsume(n) == started /\ ~is_done /\ n \in 0 .. shown

\* Expect: 100-continue: at most the header may be consumed.
ConsumeHeaderOnly(n) ==
  /\ CanConsume(n)
  /\ is_expect_continue
  /\ n <= hp
  /\ hp' = hp - n
  /\ shown' = shown - n
  /\ UNCHANGED <<st, started, is_done, is_chunked, is_expect_continue, more,
                 out, tmp0, srcRem, given, sent, dec>>

\* Part of the header: consume it and return.
ConsumeInHeader(n) ==
  /\ CanConsume(n)
  /\ ~is_expect_continue
  /\ n < hp
  /\ hp' = hp - n
  /\ shown' = shown - n
  /\ UNCHANGED <<st, started, is_done, is_chunked, is_expect_continue, more,
                 out, tmp0, srcRem, given, sent, dec>>

\* Mutant: body bytes counted without subtracting the header (fromHeader),
\* or is_done_ set on an empty tmp0 without looking at more_ (noMore).
MutConsumeBody(n, fromHeader, noMore) ==
  /\ CanConsume(n)
  /\ ~is_expect_continue
  /\ n >= hp
  /\ LET b == IF fromHeader THEN n ELSE n - hp IN
       /\ hp' = 0
       /\ shown' = shown - n
       /\ sent' = sent + b
       /\ IF st \in {"empty", "buffers"}
            THEN /\ out' = out - b
                 /\ is_done' = (out - b = 0)
                 /\ UNCHANGED tmp0
            ELSE /\ tmp0' = tmp0 - b
                 /\ is_done' = (tmp0 - b = 0 /\ (noMore \/ ~more))
                 /\ UNCHANGED out
  /\ UNCHANGED <<st, started, is_chunked, is_expect_continue, more, srcRem,
                 given, dec>>
MutConsumeBodyHeader(n) == MutConsumeBody(n, TRUE, FALSE)
MutConsumeBodyEarly(n) == MutConsumeBody(n, FALSE, TRUE)

\* The rest of the header and b = n - hp body bytes, taken from out_ (empty,
\* buffers) or tmp0_ (source, stream); then the is_done_ test of the style.
ConsumeBody(n) ==
  /\ CanConsume(n)
  /\ ~is_expect_continue
  /\ n >= hp
  /\ LET b == n - hp IN
       /\ hp' = 0
       /\ shown' = shown - n
       /\ sent' = sent + b
       /\ IF st \in {"empty", "buffers"}
            THEN /\ out' = out - b
                 /\ is_done' = (out - b = 0)
                 /\ UNCHANGED tmp0
            ELSE /\ tmp0' = tmp0 - b
                 /\ is_done' = (tmp0 - b = 0 /\ ~more)
                 /\ UNCHANGED out
  /\ UNCHANGED <<st, started, is_chunked, is_expect_continue, more, srcRem,
                 given, dec>>

Consume == \E n \in 0 .. shown :
  ConsumeHeaderOnly(n) \/ ConsumeInHeader(n) \/ ConsumeBody(n)

-----------------------------------------------------------------------------
(* The stream handle.  prepare() of the handle only computes a buffer; its  *)
(* size bounds the n of the commit(n) that follows it.  commit and close    *)
(* are the caller's while the body is open (more_).                         *)

\* stream::commit(n), identity: n of the free bytes of tmp0.
StreamCommitIdentity ==
  /\ st = "stream" /\ more /\ ~is_chunked
  /\ \E n \in 0 .. MinOf(Free, MaxBody - given) :
       /\ tmp0' = tmp0 + n
       /\ given' = given + n
       /\ dec' = Feed(dec, Data(n))
  /\ UNCHANGED <<st, started, is_done, is_chunked, is_expect_continue, more,
                 hp, out, shown, srcRem, sent>>

\* Mutant: stream::prepare() reserves one byte less than chunked_overhead.
MutStreamCommitChunked ==
  /\ st = "stream" /\ more /\ is_chunked
  /\ Free >= chunked_overhead
  /\ \E n \in 1 .. MinOf(Free - chunked_overhead + 1, MaxBody - given) :
       /\ tmp0' = tmp0 + chunk_header_len + n + crlf_len
       /\ given' = given + n
       /\ dec' = FeedChunk(dec, n)
  /\ UNCHANGED <<st, started, is_done, is_chunked, is_expect_continue, more,
                 hp, out, shown, srcRem, sent>>

\* stream::prepare() throws below chunked_overhead + 1 free bytes and else
\* offers free - chunked_overhead bytes; commit(n), n > 0, backfills the
\* chunk header before the n bytes and appends the chunk's CRLF.
StreamCommitChunked ==
  /\ st = "stream" /\ more /\ is_chunked
  /\ Free >= chunked_overhead + 1
  /\ \E n \in 1 .. MinOf(Free - chunked_overhead, MaxBody - given) :
       /\ tmp0' = tmp0 + chunk_header_len + n + crlf_len
       /\ given' = given + n
       /\ dec' = FeedChunk(dec, n)
  /\ UNCHANGED <<st, started, is_done, is_chunked, is_expect_continue, more,
                 hp, out, shown, srcRem, sent>>

\* Mutant: close() clears more_ but writes no last chunk.
MutStreamClose ==
  /\ st = "stream" /\ more
  /\ more' = FALSE
  /\ UNCHANGED <<st, started, is_done, is_chunked, is_expect_continue, hp,
                 out, tmp0, shown, srcRem, given, sent, dec>>

\* stream::close(): the last chunk when chunked, and more_ = false.
StreamClose ==
  /\ st = "stream" /\ more
  /\ tmp0' = tmp0 + (IF is_chunked THEN last_chunk_len ELSE 0)
  /\ dec' = IF is_chunked THEN FeedLast(dec) ELSE dec
  /\ more' = FALSE
  /\ UNCHANGED <<st, started, is_done, is_chunked, is_expect_continue, hp,
                 out, shown, srcRem, given, sent>>

-----------------------------------------------------------------------------

Start ==
  \E c, e \in BOOLEAN :
    \/ StartEmpty(c, e)
    \/ \E b \in BufferBodies : StartBuffers(c, e, b)
    \/ \E n \in 0 .. MaxBody : StartPull(c, e, "source", n)
    \/ StartPull(c, e, "stream", 0)

Next ==
  \/ Start
  \/ Reset
  \/ Prepare
  \/ Consume
  \/ StreamCommitIdentity
  \/ StreamCommitChunked
  \/ StreamClose

Spec == Init /\ [][Next]_vars

(***************************************************************************)
(* The caller's loop for one message: one start_*, then prepare/consume     *)
(* until is_done() (and, for a stream, commits and a close).  The loop     *)
(* keeps calling prepare and consume, and a stream caller eventually       *)
(* closes: weak fairness.  A source with bytes left eventually returns     *)
(* some, or finished, when given room: strong fairness on such a read.     *)
(***************************************************************************)
FirstStart == st = "none" /\ Start

ReadProgress ==
  /\ PrepareSourceIdentity \/ PrepareSourceChunked
  /\ srcRem' < srcRem \/ ~more'

DriverNext ==
  \/ FirstStart
  \/ Prepare
  \/ Consume
  \/ StreamCommitIdentity
  \/ StreamCommitChunked
  \/ StreamClose

Fairness ==
  /\ WF_vars(FirstStart)
  /\ WF_vars(Prepare)
  /\ WF_vars(Consume)
  /\ WF_vars(StreamClose)
  /\ SF_vars(ReadProgress)

LiveSpec == Init /\ [][DriverNext]_vars /\ Fairness

-----------------------------------------------------------------------------
(* Properties.                                                             *)

\* The type of every variable.
TypeOK ==
  /\ st \in Styles \cup {"none"}
  /\ started \in BOOLEAN
  /\ is_done \in BOOLEAN
  /\ is_chunked \in BOOLEAN
  /\ is_expect_continue \in BOOLEAN
  /\ more \in BOOLEAN
  /\ hp \in 0 .. HdrLen
  /\ out \in Nat
  /\ tmp0 \in Nat
  /\ shown \in Nat
  /\ srcRem \in 0 .. MaxBody
  /\ given \in Nat
  /\ sent \in Nat
  /\ dec \in [ph : Phases, left : Nat, body : Nat]

\* The bytes written after the header (the chunk-size lines, chunk data,
\* CRLFs and last chunk that start_*, prepare and stream commit/close put in
\* out_ and tmp0_) always form a prefix of a valid body for the framing in
\* force: no zero-size chunk before the end, no bytes after the last chunk,
\* no chunk whose size line disagrees with its data.
WireWellFormed == dec.ph # "bad"

\* Once consume() sets is_done_, the peer has received the whole message:
\* every body byte the source, the stream caller or the buffers handed over
\* was framed, the source was read to its end, and a chunked body was
\* terminated by its last chunk.
CompleteAtDone ==
  is_done => /\ dec.body = given
             /\ srcRem = 0
             /\ (is_chunked => dec.ph = "done")

\* No write into tmp0_ (a chunk framed by prepare on a source, a chunk or
\* the last chunk written by stream commit/close) needs more than its free
\* space: the reservations made by prepare and stream::prepare suffice.
NoTmp0Overflow == tmp0 <= WsSize

(***************************************************************************)
(* The inductive invariant behind NoTmp0Overflow.  A consume never takes   *)
(* more than the view holds, and the view never holds more than the       *)
(* header and the body bytes (ShownBound); an open chunked stream always   *)
(* has room left for the last chunk (LastChunkReserved), which is what     *)
(* makes stream::close() safe.                                             *)
(***************************************************************************)
ShownBound ==
  shown <= hp + (IF st \in {"empty", "buffers"} THEN out ELSE tmp0)

LastChunkReserved ==
  (st = "stream" /\ is_chunked /\ more) => tmp0 + last_chunk_len <= WsSize

IInv == TypeOK /\ NoTmp0Overflow /\ ShownBound /\ LastChunkReserved

\* Expect: 100-continue: while the flag is set (until prepare() has returned
\* expect_100_continue) the caller is shown nothing past the header, consumes
\* no body byte, and the source is not read; a stream caller may commit.
ExpectPausesBody ==
  [][is_expect_continue =>
       /\ shown' <= hp'
       /\ sent' <= sent
       /\ (st' = "source" => given' <= given)]_vars

\* A caller that keeps calling prepare and consume on a finite body reaches
\* is_done(): every style's consume() eventually sees its end condition.
Termination == <>is_done

-----------------------------------------------------------------------------
(***************************************************************************)
(* Refinement.  The serializer implements MessageStream.  The abstract     *)
(* phase is read off started_, is_done_ and more_ (open while the body may *)
(* still yield bytes); with no message started nothing is in flight; else  *)
(* the header bytes left are hp, the body bytes given are the ghost count  *)
(* given, and the bytes taken are the body the peer's decoder has got.     *)
(***************************************************************************)

AbsPhase ==
  IF ~started THEN "idle"
  ELSE IF is_done THEN "done"
  ELSE IF more THEN "open" ELSE "closed"

AbsHdr == IF started THEN hp ELSE 0

AbsGiven == IF started THEN given ELSE 0

IdAbsTaken == IF started THEN dec.body ELSE 0

IdAbs == INSTANCE MessageStream
           WITH phase <- AbsPhase, hdr <- AbsHdr, inB <- AbsGiven,
                outB <- IdAbsTaken

\* Every step of the serializer is a step of MessageStream: the peer gets
\* no body byte before the source, the stream caller or the buffers hand
\* it over, the body closes (more_ = false) once per message, and
\* consume() sets is_done_ only with the body closed, every byte given
\* framed and the header consumed.
IdRefinesMessageStream == IdAbs!Spec
====
