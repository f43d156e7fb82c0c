----------------------------- MODULE WireProofs -----------------------------
(***************************************************************************)
(* Proofs that the identity serializer writes a well-formed body and that  *)
(* is_done_ comes only with the whole message out (WireWellFormed,         *)
(* CompleteAtDone), and that Expect: 100-continue holds the body back      *)
(* (ExpectPausesBody), for every value of the constants.                   *)
(*                                                                         *)
(* None of the three is inductive.  The decoder is fed only while more_ is *)
(* set, and then it waits at a chunk boundary (FPhase of Framed); between  *)
(* two pieces it is never left inside a chunk (Settled); a started message *)
(* whose body is closed has read its source to the end and, when chunked, *)
(* written the last chunk (Closed); and while the expect flag is set the   *)
(* view holds at most the header (ExpectShown).                            *)
(***************************************************************************)
EXTENDS RefinementProofs

\* The decoder is never left in the middle of a chunk or past an error.
Settled == dec.ph \in {"ident", "size", "done"}

\* A started message whose body can yield no more bytes has drained its
\* source and, when chunked, sent the last chunk.
Closed ==
  started /\ ~more => srcRem = 0 /\ (is_chunked => dec.ph = "done")

\* A stream message has no source to read.
StreamNoSource == st = "stream" => srcRem = 0

\* is_done_ is only ever set on a started message.
DoneStarted == is_done => started

\* While the expect flag is set, the view is at most the header.
ExpectShown == is_expect_continue => shown <= hp

Wired == FOpen /\ FPhase /\ Settled /\ Closed /\ StreamNoSource /\ DoneStarted

WInv == IInv /\ Wired

-----------------------------------------------------------------------------
(* The last chunk, fed at a chunk boundary, ends the body.                 *)

LEMMA FeedLastDone ==
  ASSUME NEW d \in DecType, d.ph = "size"
  PROVE  FeedLast(d) \in DecType /\ FeedLast(d).ph = "done"
<1>1. Line(0).k = "line" /\ Line(0).n = 0 /\ Crlf.k = "crlf" /\ Crlf.n = 0
  BY DEF Line, Crlf
<1>2. Feed(d, Line(0)) = [d EXCEPT !.ph = "trailer", !.left = 0]
  BY <1>1, Zenon DEF Feed, DecType
<1>3. PICK t \in DecType : t = Feed(d, Line(0)) /\ t.ph = "trailer"
  BY <1>2, Zenon DEF DecType, Phases
<1>4. Feed(t, Crlf) = [t EXCEPT !.ph = "done"]
  BY <1>1, <1>3 DEF Feed, DecType
<1>5. QED
  BY <1>3, <1>4 DEF FeedLast, DecType, Phases
-----------------------------------------------------------------------------
(* Wired is preserved by every step.  Its clauses are proved one action    *)
(* after the other; the decoder is only ever fed while more_ is set.       *)

\* The initial state: nothing started, an identity decoder.
LEMMA InitWired == Init => Wired
BY DEF Init, DecInit, Wired, FOpen, FPhase, Settled, Closed, StreamNoSource,
       DoneStarted

\* A start_* gives a fresh decoder that is either waiting for the body
\* (source, stream) or already holds the whole body and its last chunk
\* (empty, buffers).  A chunked buffers body must not be empty (finding 1).
LEMMA StartWired ==
  ASSUME 0 \notin BufferBodies, Start
  PROVE  Wired'
<1>1. PICK c \in BOOLEAN, e \in BOOLEAN :
        \/ StartEmpty(c, e)
        \/ \E b \in BufferBodies : StartBuffers(c, e, b)
        \/ \E n \in 0 .. MaxBody : StartPull(c, e, "source", n)
        \/ StartPull(c, e, "stream", 0)
  BY DEF Start
<1>2. DecInit(c) \in DecType /\ DecInit(c).ph = IF c THEN "size" ELSE "ident"
  BY DecInitFacts
<1>3. CASE StartEmpty(c, e)
  <2>1. c => dec'.ph = "done"
    BY <1>2, <1>3, FeedLastDone, Zenon DEF StartEmpty
  <2>2. ~c => dec'.ph = "ident"
    BY <1>2, <1>3 DEF StartEmpty
  <2>3. QED
    BY <1>3, <2>1, <2>2 DEF StartEmpty, StartInit, Wired, FOpen, FPhase,
          Settled, Closed, StreamNoSource, DoneStarted
<1>4. CASE \E b \in BufferBodies : StartBuffers(c, e, b)
  <2>1. PICK b \in BufferBodies : StartBuffers(c, e, b)
    BY <1>4
  <2>2. b \in Nat \ {0}
    BY Assumption
  <2>3. c => dec'.ph = "done"
    <3> SUFFICES ASSUME c PROVE dec'.ph = "done"
      OBVIOUS
    <3>1. FeedChunk(DecInit(c), b) \in DecType
          /\ FeedChunk(DecInit(c), b).ph = "size"
      BY <1>2, <2>2, FeedChunkSize, Zenon
    <3>2. QED
      BY <2>1, <3>1, FeedLastDone, Zenon DEF StartBuffers
  <2>4. ~c => dec'.ph = "ident"
    BY <1>2, <2>1, <2>2, FeedIdent DEF StartBuffers
  <2>5. QED
    BY <2>1, <2>3, <2>4 DEF StartBuffers, StartInit, Wired, FOpen, FPhase,
          Settled, Closed, StreamNoSource, DoneStarted
<1>5. CASE \E n \in 0 .. MaxBody : StartPull(c, e, "source", n)
  BY <1>2, <1>5 DEF StartPull, StartInit, Wired, FOpen, FPhase, Settled,
        Closed, StreamNoSource, DoneStarted
<1>6. CASE StartPull(c, e, "stream", 0)
  BY <1>2, <1>6 DEF StartPull, StartInit, Wired, FOpen, FPhase, Settled,
        Closed, StreamNoSource, DoneStarted
<1>7. QED
  BY <1>1, <1>3, <1>4, <1>5, <1>6

\* reset() forgets the message and feeds nothing.
LEMMA ResetWired ==
  ASSUME Wired, Reset
  PROVE  Wired'
BY DEF Reset, Wired, FOpen, FPhase, Settled, Closed, StreamNoSource,
       DoneStarted

\* The views prepare() computes feed nothing.
LEMMA PrepareViewWired ==
  ASSUME Wired,
         \/ PrepareHeaderOnly \/ PrepareExpect100 \/ PrepareBuffered
         \/ PrepareSourceView \/ PrepareStream
  PROVE  Wired'
BY DEF PrepareHeaderOnly, PrepareExpect100, PrepareBuffered,
       PrepareSourceView, PrepareStream, Wired, FOpen, FPhase, Settled,
       Closed, StreamNoSource, DoneStarted

\* An identity read feeds its bytes as they are; more_ is cleared only by
\* a finished read, which returns the source's last bytes.
LEMMA SourceIdentityWired ==
  ASSUME IInv, Wired, PrepareSourceIdentity
  PROVE  Wired'
<1>0. dec \in DecType /\ srcRem \in Nat
  BY DecTypeOK DEF IInv, TypeOK
<1>1. PICK r \in ReadResults(Free) :
        /\ srcRem' = srcRem - r.b
        /\ dec' = Feed(dec, Data(r.b))
        /\ more' = IF r.err THEN more ELSE ~r.fin
  BY Zenon DEF PrepareSourceIdentity
<1>2. /\ r.b \in Nat /\ r.fin \in BOOLEAN /\ r.err \in BOOLEAN
      /\ (r.fin => r.b = srcRem /\ ~r.err)
  <2>1. Free \in Nat
    BY Assumption DEF IInv, TypeOK, NoTmp0Overflow, Free
  <2>2. QED
    BY <1>0, <2>1 DEF ReadResults, MinOf
<1>3. /\ more /\ ~is_chunked /\ st = "source"
      /\ UNCHANGED <<st, started, is_done, is_chunked>>
  BY DEF PrepareSourceIdentity
<1>4. dec'.ph = "ident"
  BY <1>0, <1>1, <1>2, <1>3, FeedIdent DEF Wired, FPhase
<1>5. ~more' => srcRem' = 0
  <2>1. CASE r.err
    BY <1>1, <1>3, <2>1
  <2>2. CASE ~r.err
    <3>1. more' = ~r.fin
      BY <1>1, <2>2, Zenon
    <3>2. ~more' => r.fin
      BY <1>2, <3>1, Zenon
    <3>3. r.fin => srcRem' = 0
      <4>1. srcRem' = srcRem - r.b
        BY <1>1, Zenon
      <4>2. QED
        BY <1>0, <1>2, <4>1
    <3>4. QED
      BY <3>2, <3>3
  <2>3. QED
    BY <2>1, <2>2
<1>6. QED
  BY <1>3, <1>4, <1>5 DEF Wired, FOpen, FPhase, Settled, Closed,
        StreamNoSource, DoneStarted

\* A chunked read feeds one whole chunk (none for an empty read), then the
\* last chunk when the source is finished; on an error it feeds nothing.
LEMMA SourceChunkedWired ==
  ASSUME IInv, Wired, PrepareSourceChunked
  PROVE  Wired'
<1>0. dec \in DecType /\ srcRem \in Nat
  BY DecTypeOK DEF IInv, TypeOK
<1> DEFINE D == Free - crlf_len - last_chunk_len - chunk_header_len
<1>1. PICK r \in ReadResults(D) :
        LET chunk == IF r.b # 0 THEN FeedChunk(dec, r.b) ELSE dec
        IN  /\ srcRem' = srcRem - r.b
            /\ IF r.err
                 THEN UNCHANGED <<more, dec>>
                 ELSE /\ dec' = IF r.fin THEN FeedLast(chunk) ELSE chunk
                      /\ more' = (more /\ ~r.fin)
  BY Zenon DEF PrepareSourceChunked, D
<1> DEFINE chunk == IF r.b # 0 THEN FeedChunk(dec, r.b) ELSE dec
<1>2. /\ r.b \in Nat /\ r.fin \in BOOLEAN /\ r.err \in BOOLEAN
      /\ (r.fin => r.b = srcRem /\ ~r.err)
  <2>1. D \in Nat
    BY Assumption DEF PrepareSourceChunked, IInv, TypeOK, NoTmp0Overflow,
          Free, D, chunked_overhead, crlf_len, last_chunk_len,
          chunk_header_len
  <2>2. QED
    BY <1>0, <2>1 DEF ReadResults, MinOf
<1>3. /\ more /\ is_chunked /\ st = "source"
      /\ UNCHANGED <<st, started, is_done, is_chunked>>
  BY DEF PrepareSourceChunked
<1>4. dec.ph = "size"
  BY <1>3 DEF Wired, FPhase
<1>5. chunk \in DecType /\ chunk.ph = "size"
  <2>1. CASE r.b # 0
    BY <1>0, <1>2, <1>4, <2>1, FeedChunkSize DEF chunk
  <2>2. CASE r.b = 0
    BY <1>0, <1>4, <2>2 DEF chunk
  <2>3. QED
    BY <2>1, <2>2
<1>6. /\ more' => dec'.ph = "size"
      /\ ~more' => dec'.ph = "done" /\ srcRem' = 0
      /\ dec'.ph \in {"size", "done"}
  <2>1. CASE r.err
    <3>1. more' = more /\ dec' = dec
      BY <1>1, <2>1, Zenon
    <3>2. QED
      BY <1>3, <1>4, <3>1
  <2>2. CASE ~r.err /\ r.fin
    <3>1. dec' = FeedLast(chunk) /\ more' = FALSE /\ srcRem' = srcRem - r.b
      BY <1>1, <2>2, Zenon DEF chunk
    <3>2. QED
      BY <1>0, <1>2, <1>5, <2>2, <3>1, FeedLastDone
  <2>3. CASE ~r.err /\ ~r.fin
    <3>1. dec' = chunk /\ more' = more
      BY <1>1, <2>3, <1>3, Zenon DEF chunk
    <3>2. QED
      BY <1>3, <1>5, <3>1
  <2>4. QED
    BY <2>1, <2>2, <2>3
<1>7. QED
  BY <1>3, <1>6 DEF Wired, FOpen, FPhase, Settled, Closed, StreamNoSource,
        DoneStarted

\* consume() feeds nothing, and sets is_done_ only on a started message
\* whose body is closed.
LEMMA ConsumeWired ==
  ASSUME Wired, Consume
  PROVE  Wired'
<1>1. PICK n \in 0 .. shown :
        ConsumeHeaderOnly(n) \/ ConsumeInHeader(n) \/ ConsumeBody(n)
  BY DEF Consume
<1>2. CASE ConsumeHeaderOnly(n) \/ ConsumeInHeader(n)
  BY <1>2 DEF ConsumeHeaderOnly, ConsumeInHeader, Wired, FOpen, FPhase,
        Settled, Closed, StreamNoSource, DoneStarted
<1>3. CASE ConsumeBody(n)
  <2>1. UNCHANGED <<st, started, is_chunked, more, srcRem, dec>> /\ started
    BY <1>3 DEF ConsumeBody, CanConsume
  <2>2. is_done' => ~more
    <3>1. CASE st \in {"empty", "buffers"}
      BY <3>1 DEF Wired, FOpen
    <3>2. CASE st \notin {"empty", "buffers"}
      BY <1>3, <3>2, Zenon DEF ConsumeBody
    <3>3. QED
      BY <3>1, <3>2
  <2>3. QED
    BY <2>1, <2>2 DEF Wired, FOpen, FPhase, Settled, Closed,
          StreamNoSource, DoneStarted
<1>4. QED
  BY <1>1, <1>2, <1>3

\* A commit feeds data (identity) or one whole chunk of n > 0 bytes.
LEMMA CommitWired ==
  ASSUME IInv, Wired, StreamCommitIdentity \/ StreamCommitChunked
  PROVE  Wired'
<1>0. dec \in DecType /\ given \in Nat
  BY DecTypeOK DEF IInv, TypeOK
<1>1. CASE StreamCommitIdentity
  <2>1. PICK n \in 0 .. MinOf(Free, MaxBody - given) :
          dec' = Feed(dec, Data(n))
    BY <1>1 DEF StreamCommitIdentity
  <2>2. n \in Nat
    BY Assumption DEF MinOf
  <2>3. /\ more /\ ~is_chunked
        /\ UNCHANGED <<st, started, is_done, is_chunked, more, srcRem>>
    BY <1>1 DEF StreamCommitIdentity
  <2>4. dec'.ph = "ident"
    BY <1>0, <2>1, <2>2, <2>3, FeedIdent DEF Wired, FPhase
  <2>5. QED
    BY <2>3, <2>4 DEF Wired, FOpen, FPhase, Settled, Closed,
          StreamNoSource, DoneStarted
<1>2. CASE StreamCommitChunked
  <2>1. PICK n \in 1 .. MinOf(Free - chunked_overhead, MaxBody - given) :
          dec' = FeedChunk(dec, n)
    BY <1>2 DEF StreamCommitChunked
  <2>2. n \in Nat \ {0}
    BY Assumption DEF MinOf
  <2>3. /\ more /\ is_chunked
        /\ UNCHANGED <<st, started, is_done, is_chunked, more, srcRem>>
    BY <1>2 DEF StreamCommitChunked
  <2>4. dec'.ph = "size"
    BY <1>0, <2>1, <2>2, <2>3, FeedChunkSize DEF Wired, FPhase
  <2>5. QED
    BY <2>3, <2>4 DEF Wired, FOpen, FPhase, Settled, Closed,
          StreamNoSource, DoneStarted
<1>3. QED
  BY <1>1, <1>2

\* stream::close() ends a chunked body with the last chunk; a stream has
\* no source left to read.
LEMMA CloseWired ==
  ASSUME IInv, Wired, StreamClose
  PROVE  Wired'
<1>0. dec \in DecType
  BY DecTypeOK DEF IInv
<1>1. /\ st = "stream" /\ more /\ more' = FALSE
      /\ UNCHANGED <<st, started, is_done, is_chunked, srcRem>>
  BY DEF StreamClose
<1>2. is_chunked => dec'.ph = "done"
  BY <1>0, <1>1, FeedLastDone DEF StreamClose, Wired, FPhase
<1>3. ~is_chunked => dec' = dec
  BY DEF StreamClose
<1>4. QED
  BY <1>1, <1>2, <1>3 DEF Wired, FOpen, FPhase, Settled, Closed,
        StreamNoSource, DoneStarted

\* Every step preserves Wired when no chunked buffers body is empty.
LEMMA NextWired ==
  ASSUME 0 \notin BufferBodies, IInv, Wired, [Next]_vars
  PROVE  Wired'
<1>1. CASE Start
  BY <1>1, StartWired
<1>2. CASE Reset
  BY <1>2, ResetWired
<1>3. CASE Prepare
  BY <1>3, PrepareViewWired, SourceIdentityWired, SourceChunkedWired
     DEF Prepare
<1>4. CASE Consume
  BY <1>4, ConsumeWired
<1>5. CASE StreamCommitIdentity \/ StreamCommitChunked
  BY <1>5, CommitWired
<1>6. CASE StreamClose
  BY <1>6, CloseWired
<1>7. CASE UNCHANGED vars
  BY <1>7 DEF vars, Wired, FOpen, FPhase, Settled, Closed, StreamNoSource,
        DoneStarted
<1>8. QED
  BY <1>1, <1>2, <1>3, <1>4, <1>5, <1>6, <1>7 DEF Next

\* When start_buffers is never given an empty body, IInv and Wired hold in
\* every reachable state, whatever source::read returns with an error.
THEOREM WInvHolds ==
  ASSUME 0 \notin BufferBodies
  PROVE  Spec => []WInv
<1>1. Init => WInv
  BY InitIInv, InitWired DEF WInv
<1>2. WInv /\ [Next]_vars => WInv'
  BY NextIInv, NextWired DEF WInv
<1>3. QED
  BY <1>1, <1>2, PTL DEF Spec

\* WireWellFormed: the framing written after the header (by start_*,
\* prepare on a source, stream commit and close) is always a prefix of a
\* valid body, for every workspace, header length and body bound, when no
\* chunked buffers body is empty (the run zero_body shows that one).
THEOREM WireWellFormedHolds ==
  ASSUME 0 \notin BufferBodies
  PROVE  Spec => []WireWellFormed
<1>1. WInv => WireWellFormed
  BY DEF WInv, Wired, Settled, WireWellFormed
<1>2. QED
  BY <1>1, WInvHolds, PTL

\* CompleteAtDone: when consume() sets is_done_, every body byte handed
\* over was framed, the source was read to its end and a chunked body was
\* terminated; for every value of the constants when source::read returns
\* no bytes with an error (the run read_error shows such a read losing
\* bytes) and no chunked buffers body is empty.
THEOREM CompleteAtDoneHolds ==
  ASSUME ~PartialErrorReads, 0 \notin BufferBodies
  PROVE  Spec => []CompleteAtDone
<1>1. WInv /\ Framed => CompleteAtDone
  <2> SUFFICES ASSUME WInv, Framed, is_done
               PROVE  /\ dec.body = given
                      /\ srcRem = 0
                      /\ (is_chunked => dec.ph = "done")
    BY DEF CompleteAtDone
  <2>1. started /\ ~more
    BY DEF WInv, Wired, DoneStarted, FOpen
  <2>2. QED
    BY <2>1 DEF WInv, Wired, Closed, Framed, FBody
<1>2. QED
  BY <1>1, WInvHolds, FramedHolds, PTL

-----------------------------------------------------------------------------
(* Expect: 100-continue.  ExpectShown with IInv is inductive on its own,   *)
(* for every value of the constants.                                       *)

LEMMA InitExpect == Init => ExpectShown
BY DEF Init, ExpectShown

LEMMA NextExpect ==
  ASSUME IInv, ExpectShown, [Next]_vars
  PROVE  ExpectShown'
<1>0. hp \in Nat /\ shown \in Nat
  BY DEF IInv, TypeOK
<1>1. CASE Start
  <2>1. shown' = 0 /\ hp' = HdrLen
    BY <1>1 DEF Start, StartEmpty, StartBuffers, StartPull, StartInit
  <2>2. QED
    BY <2>1, Assumption DEF ExpectShown
<1>2. CASE Reset
  BY <1>2 DEF Reset, ExpectShown
<1>3. CASE Prepare
  <2>1. CASE PrepareHeaderOnly
    <3>1. shown' = hp /\ hp' = hp
      BY <2>1 DEF PrepareHeaderOnly
    <3>2. QED
      BY <1>0, <3>1 DEF ExpectShown
  <2>2. CASE PrepareExpect100
    BY <2>2 DEF PrepareExpect100, ExpectShown
  <2>3. CASE \/ PrepareBuffered \/ PrepareSourceIdentity
             \/ PrepareSourceChunked \/ PrepareSourceView \/ PrepareStream
    <3>1. ~is_expect_continue /\ is_expect_continue' = is_expect_continue
      BY <2>3, Zenon DEF PrepareBuffered, PrepareSourceIdentity,
            PrepareSourceChunked, PrepareSourceView, PrepareStream
    <3>2. QED
      BY <3>1 DEF ExpectShown
  <2>4. QED
    BY <1>3, <2>1, <2>2, <2>3 DEF Prepare
<1>4. CASE Consume
  <2>1. PICK n \in 0 .. shown :
          ConsumeHeaderOnly(n) \/ ConsumeInHeader(n) \/ ConsumeBody(n)
    BY <1>4 DEF Consume
  <2>2. CASE ConsumeHeaderOnly(n)
    BY <1>0, <2>2 DEF ConsumeHeaderOnly, ExpectShown
  <2>3. CASE ConsumeInHeader(n) \/ ConsumeBody(n)
    BY <2>3, Zenon DEF ConsumeInHeader, ConsumeBody, ExpectShown
  <2>4. QED
    BY <2>1, <2>2, <2>3
<1>5. CASE StreamCommitIdentity \/ StreamCommitChunked \/ StreamClose
  BY <1>5, Zenon DEF StreamCommitIdentity, StreamCommitChunked, StreamClose,
        ExpectShown
<1>6. CASE UNCHANGED vars
  BY <1>6 DEF vars, ExpectShown
<1>7. QED
  BY <1>1, <1>2, <1>3, <1>4, <1>5, <1>6 DEF Next

\* ExpectPausesBody: while is_expect_continue_ is set, prepare() shows
\* nothing past the header, consume() takes no body byte and the source is
\* not read, for every value of the constants.
THEOREM ExpectPausesBodyHolds == Spec => ExpectPausesBody
<1>1. Init => IInv /\ ExpectShown
  BY InitIInv, InitExpect
<1>2. IInv /\ ExpectShown /\ [Next]_vars => (IInv /\ ExpectShown)'
  BY NextIInv, NextExpect
<1>3. IInv /\ ExpectShown /\ [Next]_vars
      => [is_expect_continue =>
            /\ shown' <= hp'
            /\ sent' <= sent
            /\ (st' = "source" => given' <= given)]_vars
  <2> SUFFICES ASSUME IInv, ExpectShown, [Next]_vars, is_expect_continue
               PROVE  /\ shown' <= hp'
                      /\ sent' <= sent
                      /\ (st' = "source" => given' <= given)
    OBVIOUS
  <2>0. hp \in Nat /\ shown \in Nat /\ sent \in Nat /\ given \in Nat
        /\ shown <= hp
    BY DEF IInv, TypeOK, ExpectShown
  <2>1. CASE Start
    <3>1. PICK c \in BOOLEAN, e \in BOOLEAN :
            \/ StartEmpty(c, e)
            \/ \E b \in BufferBodies : StartBuffers(c, e, b)
            \/ \E n \in 0 .. MaxBody : StartPull(c, e, "source", n)
            \/ StartPull(c, e, "stream", 0)
      BY <2>1 DEF Start
    <3>2. shown' = 0 /\ hp' = HdrLen /\ sent' = 0
      BY <3>1 DEF StartEmpty, StartBuffers, StartPull, StartInit
    <3>3. st' = "source" => given' = 0
      BY <3>1 DEF StartEmpty, StartBuffers, StartPull
    <3>4. QED
      BY <2>0, <3>2, <3>3, Assumption
  <2>2. CASE Reset
    BY <2>0, <2>2 DEF Reset
  <2>3. CASE Prepare
    <3>1. CASE PrepareHeaderOnly \/ PrepareExpect100
      <4>1. /\ shown' \in {hp, 0} /\ hp' = hp
            /\ sent' = sent /\ st' = st /\ given' = given
        BY <3>1, Zenon DEF PrepareHeaderOnly, PrepareExpect100
      <4>2. QED
        BY <2>0, <4>1
    <3>2. CASE \/ PrepareBuffered \/ PrepareSourceIdentity
               \/ PrepareSourceChunked \/ PrepareSourceView \/ PrepareStream
      BY <3>2 DEF PrepareBuffered, PrepareSourceIdentity,
            PrepareSourceChunked, PrepareSourceView, PrepareStream
    <3>3. QED
      BY <2>3, <3>1, <3>2 DEF Prepare
  <2>4. CASE Consume
    <3>1. PICK n \in 0 .. shown :
            ConsumeHeaderOnly(n) \/ ConsumeInHeader(n) \/ ConsumeBody(n)
      BY <2>4 DEF Consume
    <3>2. CASE ConsumeHeaderOnly(n)
      BY <2>0, <3>2 DEF ConsumeHeaderOnly
    <3>3. CASE ConsumeInHeader(n) \/ ConsumeBody(n)
      BY <3>3 DEF ConsumeInHeader, ConsumeBody
    <3>4. QED
      BY <3>1, <3>2, <3>3
  <2>5. CASE StreamCommitIdentity \/ StreamCommitChunked \/ StreamClose
    <3>1. /\ shown' = shown /\ hp' = hp /\ sent' = sent
          /\ st = "stream" /\ st' = st
      BY <2>5, Zenon DEF StreamCommitIdentity, StreamCommitChunked,
            StreamClose
    <3>2. QED
      BY <2>0, <3>1
  <2>6. CASE UNCHANGED vars
    BY <2>0, <2>6 DEF vars
  <2>7. QED
    BY <2>1, <2>2, <2>3, <2>4, <2>5, <2>6 DEF Next
<1>4. QED
  BY <1>1, <1>2, <1>3, PTL DEF Spec, ExpectPausesBody

=============================================================================
