------------------------- MODULE RefinementProofs --------------------------
(***************************************************************************)
(* Proof that Serializer implements MessageStream under the mapping IdAbs, *)
(* for every workspace, header length and body bound, when source::read    *)
(* returns no bytes together with an error (~PartialErrorReads; with such  *)
(* reads, the bytes are counted as given and never framed: see the run     *)
(* read_error).                                                            *)
(*                                                                         *)
(* The argument rests on Framed, an invariant of the peer's decoder: while *)
(* a message is started the decoder has received exactly the body bytes    *)
(* handed over, and while the body is open it is at a chunk boundary (or   *)
(* in identity mode), so the next chunk, or the last chunk, is decoded as  *)
(* it is meant to be.                                                      *)
(***************************************************************************)
EXTENDS SerializerProofs

-----------------------------------------------------------------------------
(* What the peer's decoder does with the pieces the serializer writes.     *)

\* A size line or a CRLF never changes the body the decoder has received.
LEMMA FeedBodyNonData ==
  ASSUME NEW d \in DecType, NEW p \in PieceType, p.k # "data"
  PROVE  Feed(d, p).body = d.body
BY DEF Feed, DecType, PieceType

\* Zero data bytes change nothing of the body, whatever the phase.
LEMMA FeedBodyDataZero ==
  ASSUME NEW d \in DecType
  PROVE  Feed(d, Data(0)).body = d.body
BY DEF Feed, Data, DecType

\* Neither a chunk of zero bytes nor the last chunk adds to the body.
LEMMA FeedChunkZeroLastBody ==
  ASSUME NEW d \in DecType
  PROVE  /\ FeedChunk(d, 0).body = d.body
         /\ FeedLast(d).body = d.body
<1>1. Line(0) \in PieceType /\ Crlf \in PieceType /\ Data(0) \in PieceType
  BY DEF Line, Crlf, Data, PieceType
<1>2. Feed(d, Line(0)) \in DecType /\ Feed(d, Line(0)).body = d.body
  BY <1>1, FeedType, FeedBodyNonData DEF Line
<1>3. Feed(Feed(d, Line(0)), Data(0)) \in DecType
      /\ Feed(Feed(d, Line(0)), Data(0)).body = d.body
  BY <1>1, <1>2, FeedType, FeedBodyDataZero
<1>4. FeedChunk(d, 0).body = d.body
  BY <1>1, <1>3, FeedBodyNonData DEF FeedChunk, Crlf
<1>5. FeedLast(d).body = d.body
  BY <1>1, <1>2, FeedBodyNonData DEF FeedLast, Crlf
<1>6. QED
  BY <1>4, <1>5

\* In identity mode every data byte reaches the body.
LEMMA FeedIdent ==
  ASSUME NEW d \in DecType, d.ph = "ident", NEW n \in Nat
  PROVE  /\ Feed(d, Data(n)).ph = "ident"
         /\ Feed(d, Data(n)).body = d.body + n
BY DEF Feed, Data, DecType

\* The three pieces of a chunk of n > 0 bytes, one phase after the other.
LEMMA FeedLineStep ==
  ASSUME NEW d \in DecType, d.ph = "size", NEW n \in Nat \ {0}
  PROVE  /\ Feed(d, Line(n)) \in DecType
         /\ Feed(d, Line(n)).ph = "data"
         /\ Feed(d, Line(n)).left = n
         /\ Feed(d, Line(n)).body = d.body
BY Zenon DEF Feed, Line, DecType, Phases

LEMMA FeedDataStep ==
  ASSUME NEW d \in DecType, d.ph = "data", NEW n \in Nat \ {0}, d.left = n
  PROVE  /\ Feed(d, Data(n)) \in DecType
         /\ Feed(d, Data(n)).ph = "crlf"
         /\ Feed(d, Data(n)).body = d.body + n
<1>1. Data(n).k = "data" /\ Data(n).n = n
  BY DEF Data
<1>2. /\ ~(Data(n).k = "data" /\ Data(n).n = 0)
      /\ ~(d.ph = "ident" /\ Data(n).k = "data")
      /\ ~(d.ph = "size" /\ Data(n).k = "line")
      /\ d.ph = "data" /\ Data(n).k = "data" /\ Data(n).n <= d.left
      /\ ~(d.ph = "crlf" /\ Data(n).k = "crlf")
      /\ ~(d.ph = "trailer" /\ Data(n).k = "crlf")
  BY <1>1 DEF DecType
<1>4. Feed(d, Data(n)) = [d EXCEPT !.ph = IF Data(n).n = d.left THEN "crlf" ELSE "data",
                             !.left = @ - Data(n).n, !.body = @ + Data(n).n]
  BY <1>2 DEF Feed, DecType
<1>5. Feed(d, Data(n)).ph = "crlf" /\ Feed(d, Data(n)).body = d.body + n
  BY <1>1, <1>4 DEF DecType
<1>6. Feed(d, Data(n)) \in DecType
  <2>1. d.left - Data(n).n \in Nat /\ d.body + Data(n).n \in Nat
    BY <1>1 DEF DecType
  <2>2. QED
    BY <1>4, <2>1, Zenon DEF DecType, Phases
<1>7. QED
  BY <1>5, <1>6

LEMMA FeedCrlfStep ==
  ASSUME NEW d \in DecType, d.ph = "crlf"
  PROVE  /\ Feed(d, Crlf) \in DecType
         /\ Feed(d, Crlf).ph = "size"
         /\ Feed(d, Crlf).body = d.body
BY DEF Feed, Crlf, DecType, Phases

\* At a chunk boundary a chunk of n > 0 bytes is decoded whole and leaves
\* the decoder at the next chunk boundary.
LEMMA FeedChunkSize ==
  ASSUME NEW d \in DecType, d.ph = "size", NEW n \in Nat \ {0}
  PROVE  /\ FeedChunk(d, n) \in DecType
         /\ FeedChunk(d, n).ph = "size"
         /\ FeedChunk(d, n).body = d.body + n
<1>1. PICK d1 \in DecType : d1 = Feed(d, Line(n))
  BY FeedLineStep
<1>2. d1.ph = "data" /\ d1.left = n /\ d1.body = d.body
  BY <1>1, FeedLineStep
<1>3. PICK d2 \in DecType : d2 = Feed(d1, Data(n))
  BY <1>1, <1>2, FeedDataStep
<1>4. d2.ph = "crlf" /\ d2.body = d.body + n
  BY <1>1, <1>2, <1>3, FeedDataStep
<1>5. FeedChunk(d, n) = Feed(d2, Crlf)
  BY <1>1, <1>3 DEF FeedChunk
<1>6. QED
  BY <1>3, <1>4, <1>5, FeedCrlfStep

-----------------------------------------------------------------------------
(* The invariant.  The body is open only for a started source or stream    *)
(* message that is not done; a started message's decoder has received all *)
(* the bytes given; an open body's decoder waits at a chunk boundary (or   *)
(* takes data as it comes, in identity mode); and no more is given than    *)
(* MaxBody, a source's bytes included.                                     *)

FOpen == more => started /\ st \in {"source", "stream"} /\ ~is_done

FBody == started => dec.body = given

FPhase == more => dec.ph = IF is_chunked THEN "size" ELSE "ident"

FGiven == given <= MaxBody /\ (st = "source" => given + srcRem <= MaxBody)

Framed == FOpen /\ FBody /\ FPhase /\ FGiven

RInv == IInv /\ Framed


\* The decoder a message starts with has received nothing.
LEMMA DecInitFacts ==
  ASSUME NEW c \in BOOLEAN
  PROVE  /\ DecInit(c) \in DecType
         /\ DecInit(c).body = 0
         /\ DecInit(c).ph = IF c THEN "size" ELSE "ident"
BY DEF DecInit, DecType, Phases

LEMMA InitFramed == Init => Framed
<1> SUFFICES ASSUME Init PROVE Framed
  OBVIOUS
<1>2. MaxBody \in Nat
  BY Assumption
<1>3. FOpen /\ FBody /\ FPhase
  BY Zenon DEF Init, FOpen, FBody, FPhase
<1>4. FGiven
  BY <1>2 DEF Init, FGiven
<1>5. QED
  BY <1>3, <1>4 DEF Framed

\* Each start_* hands over its body and frames all of it.
LEMMA StartFramed ==
  ASSUME Start
  PROVE  Framed'
<1>1. PICK c \in BOOLEAN, e \in BOOLEAN :
        \/ StartEmpty(c, e)
        \/ \E b \in BufferBodies : StartBuffers(c, e, b)
        \/ \E n \in 0 .. MaxBody : StartPull(c, e, "source", n)
        \/ StartPull(c, e, "stream", 0)
  BY DEF Start
<1>2. DecInit(c) \in DecType /\ DecInit(c).body = 0
      /\ DecInit(c).ph = IF c THEN "size" ELSE "ident"
  BY DecInitFacts
<1>3. CASE StartEmpty(c, e)
  <2>1. dec'.body = 0
    BY <1>2, <1>3, FeedChunkZeroLastBody DEF StartEmpty
  <2>2. QED
    BY <1>3, <2>1, Assumption
       DEF StartEmpty, StartInit, Framed, FOpen, FBody, FPhase, FGiven
<1>4. CASE \E b \in BufferBodies : StartBuffers(c, e, b)
  <2>1. PICK b \in BufferBodies : StartBuffers(c, e, b)
    BY <1>4
  <2>2. b \in 0 .. MaxBody
    BY Assumption
  <2>3. dec'.body = b
    <3>1. CASE c
      <4>1. FeedChunk(DecInit(c), b) \in DecType
            /\ FeedChunk(DecInit(c), b).body = b
        <5>1. CASE b = 0
          <6>1. FeedChunk(DecInit(c), 0) \in DecType
                /\ FeedChunk(DecInit(c), 0).body = 0
            BY <1>2, FeedChunkZeroLastBody, FeedChunkType
          <6>2. QED
            BY <5>1, <6>1
        <5>2. CASE b # 0
          <6>1. DecInit(c).ph = "size"
            BY <1>2, <3>1
          <6>2. b \in Nat \ {0}
            BY <2>2, <5>2
          <6>3. QED
            BY <1>2, <6>1, <6>2, FeedChunkSize
        <5>3. QED
          BY <5>1, <5>2
      <4>2. QED
        BY <2>1, <3>1, <4>1, FeedChunkZeroLastBody, Zenon DEF StartBuffers
    <3>2. CASE ~c
      BY <1>2, <2>1, <2>2, <3>2, FeedIdent DEF StartBuffers
    <3>3. QED
      BY <3>1, <3>2
  <2>4. QED
    BY <2>1, <2>2, <2>3
       DEF StartBuffers, StartInit, Framed, FOpen, FBody, FPhase, FGiven
<1>5. CASE \E n \in 0 .. MaxBody : StartPull(c, e, "source", n)
  <2>1. PICK n \in 0 .. MaxBody : StartPull(c, e, "source", n)
    BY <1>5
  <2>2. QED
    BY <1>2, <2>1, Assumption
       DEF StartPull, StartInit, Framed, FOpen, FBody, FPhase, FGiven
<1>6. CASE StartPull(c, e, "stream", 0)
  BY <1>2, <1>6, Assumption
     DEF StartPull, StartInit, Framed, FOpen, FBody, FPhase, FGiven
<1>7. QED
  BY <1>1, <1>3, <1>4, <1>5, <1>6

\* reset() closes the body and forgets the message.
LEMMA ResetFramed ==
  ASSUME Framed, Reset
  PROVE  Framed'
BY DEF Reset, Framed, FOpen, FBody, FPhase, FGiven


\* The views prepare() computes change nothing the invariant is about.
LEMMA PrepareViewFramed ==
  ASSUME Framed,
         \/ PrepareHeaderOnly \/ PrepareExpect100 \/ PrepareBuffered
         \/ PrepareSourceView \/ PrepareStream
  PROVE  Framed'
BY DEF PrepareHeaderOnly, PrepareExpect100, PrepareBuffered,
       PrepareSourceView, PrepareStream,
       Framed, FOpen, FBody, FPhase, FGiven

\* An identity read frames exactly the bytes it returns.
LEMMA SourceIdentityFramed ==
  ASSUME IInv, Framed, ~PartialErrorReads, PrepareSourceIdentity
  PROVE  Framed'
<1>0. dec \in DecType /\ given \in Nat /\ srcRem \in Nat
  BY DecTypeOK DEF IInv, TypeOK
<1>1. PICK r \in ReadResults(Free) :
        /\ srcRem' = srcRem - r.b
        /\ given' = given + r.b
        /\ dec' = Feed(dec, Data(r.b))
        /\ more' = IF r.err THEN more ELSE ~r.fin
  BY Zenon DEF PrepareSourceIdentity
<1>2. r.b \in Nat /\ r.b <= srcRem
  <2>1. Free \in Nat
    BY Assumption DEF IInv, TypeOK, NoTmp0Overflow, Free
  <2>2. QED
    BY <1>0, <2>1 DEF ReadResults, MinOf
<1>3. /\ started /\ more /\ ~is_chunked /\ st = "source"
      /\ UNCHANGED <<st, started, is_done, is_chunked>>
  BY DEF PrepareSourceIdentity, CanPrepare
<1>4. dec.ph = "ident" /\ dec.body = given
  BY <1>3 DEF Framed, FPhase, FBody
<1>5. dec'.ph = "ident" /\ dec'.body = given'
  BY <1>0, <1>1, <1>2, <1>4, FeedIdent
<1>6. given' <= MaxBody /\ given' + srcRem' <= MaxBody
  <2>1. given + r.b <= MaxBody /\ (given + r.b) + (srcRem - r.b) <= MaxBody
    BY <1>0, <1>2, <1>3, Assumption DEF Framed, FGiven
  <2>2. QED
    BY <1>1, <2>1
<1>7. QED
  BY <1>3, <1>5, <1>6 DEF Framed, FOpen, FBody, FPhase, FGiven


\* A chunked read frames what it returns as one chunk (none when it
\* returns nothing), then the last chunk when the source is finished; on an
\* error it returns no bytes and frames nothing.
LEMMA SourceChunkedFramed ==
  ASSUME IInv, Framed, ~PartialErrorReads, PrepareSourceChunked
  PROVE  Framed'
<1>0. dec \in DecType /\ given \in Nat /\ srcRem \in Nat
  BY DecTypeOK DEF IInv, TypeOK
<1> DEFINE D == Free - crlf_len - last_chunk_len - chunk_header_len
<1>1. PICK r \in ReadResults(D) :
        LET chunk == IF r.b # 0 THEN FeedChunk(dec, r.b) ELSE dec
        IN  /\ srcRem' = srcRem - r.b
            /\ given' = given + r.b
            /\ IF r.err
                 THEN UNCHANGED <<more, dec>>
                 ELSE /\ dec' = IF r.fin THEN FeedLast(chunk) ELSE chunk
                      /\ more' = (more /\ ~r.fin)
  BY Zenon DEF PrepareSourceChunked, D
<1> DEFINE chunk == IF r.b # 0 THEN FeedChunk(dec, r.b) ELSE dec
<1>2. r.b \in Nat /\ r.b <= srcRem /\ (r.err => r.b = 0)
  <2>1. D \in Nat
    BY Assumption DEF PrepareSourceChunked, IInv, TypeOK, NoTmp0Overflow,
          Free, D, chunked_overhead, crlf_len, last_chunk_len,
          chunk_header_len
  <2>2. QED
    BY <1>0, <2>1 DEF ReadResults, MinOf
<1>3. /\ started /\ more /\ is_chunked /\ st = "source"
      /\ UNCHANGED <<st, started, is_done, is_chunked>>
  BY DEF PrepareSourceChunked, CanPrepare
<1>4. dec.ph = "size" /\ dec.body = given
  BY <1>3 DEF Framed, FPhase, FBody
<1>5. chunk \in DecType /\ chunk.ph = "size" /\ chunk.body = given + r.b
  <2>1. CASE r.b # 0
    BY <1>0, <1>2, <1>4, <2>1, FeedChunkSize, Zenon DEF chunk
  <2>2. CASE r.b = 0
    BY <1>0, <1>4, <2>2 DEF chunk
  <2>3. QED
    BY <2>1, <2>2
<1>6. /\ more' => dec'.ph = "size"
      /\ dec'.body = given'
  <2>1. CASE r.err
    <3>1. more' = more /\ dec' = dec /\ given' = given + r.b
      BY <1>1, <2>1, Zenon
    <3>2. QED
      BY <1>0, <1>2, <1>4, <2>1, <3>1
  <2>2. CASE ~r.err /\ r.fin
    <3>1. dec' = FeedLast(chunk) /\ more' = FALSE
      BY <1>1, <2>2, Zenon DEF chunk
    <3>2. QED
      BY <1>1, <1>5, <3>1, FeedChunkZeroLastBody
  <2>3. CASE ~r.err /\ ~r.fin
    <3>1. dec' = chunk
      BY <1>1, <2>3 DEF chunk
    <3>2. QED
      BY <1>1, <1>5, <3>1
  <2>4. QED
    BY <2>1, <2>2, <2>3
<1>7. given' <= MaxBody /\ given' + srcRem' <= MaxBody
  <2>1. given + r.b <= MaxBody /\ (given + r.b) + (srcRem - r.b) <= MaxBody
    BY <1>0, <1>2, <1>3, Assumption DEF Framed, FGiven
  <2>2. QED
    BY <1>1, <2>1
<1>8. more' => more
  BY <1>1, Zenon
<1>9. QED
  BY <1>3, <1>6, <1>7, <1>8 DEF Framed, FOpen, FBody, FPhase, FGiven


\* consume() sets is_done_ only on a closed body.
LEMMA ConsumeFramed ==
  ASSUME Framed, Consume
  PROVE  Framed'
<1>1. PICK n \in 0 .. shown :
        ConsumeHeaderOnly(n) \/ ConsumeInHeader(n) \/ ConsumeBody(n)
  BY DEF Consume
<1>2. CASE ConsumeHeaderOnly(n) \/ ConsumeInHeader(n)
  BY <1>2 DEF ConsumeHeaderOnly, ConsumeInHeader,
              Framed, FOpen, FBody, FPhase, FGiven
<1>3. CASE ConsumeBody(n)
  <2>1. UNCHANGED <<st, started, is_chunked, more, srcRem, given, dec>>
    BY <1>3 DEF ConsumeBody
  <2>2. is_done' => ~more
    <3>1. CASE st \in {"empty", "buffers"}
      BY <3>1 DEF Framed, FOpen
    <3>2. CASE st \notin {"empty", "buffers"}
      BY <1>3, <3>2, Zenon DEF ConsumeBody
    <3>3. QED
      BY <3>1, <3>2
  <2>3. QED
    BY <2>1, <2>2 DEF Framed, FOpen, FBody, FPhase, FGiven
<1>4. QED
  BY <1>1, <1>2, <1>3

\* An identity commit frames its n bytes as they are.
LEMMA CommitIdentityFramed ==
  ASSUME IInv, Framed, StreamCommitIdentity
  PROVE  Framed'
<1>0. dec \in DecType /\ given \in Nat
  BY DecTypeOK DEF IInv, TypeOK
<1>1. PICK n \in 0 .. MinOf(Free, MaxBody - given) :
        /\ given' = given + n
        /\ dec' = Feed(dec, Data(n))
  BY DEF StreamCommitIdentity
<1>2. n \in Nat /\ given + n <= MaxBody
  <2>1. Free \in Nat
    BY Assumption DEF IInv, TypeOK, NoTmp0Overflow, Free
  <2>2. QED
    BY <1>0, <2>1, Assumption DEF MinOf
<1>3. /\ more /\ ~is_chunked /\ st = "stream"
      /\ UNCHANGED <<st, started, is_done, is_chunked, more, srcRem>>
  BY DEF StreamCommitIdentity
<1>4. started /\ dec.ph = "ident" /\ dec.body = given
  BY <1>3 DEF Framed, FOpen, FPhase, FBody
<1>5. dec'.ph = "ident" /\ dec'.body = given'
  BY <1>0, <1>1, <1>2, <1>4, FeedIdent
<1>6. given' <= MaxBody
  BY <1>1, <1>2
<1>7. QED
  BY <1>3, <1>5, <1>6 DEF Framed, FOpen, FBody, FPhase, FGiven

\* A chunked commit of n > 0 bytes frames them as one chunk.
LEMMA CommitChunkedFramed ==
  ASSUME IInv, Framed, StreamCommitChunked
  PROVE  Framed'
<1>0. dec \in DecType /\ given \in Nat
  BY DecTypeOK DEF IInv, TypeOK
<1>1. PICK n \in 1 .. MinOf(Free - chunked_overhead, MaxBody - given) :
        /\ given' = given + n
        /\ dec' = FeedChunk(dec, n)
  BY DEF StreamCommitChunked
<1>2. n \in Nat \ {0} /\ given + n <= MaxBody
  <2>1. Free - chunked_overhead \in Nat
    BY Assumption DEF StreamCommitChunked, IInv, TypeOK, Free,
          chunked_overhead, chunk_header_len, crlf_len, last_chunk_len
  <2>2. QED
    BY <1>0, <2>1, Assumption DEF MinOf
<1>3. /\ more /\ is_chunked /\ st = "stream"
      /\ UNCHANGED <<st, started, is_done, is_chunked, more, srcRem>>
  BY DEF StreamCommitChunked
<1>4. started /\ dec.ph = "size" /\ dec.body = given
  BY <1>3 DEF Framed, FOpen, FPhase, FBody
<1>5. dec'.ph = "size" /\ dec'.body = given'
  BY <1>0, <1>1, <1>2, <1>4, FeedChunkSize
<1>6. given' <= MaxBody
  BY <1>1, <1>2
<1>7. QED
  BY <1>3, <1>5, <1>6 DEF Framed, FOpen, FBody, FPhase, FGiven

\* stream::close() closes the body; the last chunk adds no body byte.
LEMMA CloseFramed ==
  ASSUME IInv, Framed, StreamClose
  PROVE  Framed'
<1>0. dec \in DecType
  BY DecTypeOK DEF IInv
<1>1. dec'.body = dec.body
  BY <1>0, FeedChunkZeroLastBody DEF StreamClose
<1>2. QED
  BY <1>1 DEF StreamClose, Framed, FOpen, FBody, FPhase, FGiven


\* Framed is an invariant of every step when reads return no bytes with an
\* error.
LEMMA NextFramed ==
  ASSUME ~PartialErrorReads, IInv, Framed, [Next]_vars
  PROVE  Framed'
<1>1. CASE Start
  BY <1>1, StartFramed
<1>2. CASE Reset
  BY <1>2, ResetFramed
<1>3. CASE Prepare
  BY <1>3, PrepareViewFramed, SourceIdentityFramed, SourceChunkedFramed
     DEF Prepare
<1>4. CASE Consume
  BY <1>4, ConsumeFramed
<1>5. CASE StreamCommitIdentity
  BY <1>5, CommitIdentityFramed
<1>6. CASE StreamCommitChunked
  BY <1>6, CommitChunkedFramed
<1>7. CASE StreamClose
  BY <1>7, CloseFramed
<1>8. CASE UNCHANGED vars
  BY <1>8 DEF vars, Framed, FOpen, FBody, FPhase, FGiven
<1>9. QED
  BY <1>1, <1>2, <1>3, <1>4, <1>5, <1>6, <1>7, <1>8 DEF Next

-----------------------------------------------------------------------------
(* The steps of MessageStream that the serializer's steps map to.          *)

\* A step that leaves started_, is_done_, more_, hp, given and the decoder
\* alone is a stutter of MessageStream.
LEMMA AbsUnchanged ==
  ASSUME UNCHANGED <<started, is_done, more, hp, given, dec>>
  PROVE  UNCHANGED IdAbs!absvars
BY DEF IdAbs!absvars, AbsPhase, AbsHdr, AbsGiven, IdAbsTaken

\* start_*: a message begins with its whole header and its body framed.
LEMMA BeginStep ==
  ASSUME started', ~is_done', hp' = HdrLen, given' \in 0 .. MaxBody,
         dec'.body = given'
  PROVE  IdAbs!Begin
BY DEF IdAbs!Begin, IdAbs!Active, AbsPhase, AbsHdr, AbsGiven, IdAbsTaken

\* A read or a commit on an open body: given and taken grow together.
LEMMA TakeStep ==
  ASSUME started, ~is_done, more, started', ~is_done', hp' = hp,
         given \in Nat, given' \in Nat, given <= given', given' <= MaxBody,
         dec.body = given, dec'.body = given'
  PROVE  IdAbs!Take
BY DEF IdAbs!Take, IdAbs!Active, AbsPhase, AbsHdr, AbsGiven, IdAbsTaken

\* consume(): header bytes go; is_done_ comes with a closed, framed body.
LEMMA SendStep ==
  ASSUME started, ~is_done, hp \in Nat, hp' \in 0 .. hp,
         UNCHANGED <<started, more, given, dec>>,
         is_done' => (~more /\ hp' = 0 /\ dec.body = given)
  PROVE  IdAbs!Send
BY DEF IdAbs!Send, IdAbs!Active, AbsPhase, AbsHdr, AbsGiven, IdAbsTaken


\* Every step of the serializer, from a state of IInv and Framed, is a step
\* of MessageStream or leaves its variables alone.
LEMMA NextRefines ==
  ASSUME ~PartialErrorReads, IInv, Framed, [Next]_vars
  PROVE  [IdAbs!Next]_IdAbs!absvars
<1>0. /\ Framed' /\ IInv'
      /\ given \in Nat /\ given' \in Nat /\ hp \in Nat /\ hp' \in Nat
  <2>1. Framed' /\ IInv'
    BY NextFramed, NextIInv
  <2>2. QED
    BY <2>1 DEF IInv, TypeOK
<1>1. Framed' => (started' => dec'.body = given') /\ given' <= MaxBody
  BY DEF Framed, FBody, FGiven
<1>2. CASE Start
  <2>1. started' /\ ~is_done' /\ hp' = HdrLen
    BY <1>2 DEF Start, StartEmpty, StartBuffers, StartPull, StartInit
  <2>2. IdAbs!Begin
    BY <1>0, <1>1, <2>1, BeginStep
  <2>3. QED
    BY <2>2 DEF IdAbs!Next
<1>3. CASE Reset
  <2>1. IdAbs!Reset
    BY <1>3 DEF Reset, IdAbs!Reset, AbsPhase, AbsHdr, AbsGiven, IdAbsTaken
  <2>2. QED
    BY <2>1 DEF IdAbs!Next
<1> DEFINE Opened == started /\ ~is_done /\ more /\ started' /\ ~is_done'
                     /\ hp' = hp
<1>4. ASSUME Opened, given <= given'
      PROVE  IdAbs!Next
  <2>1. dec.body = given /\ dec'.body = given'
    BY <1>0, <1>1, <1>4 DEF Framed, FBody
  <2>2. IdAbs!Take
    BY <1>0, <1>1, <1>4, <2>1, TakeStep
  <2>3. QED
    BY <2>2 DEF IdAbs!Next
<1>5. CASE Prepare
  <2>1. CASE \/ PrepareHeaderOnly \/ PrepareExpect100 \/ PrepareBuffered
             \/ PrepareSourceView \/ PrepareStream
    BY <2>1, AbsUnchanged DEF PrepareHeaderOnly, PrepareExpect100,
          PrepareBuffered, PrepareSourceView, PrepareStream
  <2>2. CASE PrepareSourceIdentity
    <3>1. Opened
      BY <2>2 DEF PrepareSourceIdentity, CanPrepare, Framed, FOpen
    <3>2. PICK r \in ReadResults(Free) : given' = given + r.b
      BY <2>2 DEF PrepareSourceIdentity
    <3>3. Free \in Nat
      BY Assumption DEF IInv, TypeOK, NoTmp0Overflow, Free
    <3>4. given <= given'
      BY <1>0, <3>2, <3>3 DEF ReadResults, MinOf
    <3>5. QED
      BY <1>4, <3>1, <3>4
  <2>3. CASE PrepareSourceChunked
    <3>1. Opened
      BY <2>3 DEF PrepareSourceChunked, CanPrepare, Framed, FOpen
    <3> DEFINE D == Free - crlf_len - last_chunk_len - chunk_header_len
    <3>2. PICK r \in ReadResults(D) : given' = given + r.b
      BY <2>3, Zenon DEF PrepareSourceChunked, D
    <3>3. D \in Nat
      BY <2>3, Assumption DEF PrepareSourceChunked, IInv, TypeOK,
            NoTmp0Overflow, Free, D, chunked_overhead, crlf_len,
            last_chunk_len, chunk_header_len
    <3>4. given <= given'
      BY <1>0, <3>2, <3>3 DEF ReadResults, MinOf
    <3>5. QED
      BY <1>4, <3>1, <3>4
  <2>4. QED
    BY <1>5, <2>1, <2>2, <2>3 DEF Prepare
<1>6. CASE Consume
  <2>1. PICK n \in 0 .. shown :
          ConsumeHeaderOnly(n) \/ ConsumeInHeader(n) \/ ConsumeBody(n)
    BY <1>6 DEF Consume
  <2>2. CASE ConsumeHeaderOnly(n) \/ ConsumeInHeader(n)
    <3>1. IdAbs!Send
      BY <1>0, <2>2, SendStep DEF ConsumeHeaderOnly, ConsumeInHeader,
            CanConsume
    <3>2. QED
      BY <3>1 DEF IdAbs!Next
  <2>3. CASE ConsumeBody(n)
    <3>1. started /\ ~is_done /\ hp' = 0
          /\ UNCHANGED <<started, more, given, dec>>
      BY <2>3 DEF ConsumeBody, CanConsume
    <3>2. is_done' => (~more /\ hp' = 0 /\ dec.body = given)
      BY <1>0, <3>1 DEF Framed, FOpen, FBody
    <3>3. IdAbs!Send
      BY <1>0, <3>1, <3>2, SendStep
    <3>4. QED
      BY <3>3 DEF IdAbs!Next
  <2>4. QED
    BY <2>1, <2>2, <2>3
<1>7. CASE StreamCommitIdentity
  <2>1. Opened
    BY <1>7 DEF StreamCommitIdentity, Framed, FOpen
  <2>2. PICK n \in 0 .. MinOf(Free, MaxBody - given) : given' = given + n
    BY <1>7 DEF StreamCommitIdentity
  <2>3. Free \in Nat
    BY Assumption DEF IInv, TypeOK, NoTmp0Overflow, Free
  <2>4. given <= given'
    BY <1>0, <2>2, <2>3, Assumption DEF MinOf
  <2>5. QED
    BY <1>4, <2>1, <2>4
<1>8. CASE StreamCommitChunked
  <2>1. Opened
    BY <1>8 DEF StreamCommitChunked, Framed, FOpen
  <2>2. PICK n \in 1 .. MinOf(Free - chunked_overhead, MaxBody - given) :
          given' = given + n
    BY <1>8 DEF StreamCommitChunked
  <2>3. Free - chunked_overhead \in Nat
    BY <1>8, Assumption DEF StreamCommitChunked, IInv, TypeOK, Free,
          chunked_overhead, chunk_header_len, crlf_len, last_chunk_len
  <2>4. given <= given'
    BY <1>0, <2>2, <2>3, Assumption DEF MinOf
  <2>5. QED
    BY <1>4, <2>1, <2>4
<1>9. CASE StreamClose
  <2>1. Opened /\ given' = given
    BY <1>9 DEF StreamClose, Framed, FOpen
  <2>2. QED
    BY <1>0, <1>4, <2>1
<1>10. CASE UNCHANGED vars
  BY <1>10, AbsUnchanged DEF vars
<1>11. QED
  BY <1>2, <1>3, <1>5, <1>6, <1>7, <1>8, <1>9, <1>10 DEF Next


-----------------------------------------------------------------------------

\* The initial state is MessageStream's: no message, nothing in flight.
LEMMA InitRefines == Init => IdAbs!Init
BY DEF Init, IdAbs!Init, AbsPhase, AbsHdr, AbsGiven, IdAbsTaken

\* When source::read returns no bytes with an error, IInv and Framed hold
\* in every reachable state.
THEOREM FramedHolds ==
  ASSUME ~PartialErrorReads
  PROVE  Spec => [](IInv /\ Framed)
<1>1. Init => IInv /\ Framed
  BY InitIInv, InitFramed
<1>2. IInv /\ Framed /\ [Next]_vars => (IInv /\ Framed)'
  BY NextIInv, NextFramed
<1>3. QED
  BY <1>1, <1>2, PTL DEF Spec

\* The serializer implements MessageStream (IdRefinesMessageStream) for
\* every workspace, header length and body bound, when source::read
\* returns no bytes with an error: the peer never gets a body byte before
\* it is handed over, and consume() sets is_done_ only once the body is
\* closed, every byte given is framed and the header is consumed.
THEOREM SerializerRefinesMessageStream ==
  ASSUME ~PartialErrorReads
  PROVE  Spec => IdRefinesMessageStream
<1>1. Init => IdAbs!Init
  BY InitRefines
<1>2. IInv /\ Framed /\ [Next]_vars => [IdAbs!Next]_IdAbs!absvars
  BY NextRefines
<1>3. Spec => [](IInv /\ Framed)
  BY FramedHolds
<1>4. QED
  BY <1>1, <1>2, <1>3, PTL DEF Spec, IdRefinesMessageStream, IdAbs!Spec

=============================================================================
