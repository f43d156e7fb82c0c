-------------------------- MODULE SerializerProofs --------------------------
(***************************************************************************)
(* Proofs about Serializer for every workspace size, header length and     *)
(* body bound the assumptions allow: the type invariant, and that no write *)
(* into tmp0_ exceeds its capacity (NoTmp0Overflow).                        *)
(*                                                                         *)
(* NoTmp0Overflow is not inductive by itself: a consume must not take more *)
(* bytes than tmp0_ holds (ShownBound), and stream::close() must find 5    *)
(* free bytes for the last chunk (LastChunkReserved).  IInv conjoins them  *)
(* with the type invariant.                                                *)
(***************************************************************************)
EXTENDS Serializer, TLAPS

DecType == [ph : Phases, left : Nat, body : Nat]
PieceType == [k : {"line", "data", "crlf"}, n : Nat]

\* The peer's decoder stays a decoder whatever piece it is fed.
LEMMA FeedType ==
  ASSUME NEW d \in DecType, NEW p \in PieceType
  PROVE  Feed(d, p) \in DecType
<1> DEFINE
      Body == [d EXCEPT !.body = @ + p.n]
      Open == [d EXCEPT !.ph = IF p.n = 0 THEN "trailer" ELSE "data", !.left = p.n]
      Take == [d EXCEPT !.ph = IF p.n = d.left THEN "crlf" ELSE "data",
                        !.left = @ - p.n, !.body = @ + p.n]
      SetPh(ph) == [d EXCEPT !.ph = ph]
<1>1. Body \in DecType
  BY DEF Body, DecType, PieceType
<1>2. Open \in DecType
  BY Zenon DEF Open, DecType, Phases, PieceType
<1>3. p.n <= d.left => Take \in DecType
  <2> SUFFICES ASSUME p.n <= d.left PROVE Take \in DecType
    OBVIOUS
  <2>1. d.left - p.n \in Nat /\ d.body + p.n \in Nat
    BY DEF DecType, PieceType
  <2>2. QED
    BY <2>1, Zenon DEF Take, DecType, Phases
<1>4. \A ph \in Phases : SetPh(ph) \in DecType
  BY DEF SetPh, DecType
<1>5. QED
  BY <1>1, <1>2, <1>3, <1>4 DEF Feed, Phases, Body, Open, Take, SetPh

\* A chunk, and the last chunk, keep the decoder a decoder.
LEMMA FeedChunkType ==
  ASSUME NEW d \in DecType, NEW n \in Nat
  PROVE  FeedChunk(d, n) \in DecType /\ FeedLast(d) \in DecType
<1>1. Line(n) \in PieceType /\ Data(n) \in PieceType /\ Crlf \in PieceType
      /\ Line(0) \in PieceType
  BY DEF Line, Data, Crlf, PieceType
<1>2. FeedChunk(d, n) \in DecType
  BY <1>1, FeedType DEF FeedChunk
<1>3. FeedLast(d) \in DecType
  BY <1>1, FeedType DEF FeedLast
<1>4. QED
  BY <1>2, <1>3

LEMMA DecInitType ==
  ASSUME NEW c \in BOOLEAN
  PROVE  DecInit(c) \in DecType
BY DEF DecInit, DecType, Phases

\* TypeOK's clause on the decoder is membership in DecType.
LEMMA DecTypeOK == TypeOK => dec \in DecType
BY DEF TypeOK, DecType

-----------------------------------------------------------------------------
(* IInv split into the flags, the counts, the decoder and the three        *)
(* bounds: each step of NextIInv proves the four parts on their own.       *)

Flags ==
  /\ st \in Styles \cup {"none"}
  /\ started \in BOOLEAN
  /\ is_done \in BOOLEAN
  /\ is_chunked \in BOOLEAN
  /\ is_expect_continue \in BOOLEAN
  /\ more \in BOOLEAN

Nums ==
  /\ hp \in 0 .. HdrLen
  /\ out \in Nat
  /\ tmp0 \in Nat
  /\ shown \in Nat
  /\ srcRem \in 0 .. MaxBody
  /\ given \in Nat
  /\ sent \in Nat

Bounds == NoTmp0Overflow /\ ShownBound /\ LastChunkReserved

\* IInv is the conjunction of the four parts.
LEMMA IInvParts == IInv <=> Flags /\ Nums /\ dec \in DecType /\ Bounds
BY DEF IInv, TypeOK, Flags, Nums, DecType, Bounds

\* The four parts in the next state give IInv in the next state.
LEMMA IInvFromParts ==
  ASSUME Flags', Nums', dec' \in DecType, Bounds'
  PROVE  IInv'
BY DEF IInv, TypeOK, Flags, Nums, DecType, Bounds

\* The initial state satisfies IInv.
LEMMA InitIInv == Init => IInv
<1> SUFFICES ASSUME Init PROVE Flags /\ Nums /\ dec \in DecType /\ Bounds
  BY IInvParts
<1>1. Flags
  BY Zenon DEF Init, Flags, Styles
<1>2. Nums
  BY Assumption DEF Init, Nums
<1>3. dec \in DecType
  BY DecInitType, Zenon DEF Init
<1>4. Bounds
  BY Assumption DEF Init, Bounds, NoTmp0Overflow, ShownBound,
        LastChunkReserved
<1>5. QED
  BY <1>1, <1>2, <1>3, <1>4

\* Every step, of the caller or of the handle, preserves IInv.
LEMMA NextIInv == IInv /\ [Next]_vars => IInv'
<1> SUFFICES ASSUME IInv, [Next]_vars PROVE IInv'
  OBVIOUS
<1> USE Assumption
<1>0. Flags /\ Nums /\ dec \in DecType /\ Bounds
  BY IInvParts
<1>1. CASE Start
  <2>1. PICK c \in BOOLEAN, e \in BOOLEAN :
          \/ StartEmpty(c, e)
          \/ \E b \in BufferBodies : StartBuffers(c, e, b)
          \/ \E n \in 0 .. MaxBody : StartPull(c, e, "source", n)
          \/ StartPull(c, e, "stream", 0)
    BY <1>1 DEF Start
  <2>2. DecInit(c) \in DecType
    BY DecInitType
  <2>3. CASE StartEmpty(c, e)
    <3>1. Flags'
      BY <2>3, Zenon DEF StartEmpty, StartInit, Flags, Styles
    <3>2. Nums'
      BY <2>3 DEF StartEmpty, StartInit, Nums, last_chunk_len
    <3>3. dec' \in DecType
      BY <2>2, <2>3, FeedChunkType DEF StartEmpty
    <3>4. Bounds'
      <4>1. /\ tmp0' = 0 /\ shown' = 0 /\ st' = "empty" /\ hp' = HdrLen
            /\ out' = IF c THEN last_chunk_len ELSE 0
        BY <2>3 DEF StartEmpty, StartInit
      <4>2. QED
        BY <4>1 DEF last_chunk_len, Bounds, NoTmp0Overflow, ShownBound,
              LastChunkReserved
    <3>5. QED
      BY <3>1, <3>2, <3>3, <3>4, IInvFromParts
  <2>4. CASE \E b \in BufferBodies : StartBuffers(c, e, b)
    <3>1. PICK b \in BufferBodies : StartBuffers(c, e, b)
      BY <2>4
    <3>2. b \in 0 .. MaxBody
      OBVIOUS
    <3>3. Flags'
      BY <3>1, Zenon DEF StartBuffers, StartInit, Flags, Styles
    <3>4. Nums'
      BY <3>1, <3>2 DEF StartBuffers, StartInit, Nums, last_chunk_len,
            chunk_header_len, crlf_len
    <3>5. dec' \in DecType
      <4>1. Data(b) \in PieceType
        BY <3>2 DEF Data, PieceType
      <4>2. FeedChunk(DecInit(c), b) \in DecType
        BY <2>2, <3>2, FeedChunkType
      <4>3. FeedLast(FeedChunk(DecInit(c), b)) \in DecType
        BY <4>2, FeedChunkType
      <4>4. Feed(DecInit(c), Data(b)) \in DecType
        BY <2>2, <4>1, FeedType
      <4>5. QED
        BY <3>1, <4>3, <4>4 DEF StartBuffers
    <3>6. Bounds'
      <4>1. /\ tmp0' = 0 /\ shown' = 0 /\ st' = "buffers" /\ hp' = HdrLen
            /\ out' = IF c THEN chunk_header_len + b + crlf_len + last_chunk_len
                            ELSE b
        BY <3>1 DEF StartBuffers, StartInit
      <4>2. QED
        BY <3>2, <4>1 DEF chunk_header_len, crlf_len, last_chunk_len, Bounds, NoTmp0Overflow, ShownBound,
              LastChunkReserved
    <3>7. QED
      BY <3>3, <3>4, <3>5, <3>6, IInvFromParts
  <2>5. CASE \E n \in 0 .. MaxBody : StartPull(c, e, "source", n)
    <3>1. PICK n \in 0 .. MaxBody : StartPull(c, e, "source", n)
      BY <2>5
    <3>2. Flags'
      BY <3>1, Zenon DEF StartPull, StartInit, Flags, Styles
    <3>3. Nums'
      BY <3>1 DEF StartPull, StartInit, Nums
    <3>4. dec' \in DecType
      BY <2>2, <3>1 DEF StartPull
    <3>5. Bounds'
      BY <3>1 DEF StartPull, StartInit, Bounds, NoTmp0Overflow, ShownBound,
            LastChunkReserved
    <3>6. QED
      BY <3>2, <3>3, <3>4, <3>5, IInvFromParts
  <2>6. CASE StartPull(c, e, "stream", 0)
    <3>1. Flags'
      BY <2>6, Zenon DEF StartPull, StartInit, Flags, Styles
    <3>2. Nums'
      BY <2>6 DEF StartPull, StartInit, Nums
    <3>3. dec' \in DecType
      BY <2>2, <2>6 DEF StartPull
    <3>4. Bounds'
      BY <2>6 DEF StartPull, StartInit, Bounds, NoTmp0Overflow, ShownBound,
            LastChunkReserved, last_chunk_len
    <3>5. QED
      BY <3>1, <3>2, <3>3, <3>4, IInvFromParts
  <2>7. QED
    BY <2>1, <2>3, <2>4, <2>5, <2>6
<1>2. CASE Reset
  <2>1. Flags'
    BY <1>0, <1>2, Zenon DEF Reset, Flags
  <2>2. Nums' /\ dec' \in DecType
    BY <1>0, <1>2 DEF Reset, Nums
  <2>3. Bounds'
    BY <1>0, <1>2 DEF Reset, Bounds, NoTmp0Overflow, ShownBound,
          LastChunkReserved
  <2>4. QED
    BY <2>1, <2>2, <2>3, IInvFromParts
<1>3. CASE Prepare
  <2>1. CASE PrepareHeaderOnly
    <3>1. Flags' /\ Nums' /\ dec' \in DecType
      BY <1>0, <2>1 DEF PrepareHeaderOnly, Flags, Nums
    <3>2. Bounds'
      BY <1>0, <2>1 DEF PrepareHeaderOnly, Nums, Bounds, NoTmp0Overflow,
            ShownBound, LastChunkReserved
    <3>3. QED
      BY <3>1, <3>2, IInvFromParts
  <2>2. CASE PrepareExpect100
    <3>1. Flags' /\ Nums' /\ dec' \in DecType
      BY <1>0, <2>2, Zenon DEF PrepareExpect100, Flags, Nums
    <3>2. Bounds'
      BY <1>0, <2>2 DEF PrepareExpect100, Nums, Bounds, NoTmp0Overflow,
            ShownBound, LastChunkReserved
    <3>3. QED
      BY <3>1, <3>2, IInvFromParts
  <2>3. CASE PrepareBuffered
    <3>1. Flags' /\ Nums' /\ dec' \in DecType
      BY <1>0, <2>3 DEF PrepareBuffered, Flags, Nums
    <3>2. Bounds'
      BY <1>0, <2>3 DEF PrepareBuffered, Nums, Bounds, NoTmp0Overflow,
            ShownBound, LastChunkReserved
    <3>3. QED
      BY <3>1, <3>2, IInvFromParts
  <2>4. CASE PrepareSourceIdentity
    <3>1. PICK r \in ReadResults(Free) :
            /\ tmp0' = tmp0 + r.b
            /\ srcRem' = srcRem - r.b
            /\ given' = given + r.b
            /\ dec' = Feed(dec, Data(r.b))
            /\ more' = IF r.err THEN more ELSE ~r.fin
            /\ shown' = IF r.err THEN 0 ELSE hp + tmp0'
      BY <2>4, Zenon DEF PrepareSourceIdentity
    <3>2. r.b \in 0 .. MinOf(Free, srcRem) /\ r.fin \in BOOLEAN
          /\ r.err \in BOOLEAN
      BY DEF ReadResults
    <3>3. r.b \in Nat /\ r.b <= WsSize - tmp0 /\ r.b <= srcRem
      BY <1>0, <3>2 DEF MinOf, Free, Nums
    <3>4. Flags'
      BY <1>0, <2>4, <3>1, <3>2, Zenon DEF PrepareSourceIdentity, Flags
    <3>5. Nums'
      BY <1>0, <2>4, <3>1, <3>3 DEF PrepareSourceIdentity, Nums
    <3>6. dec' \in DecType
      <4>1. Data(r.b) \in PieceType
        BY <3>3 DEF Data, PieceType
      <4>2. QED
        BY <1>0, <3>1, <4>1, FeedType
    <3>7. Bounds'
      BY <1>0, <2>4, <3>1, <3>3
         DEF PrepareSourceIdentity, Nums, Bounds, NoTmp0Overflow, ShownBound,
             LastChunkReserved
    <3>8. QED
      BY <3>4, <3>5, <3>6, <3>7, IInvFromParts
  <2>5. CASE PrepareSourceChunked
    <3> DEFINE D == Free - crlf_len - last_chunk_len - chunk_header_len
    <3>1. PICK r \in ReadResults(D) :
            LET chunk == IF r.b # 0 THEN FeedChunk(dec, r.b) ELSE dec
            IN  /\ srcRem' = srcRem - r.b
                /\ given' = given + r.b
                /\ IF r.err
                     THEN /\ shown' = 0
                          /\ UNCHANGED <<more, tmp0, dec>>
                     ELSE /\ tmp0' = tmp0
                                     + (IF r.b # 0 THEN chunk_header_len + r.b + crlf_len ELSE 0)
                                     + (IF r.fin THEN last_chunk_len ELSE 0)
                          /\ dec' = IF r.fin THEN FeedLast(chunk) ELSE chunk
                          /\ more' = (more /\ ~r.fin)
                          /\ shown' = hp + tmp0'
      BY <2>5, Zenon DEF PrepareSourceChunked, D
    <3> DEFINE chunk == IF r.b # 0 THEN FeedChunk(dec, r.b) ELSE dec
               grow == (IF r.b # 0 THEN chunk_header_len + r.b + crlf_len ELSE 0)
                       + (IF r.fin THEN last_chunk_len ELSE 0)
    <3>2. r.b \in 0 .. MinOf(D, srcRem) /\ r.fin \in BOOLEAN
          /\ r.err \in BOOLEAN
      BY DEF ReadResults
    <3>3. /\ tmp0 \in Nat /\ WsSize - tmp0 > chunked_overhead
          /\ r.b \in Nat /\ r.b + 25 <= WsSize - tmp0 /\ r.b <= srcRem
      BY <1>0, <2>5, <3>2 DEF PrepareSourceChunked, MinOf, Free, Nums, D,
            chunked_overhead, crlf_len, last_chunk_len, chunk_header_len
    <3>4. /\ srcRem' = srcRem - r.b /\ given' = given + r.b
          /\ st' = "source" /\ hp' = hp
          /\ UNCHANGED <<started, is_done, is_chunked, is_expect_continue, out,
                         sent>>
      BY <2>5, <3>1 DEF PrepareSourceChunked
    <3>5. grow \in 0 .. r.b + 25
      BY <3>2, <3>3 DEF grow, chunk_header_len, crlf_len, last_chunk_len
    <3>6. chunk \in DecType
      BY <1>0, <3>3, FeedChunkType DEF chunk
    <3>7. CASE r.err
      <4>1. tmp0' = tmp0 /\ shown' = 0 /\ more' = more /\ dec' = dec
        BY <3>1, <3>7
      <4>2. Flags' /\ dec' \in DecType
        BY <1>0, <3>4, <4>1, Zenon DEF Flags, Styles
      <4>3. Nums'
        BY <1>0, <3>3, <3>4, <4>1 DEF Nums
      <4>4. Bounds'
        BY <1>0, <3>3, <3>4, <4>1 DEF Nums, Bounds, NoTmp0Overflow,
              ShownBound, LastChunkReserved
      <4>5. QED
        BY <4>2, <4>3, <4>4, IInvFromParts
    <3>8. CASE ~r.err
      <4>0. /\ tmp0' = tmp0
                     + (IF r.b # 0 THEN chunk_header_len + r.b + crlf_len ELSE 0)
                     + (IF r.fin THEN last_chunk_len ELSE 0)
            /\ shown' = hp + tmp0'
            /\ dec' = IF r.fin THEN FeedLast(chunk) ELSE chunk
            /\ more' = (more /\ ~r.fin)
        BY <3>1, <3>8, Zenon DEF chunk
      <4>1. tmp0' = tmp0 + grow /\ shown' = hp + (tmp0 + grow)
        BY <1>0, <3>2, <3>3, <4>0
           DEF grow, Nums, chunk_header_len, crlf_len, last_chunk_len
      <4>2. /\ tmp0' = tmp0 + grow
            /\ shown' = hp + (tmp0 + grow)
            /\ dec' = IF r.fin THEN FeedLast(chunk) ELSE chunk
            /\ more' = (more /\ ~r.fin)
        BY <4>0, <4>1
      <4>3. Flags'
        BY <1>0, <3>2, <3>4, <4>2, Zenon DEF Flags, Styles
      <4>4. Nums'
        BY <1>0, <3>3, <3>4, <3>5, <4>2 DEF Nums
      <4>5. dec' \in DecType
        BY <3>6, <4>2, FeedChunkType
      <4>6. Bounds'
        BY <1>0, <3>3, <3>4, <3>5, <4>2 DEF Nums, Bounds, NoTmp0Overflow,
              ShownBound, LastChunkReserved
      <4>7. QED
        BY <4>3, <4>4, <4>5, <4>6, IInvFromParts
    <3>9. QED
      BY <3>7, <3>8
  <2>6. CASE PrepareSourceView
    <3>1. Flags' /\ Nums' /\ dec' \in DecType
      BY <1>0, <2>6 DEF PrepareSourceView, Flags, Nums
    <3>2. Bounds'
      BY <1>0, <2>6 DEF PrepareSourceView, Nums, Bounds, NoTmp0Overflow,
            ShownBound, LastChunkReserved
    <3>3. QED
      BY <3>1, <3>2, IInvFromParts
  <2>7. CASE PrepareStream
    <3>1. Flags' /\ Nums' /\ dec' \in DecType
      BY <1>0, <2>7 DEF PrepareStream, Flags, Nums
    <3>2. Bounds'
      BY <1>0, <2>7 DEF PrepareStream, Nums, Bounds, NoTmp0Overflow,
            ShownBound, LastChunkReserved
    <3>3. QED
      BY <3>1, <3>2, IInvFromParts
  <2>8. QED
    BY <1>3, <2>1, <2>2, <2>3, <2>4, <2>5, <2>6, <2>7 DEF Prepare
<1>4. CASE Consume
  <2>1. PICK n \in 0 .. shown :
          ConsumeHeaderOnly(n) \/ ConsumeInHeader(n) \/ ConsumeBody(n)
    BY <1>4 DEF Consume
  <2>2. n \in Nat
    BY <1>0 DEF Nums
  <2>3. CASE ConsumeHeaderOnly(n) \/ ConsumeInHeader(n)
    <3>1. Flags' /\ dec' \in DecType
      BY <1>0, <2>3 DEF ConsumeHeaderOnly, ConsumeInHeader, Flags
    <3>2. Nums'
      BY <1>0, <2>2, <2>3 DEF ConsumeHeaderOnly, ConsumeInHeader, Nums
    <3>3. Bounds'
      BY <1>0, <2>2, <2>3 DEF ConsumeHeaderOnly, ConsumeInHeader, Nums,
            Bounds, NoTmp0Overflow, ShownBound, LastChunkReserved
    <3>4. QED
      BY <3>1, <3>2, <3>3, IInvFromParts
  <2>4. CASE ConsumeBody(n)
    <3>1. Flags' /\ dec' \in DecType
      BY <1>0, <2>4, Zenon DEF ConsumeBody, Flags
    <3>2. CASE st \in {"empty", "buffers"}
      <4>1. Nums'
        BY <1>0, <2>2, <2>4, <3>2 DEF ConsumeBody, CanConsume, Nums,
              Bounds, ShownBound
      <4>2. Bounds'
        BY <1>0, <2>2, <2>4, <3>2 DEF ConsumeBody, CanConsume, Nums,
              Bounds, NoTmp0Overflow, ShownBound, LastChunkReserved
      <4>3. QED
        BY <3>1, <4>1, <4>2, IInvFromParts
    <3>3. CASE st \notin {"empty", "buffers"}
      <4>0. /\ n >= hp /\ n <= shown
            /\ tmp0' = tmp0 - (n - hp) /\ shown' = shown - n /\ hp' = 0
            /\ UNCHANGED <<st, out, more, is_chunked>>
        BY <2>4, <3>3 DEF ConsumeBody, CanConsume
      <4>1. Nums'
        BY <1>0, <2>2, <2>4, <3>3, <4>0 DEF ConsumeBody, Nums, Bounds,
              ShownBound
      <4>2. /\ shown - n <= 0 + (tmp0 - (n - hp))
            /\ tmp0 - (n - hp) <= tmp0
        BY <1>0, <2>2, <3>3, <4>0 DEF Nums, Bounds, ShownBound
      <4>3. ShownBound'
        BY <3>3, <4>0, <4>2, Zenon DEF ShownBound
      <4>4. tmp0' <= tmp0 /\ tmp0 <= WsSize /\ tmp0 \in Nat /\ tmp0' \in Nat
        BY <1>0, <4>0, <4>1, <4>2 DEF Nums, Bounds, NoTmp0Overflow
      <4>5. NoTmp0Overflow'
        BY <4>4 DEF NoTmp0Overflow
      <4>6. LastChunkReserved'
        <5>1. LastChunkReserved
          BY <1>0 DEF Bounds
        <5>2. QED
          BY <4>0, <4>4, <5>1 DEF LastChunkReserved, last_chunk_len
      <4>7. QED
        BY <3>1, <4>1, <4>3, <4>5, <4>6, IInvFromParts DEF Bounds
    <3>4. QED
      BY <3>2, <3>3
  <2>5. QED
    BY <2>1, <2>3, <2>4
<1>5. CASE StreamCommitIdentity
  <2>1. PICK n \in 0 .. MinOf(Free, MaxBody - given) :
          /\ tmp0' = tmp0 + n
          /\ given' = given + n
          /\ dec' = Feed(dec, Data(n))
    BY <1>5 DEF StreamCommitIdentity
  <2>2. n \in Nat /\ n <= WsSize - tmp0
    BY <1>0 DEF MinOf, Free, Nums
  <2>3. Flags' /\ Nums'
    BY <1>0, <1>5, <2>1, <2>2 DEF StreamCommitIdentity, Flags, Nums
  <2>4. dec' \in DecType
    <3>1. Data(n) \in PieceType
      BY <2>2 DEF Data, PieceType
    <3>2. QED
      BY <1>0, <2>1, <3>1, FeedType
  <2>5. Bounds'
    BY <1>0, <1>5, <2>1, <2>2
       DEF StreamCommitIdentity, Nums, Bounds, NoTmp0Overflow, ShownBound,
           LastChunkReserved
  <2>6. QED
    BY <2>3, <2>4, <2>5, IInvFromParts
<1>6. CASE StreamCommitChunked
  <2>1. PICK n \in 1 .. MinOf(Free - chunked_overhead, MaxBody - given) :
          /\ tmp0' = tmp0 + chunk_header_len + n + crlf_len
          /\ given' = given + n
          /\ dec' = FeedChunk(dec, n)
    BY <1>6 DEF StreamCommitChunked
  <2>2. n \in Nat /\ n + 25 <= WsSize - tmp0
    <3>1. n <= WsSize - tmp0 - 25
      BY <1>0 DEF MinOf, Free, Nums, chunked_overhead, chunk_header_len,
            crlf_len, last_chunk_len
    <3>2. QED
      BY <1>0, <3>1 DEF Nums, MinOf, Free, chunked_overhead,
            chunk_header_len, crlf_len, last_chunk_len
  <2>3. Flags' /\ Nums'
    BY <1>0, <1>6, <2>1, <2>2 DEF StreamCommitChunked, Flags, Nums,
          chunk_header_len, crlf_len
  <2>4. dec' \in DecType
    BY <1>0, <2>1, <2>2, FeedChunkType
  <2>5. Bounds'
    BY <1>0, <1>6, <2>1, <2>2
       DEF StreamCommitChunked, Nums, Bounds, NoTmp0Overflow, ShownBound,
           LastChunkReserved, chunk_header_len, crlf_len, last_chunk_len
  <2>6. QED
    BY <2>3, <2>4, <2>5, IInvFromParts
<1>7. CASE StreamClose
  <2>1. Flags'
    BY <1>0, <1>7, Zenon DEF StreamClose, Flags
  <2>2. Nums'
    BY <1>0, <1>7 DEF StreamClose, Nums, last_chunk_len
  <2>3. dec' \in DecType
    BY <1>0, <1>7, FeedChunkType DEF StreamClose
  <2>4. Bounds'
    BY <1>0, <1>7 DEF StreamClose, Nums, Bounds, NoTmp0Overflow, ShownBound,
          LastChunkReserved, last_chunk_len
  <2>5. QED
    BY <2>1, <2>2, <2>3, <2>4, IInvFromParts
<1>8. CASE UNCHANGED vars
  BY <1>8 DEF vars, IInv, TypeOK, NoTmp0Overflow, ShownBound,
        LastChunkReserved
<1>9. QED
  BY <1>1, <1>2, <1>3, <1>4, <1>5, <1>6, <1>7, <1>8 DEF Next

\* IInv holds in every reachable state.
THEOREM IInvHolds == Spec => []IInv
BY InitIInv, NextIInv, PTL DEF Spec

\* Every variable keeps its type (TypeOK), for every value of the constants.
THEOREM TypeCorrect == Spec => []TypeOK
BY IInvHolds, PTL DEF IInv

\* No write into tmp0_ by prepare on a source or by stream commit/close
\* exceeds the workspace (NoTmp0Overflow), for every workspace of at least
\* 26 bytes.
THEOREM Tmp0NeverOverflows == Spec => []NoTmp0Overflow
BY IInvHolds, PTL DEF IInv
====
