-------------------------- MODULE CompressedProofs --------------------------
(***************************************************************************)
(* Proofs about the whole serializer (CompressedSerializer), identity and  *)
(* compressed messages on one object, for every workspace, header length,  *)
(* body bound, output bound and number of messages: the type invariant and *)
(* that tmp0_ and tmp1_ stay in the regions start_* gave them               *)
(* (BuffersFitRegions).                                                    *)
(*                                                                         *)
(* BuffersFitRegions is not inductive.  A consume must not take more than  *)
(* the view holds, and the view of a compressed buffers body is tmp0_, not *)
(* out_ (CShownBound); an identity message whose body is open writes into  *)
(* the whole workspace, so its region is the workspace (IdOwnsWorkspace);  *)
(* an open identity chunked stream keeps the last chunk's room             *)
(* (IdLastChunkReserved); and no region is larger than the workspace.      *)
(***************************************************************************)
EXTENDS CompressedSerializer, SerializerProofs

\* The view never holds more than the header and the bytes the style's
\* consume takes from: out_ for an empty body and an identity buffers body,
\* tmp0_ otherwise.
CShownBound ==
  started =>
    shown <= hp + (IF st = "empty" \/ (st = "buffers" /\ ~compressed)
                     THEN out ELSE tmp0)

\* An identity message with its body open frames into the whole workspace.
IdOwnsWorkspace ==
  (more /\ ~compressed /\ st \in {"source", "stream"}) => cap0 = WsSize

\* An open identity chunked stream has room left for the last chunk.
IdLastChunkReserved ==
  (~compressed /\ st = "stream" /\ is_chunked /\ more)
    => tmp0 + last_chunk_len <= WsSize

\* Only a started message has an open body.
MoreStarted == more => started

CInv ==
  /\ CTypeOK
  /\ BuffersFitRegions
  /\ cap0 <= WsSize
  /\ CShownBound
  /\ IdOwnsWorkspace
  /\ IdLastChunkReserved
  /\ MoreStarted

-----------------------------------------------------------------------------
(* CInv split into parts, as IInv is in SerializerProofs: the flags, the   *)
(* counts and the decoder of Serializer, the types of the compression      *)
(* variables, and the bounds.                                              *)

CBools ==
  /\ compressed \in BOOLEAN
  /\ fdone \in BOOLEAN
  /\ asserted \in BOOLEAN
  /\ oob \in BOOLEAN

CCounts ==
  /\ cap0 \in Nat
  /\ zbuf \in Nat
  /\ zoff \in Nat
  /\ zcap \in Nat
  /\ bufRem \in Nat
  /\ zin \in Nat
  /\ zout \in 0 .. ZMax
  /\ msgs \in 0 .. MaxMsgs

CVarTypes == CBools /\ CCounts

CBounds ==
  /\ BuffersFitRegions
  /\ cap0 <= WsSize
  /\ CShownBound
  /\ IdOwnsWorkspace
  /\ IdLastChunkReserved
  /\ MoreStarted

LEMMA CInvParts ==
  CInv <=> Flags /\ Nums /\ dec \in DecType /\ CVarTypes /\ CBounds
BY DEF CInv, CTypeOK, TypeOK, Flags, Nums, DecType, CVarTypes, CBools,
       CCounts, CBounds

LEMMA CInvFromParts ==
  ASSUME Flags', Nums', dec' \in DecType, CVarTypes', CBounds'
  PROVE  CInv'
BY DEF CInv, CTypeOK, TypeOK, Flags, Nums, DecType, CVarTypes, CBools,
       CCounts, CBounds

\* The initial state: a new object, no message.
LEMMA CInitCInv == CInit => CInv
<1> SUFFICES ASSUME CInit
             PROVE  Flags /\ Nums /\ dec \in DecType /\ CVarTypes /\ CBounds
  BY CInvParts
<1>1. Flags /\ Nums /\ dec \in DecType
  BY InitIInv, IInvParts DEF CInit
<1>2. CVarTypes
  <2>1. ZMax \in Nat /\ MaxMsgs \in Nat
    BY CAssumption
  <2>2. /\ compressed = FALSE /\ fdone = FALSE /\ cap0 = 0 /\ zbuf = 0
        /\ zoff = 0 /\ zcap = 0 /\ bufRem = 0 /\ zin = 0 /\ zout = 0
        /\ asserted = FALSE /\ oob = FALSE /\ msgs = 0
    BY DEF CInit
  <2>3. CBools
    BY <2>2, Zenon DEF CBools
  <2>4. CCounts
    BY <2>1, <2>2 DEF CCounts
  <2>5. QED
    BY <2>3, <2>4 DEF CVarTypes
<1>3. CBounds
  BY Assumption DEF CInit, Init, CBounds, BuffersFitRegions, CShownBound,
        IdOwnsWorkspace, IdLastChunkReserved, MoreStarted
<1>4. QED
  BY <1>1, <1>2, <1>3

\* A sum of naturals is not negative (cited on primed variables, whose sums
\* the SMT backend cannot sort by itself).
LEMMA SumNat ==
  ASSUME NEW a \in Nat, NEW b \in Nat
  PROVE  0 <= a + b
OBVIOUS

-----------------------------------------------------------------------------
(* Steps that every message, identity or compressed, takes.                *)

\* What any identity start_* leaves, whatever state it starts from.
LEMMA StartFacts ==
  ASSUME Start
  PROVE  /\ Flags' /\ Nums' /\ dec' \in DecType
         /\ tmp0' = 0 /\ shown' = 0 /\ started'
<1>1. PICK c \in BOOLEAN, e \in BOOLEAN :
        \/ StartEmpty(c, e)
        \/ \E b \in BufferBodies : StartBuffers(c, e, b)
        \/ \E n \in 0 .. MaxBody : StartPull(c, e, "source", n)
        \/ StartPull(c, e, "stream", 0)
  BY DEF Start
<1>2. DecInit(c) \in DecType
  BY DecInitType
<1>3. CASE StartEmpty(c, e)
  <2>1. Flags'
    BY <1>3, Zenon DEF StartEmpty, StartInit, Flags, Styles
  <2>2. Nums'
    BY <1>3, Assumption DEF StartEmpty, StartInit, Nums, last_chunk_len
  <2>3. dec' \in DecType
    BY <1>2, <1>3, FeedChunkType DEF StartEmpty
  <2>4. QED
    BY <1>3, <2>1, <2>2, <2>3 DEF StartEmpty, StartInit
<1>4. CASE \E b \in BufferBodies : StartBuffers(c, e, b)
  <2>1. PICK b \in BufferBodies : StartBuffers(c, e, b)
    BY <1>4
  <2>2. b \in 0 .. MaxBody
    BY Assumption
  <2>3. Flags'
    BY <2>1, Zenon DEF StartBuffers, StartInit, Flags, Styles
  <2>4. Nums'
    BY <2>1, <2>2, Assumption DEF StartBuffers, StartInit, Nums,
          last_chunk_len, chunk_header_len, crlf_len
  <2>5. dec' \in DecType
    <3>1. Data(b) \in PieceType
      BY <2>2 DEF Data, PieceType
    <3>2. FeedLast(FeedChunk(DecInit(c), b)) \in DecType
      BY <1>2, <2>2, FeedChunkType
    <3>3. Feed(DecInit(c), Data(b)) \in DecType
      BY <1>2, <3>1, FeedType
    <3>4. QED
      BY <2>1, <3>2, <3>3 DEF StartBuffers
  <2>6. QED
    BY <2>1, <2>3, <2>4, <2>5 DEF StartBuffers, StartInit
<1>5. CASE \E n \in 0 .. MaxBody : StartPull(c, e, "source", n)
  <2>1. PICK n \in 0 .. MaxBody : StartPull(c, e, "source", n)
    BY <1>5
  <2>2. Flags'
    BY <2>1, Zenon DEF StartPull, StartInit, Flags, Styles
  <2>3. Nums'
    BY <2>1, Assumption DEF StartPull, StartInit, Nums
  <2>4. QED
    BY <1>2, <2>1, <2>2, <2>3 DEF StartPull, StartInit
<1>6. CASE StartPull(c, e, "stream", 0)
  <2>1. Flags'
    BY <1>6, Zenon DEF StartPull, StartInit, Flags, Styles
  <2>2. Nums'
    BY <1>6, Assumption DEF StartPull, StartInit, Nums
  <2>3. QED
    BY <1>2, <1>6, <2>1, <2>2 DEF StartPull, StartInit
<1>7. QED
  BY <1>1, <1>3, <1>4, <1>5, <1>6

\* An identity start_*: tmp0_ is set up on the whole workspace for a
\* source or a stream; the compression state is cleared.
LEMMA IdStartCInv ==
  ASSUME CInv, IdStart
  PROVE  CInv'
<1>0. Flags /\ Nums /\ dec \in DecType /\ CVarTypes /\ CBounds
  BY CInvParts
<1>1. /\ Flags' /\ Nums' /\ dec' \in DecType
      /\ tmp0' = 0 /\ shown' = 0 /\ started'
  BY StartFacts DEF IdStart
<1>2. /\ cap0' = IF st' \in {"source", "stream"} THEN WsSize ELSE cap0
      /\ compressed' = FALSE /\ fdone' = FALSE /\ zin' = 0 /\ zout' = 0
      /\ msgs' = msgs + 1 /\ msgs < MaxMsgs
      /\ UNCHANGED <<zbuf, zoff, zcap, bufRem, asserted, oob>>
  BY DEF IdStart
<1>3. CVarTypes'
  <2>1. CBools'
    BY <1>0, <1>2, Zenon DEF CVarTypes, CBools
  <2>2. CCounts'
    BY <1>0, <1>2, Assumption, CAssumption DEF CVarTypes, CCounts
  <2>3. QED
    BY <2>1, <2>2 DEF CVarTypes
<1>4. cap0' \in Nat /\ cap0' <= WsSize
  BY <1>0, <1>2, Assumption DEF CBounds, CVarTypes, CCounts
<1>5. CBounds'
  <2>1. BuffersFitRegions'
    BY <1>0, <1>1, <1>2, <1>4 DEF BuffersFitRegions, CBounds
  <2>2. CShownBound'
    <3>0. hp' \in Nat /\ out' \in Nat /\ tmp0' \in Nat
      BY <1>1 DEF Nums
    <3>1. 0 <= hp' + out' /\ 0 <= hp' + tmp0'
      BY <3>0, SumNat, Zenon
    <3>2. QED
      BY <1>1, <3>1, Zenon DEF CShownBound
  <2>3. IdOwnsWorkspace'
    BY <1>2 DEF IdOwnsWorkspace
  <2>4. IdLastChunkReserved'
    BY <1>1, Assumption DEF IdLastChunkReserved, last_chunk_len
  <2>5. MoreStarted'
    BY <1>1 DEF MoreStarted
  <2>6. QED
    BY <1>4, <2>1, <2>2, <2>3, <2>4, <2>5 DEF CBounds
<1>6. QED
  BY <1>1, <1>3, <1>5, CInvFromParts

\* A step that leaves the compression state alone keeps its types.
LEMMA CVarsUnchanged ==
  ASSUME CVarTypes, UNCHANGED cvars
  PROVE  CVarTypes'
<1>1. CBools'
  BY Zenon DEF CVarTypes, CBools, cvars
<1>2. CCounts'
  BY DEF CVarTypes, CCounts, cvars
<1>3. QED
  BY <1>1, <1>2 DEF CVarTypes

\* reset() closes the body and forgets the message; nothing is moved.
LEMMA CResetCInv ==
  ASSUME CInv, CReset
  PROVE  CInv'
<1>0. Flags /\ Nums /\ dec \in DecType /\ CVarTypes /\ CBounds
  BY CInvParts
<1>1. /\ started' = FALSE /\ more' = FALSE /\ is_done' = FALSE
      /\ is_chunked' = FALSE /\ is_expect_continue' = FALSE
      /\ compressed' = FALSE /\ fdone' = FALSE
      /\ UNCHANGED <<st, hp, out, tmp0, shown, srcRem, given, sent, dec>>
      /\ UNCHANGED <<cap0, zbuf, zoff, zcap, bufRem, zin, zout, asserted, oob,
                     msgs>>
  BY DEF CReset, Reset
<1>2. Flags'
  BY <1>0, <1>1, Zenon DEF Flags
<1>3. Nums' /\ dec' \in DecType
  BY <1>0, <1>1 DEF Nums
<1>4. CVarTypes'
  <2>1. CBools'
    BY <1>0, <1>1, Zenon DEF CVarTypes, CBools
  <2>2. CCounts'
    BY <1>0, <1>1 DEF CVarTypes, CCounts
  <2>3. QED
    BY <2>1, <2>2 DEF CVarTypes
<1>5. CBounds'
  BY <1>0, <1>1 DEF CBounds, BuffersFitRegions, CShownBound, IdOwnsWorkspace,
        IdLastChunkReserved, MoreStarted
<1>6. QED
  BY <1>2, <1>3, <1>4, <1>5, CInvFromParts

\* The Expect: 100-continue branch of prepare(): the view is the header or
\* nothing.
LEMMA ExpectPrepareCInv ==
  ASSUME CInv, ExpectPrepare
  PROVE  CInv'
<1>0. Flags /\ Nums /\ dec \in DecType /\ CVarTypes /\ CBounds
  BY CInvParts
<1>1. /\ shown' \in {hp, 0}
      /\ is_expect_continue' \in BOOLEAN
      /\ UNCHANGED <<st, started, is_done, is_chunked, more, hp, out, tmp0,
                     srcRem, given, sent, dec>>
      /\ UNCHANGED cvars
  BY Zenon DEF ExpectPrepare, PrepareHeaderOnly, PrepareExpect100
<1>2. Flags'
  BY <1>0, <1>1, Zenon DEF Flags
<1>3. Nums' /\ dec' \in DecType
  BY <1>0, <1>1 DEF Nums
<1>4. CVarTypes'
  BY <1>0, <1>1, CVarsUnchanged
<1>5. CBounds'
  <2>1. shown' <= hp + (IF st = "empty" \/ (st = "buffers" /\ ~compressed)
                          THEN out ELSE tmp0)
    BY <1>0, <1>1 DEF Nums
  <2>2. CShownBound'
    BY <1>1, <2>1, Zenon DEF CShownBound, cvars
  <2>3. QED
    BY <1>0, <1>1, <2>2 DEF CBounds, BuffersFitRegions, IdOwnsWorkspace,
          IdLastChunkReserved, MoreStarted, cvars
<1>6. QED
  BY <1>2, <1>3, <1>4, <1>5, CInvFromParts

\* consume(n) ending inside the header (either coding).
LEMMA HeaderConsumeCInv ==
  ASSUME CInv, HeaderConsume
  PROVE  CInv'
<1>0. Flags /\ Nums /\ dec \in DecType /\ CVarTypes /\ CBounds
  BY CInvParts
<1>1. PICK n \in 0 .. shown :
        /\ started /\ n <= hp
        /\ hp' = hp - n /\ shown' = shown - n
        /\ UNCHANGED <<st, started, is_done, is_chunked, is_expect_continue,
                       more, out, tmp0, srcRem, given, sent, dec>>
        /\ UNCHANGED cvars
  <2>1. PICK n \in 0 .. shown : ConsumeHeaderOnly(n) \/ ConsumeInHeader(n)
    BY DEF HeaderConsume
  <2>2. n <= hp
    BY <1>0, <2>1 DEF ConsumeHeaderOnly, ConsumeInHeader, Nums
  <2>3. UNCHANGED cvars
    BY DEF HeaderConsume
  <2>4. QED
    BY <2>1, <2>2, <2>3 DEF ConsumeHeaderOnly, ConsumeInHeader, CanConsume
<1>2. Flags'
  BY <1>0, <1>1, Zenon DEF Flags
<1>3. Nums' /\ dec' \in DecType
  <2>0. hp \in 0 .. HdrLen /\ shown \in Nat /\ n \in 0 .. shown /\ n <= hp
    BY <1>0, <1>1 DEF Nums
  <2>1. hp - n \in 0 .. HdrLen /\ shown - n \in Nat
    BY <2>0, Assumption
  <2>2. QED
    BY <1>0, <1>1, <2>1, Zenon DEF Nums
<1>4. CVarTypes'
  BY <1>0, <1>1, CVarsUnchanged
<1>5. CBounds'
  <2>1. shown - n <= (hp - n) + (IF st = "empty" \/ (st = "buffers" /\ ~compressed)
                                   THEN out ELSE tmp0)
    BY <1>0, <1>1 DEF Nums, CBounds, CShownBound
  <2>2. CShownBound'
    BY <1>1, <2>1, Zenon DEF CShownBound, cvars
  <2>3. QED
    BY <1>0, <1>1, <2>2 DEF CBounds, BuffersFitRegions, IdOwnsWorkspace,
          IdLastChunkReserved, MoreStarted, cvars
<1>6. QED
  BY <1>2, <1>3, <1>4, <1>5, CInvFromParts

-----------------------------------------------------------------------------
(* Identity-coded steps.  On a started identity message CInv gives IInv,  *)
(* and each step is a step of Serializer, so NextIInv applies; what is     *)
(* left is the region of tmp0_, which such a step fills only while the     *)
(* body of a source or a stream is open and the region is the workspace.   *)

LEMMA CInvIInv ==
  ASSUME CInv, ~compressed, started
  PROVE  IInv
<1>0. Flags /\ Nums /\ dec \in DecType /\ CVarTypes /\ CBounds
  BY CInvParts
<1>1. Bounds
  BY <1>0, Assumption DEF last_chunk_len, Bounds, NoTmp0Overflow, ShownBound, LastChunkReserved,
        CBounds, BuffersFitRegions, CShownBound, IdLastChunkReserved,
        Nums, CVarTypes, CCounts
<1>2. QED
  BY <1>0, <1>1, IInvParts

LEMMA IdStepFacts ==
  ASSUME IInv, IdPrepare \/ IdConsume \/ IdStream
  PROVE  /\ [Next]_vars
         /\ ~compressed /\ UNCHANGED cvars
         /\ UNCHANGED <<st, started>>
         /\ more' => more
         /\ tmp0' <= tmp0 \/ (more /\ st \in {"source", "stream"})
<1>0. tmp0 \in Nat /\ hp \in Nat
  BY DEF IInv, TypeOK
<1>1. CASE IdPrepare
  <2>1. CASE PrepareBuffered \/ PrepareSourceView \/ PrepareStream
    BY <1>0, <1>1, <2>1 DEF IdPrepare, Prepare, Next, PrepareBuffered,
          PrepareSourceView, PrepareStream, CanPrepare
  <2>2. CASE PrepareSourceIdentity \/ PrepareSourceChunked
    <3>1. more /\ st = "source" /\ started
      BY <2>2 DEF PrepareSourceIdentity, PrepareSourceChunked, CanPrepare
    <3>2. UNCHANGED <<st, started>>
      BY <2>2 DEF PrepareSourceIdentity, PrepareSourceChunked
    <3>3. QED
      BY <1>1, <2>2, <3>1, <3>2 DEF IdPrepare, Prepare, Next
  <2>3. QED
    BY <1>1, <2>1, <2>2 DEF IdPrepare
<1>2. CASE IdConsume
  <2>1. PICK n \in 0 .. shown : ConsumeBody(n)
    BY <1>2 DEF IdConsume
  <2>2. n >= hp /\ started /\ UNCHANGED <<st, started, more>>
    BY <2>1 DEF ConsumeBody, CanConsume
  <2>3. tmp0' <= tmp0
    <3>1. tmp0' = tmp0 \/ tmp0' = tmp0 - (n - hp)
      BY <2>1 DEF ConsumeBody
    <3>2. QED
      BY <1>0, <2>2, <3>1
  <2>4. [Next]_vars
    BY <2>1 DEF Next, Consume
  <2>5. QED
    BY <1>2, <2>2, <2>3, <2>4 DEF IdConsume
<1>3. CASE IdStream
  <2>1. more /\ st = "stream" /\ UNCHANGED <<st, started>>
    BY <1>3 DEF IdStream, StreamCommitIdentity, StreamCommitChunked,
          StreamClose
  <2>2. [Next]_vars
    BY <1>3 DEF IdStream, Next
  <2>3. QED
    BY <1>3, <2>1, <2>2 DEF IdStream
<1>4. QED
  BY <1>1, <1>2, <1>3

LEMMA IdStepCInv ==
  ASSUME CInv, IdPrepare \/ IdConsume \/ IdStream
  PROVE  CInv'
<1>0. Flags /\ Nums /\ dec \in DecType /\ CVarTypes /\ CBounds
  BY CInvParts
<1>1. ~compressed /\ started
  <2>1. CASE IdPrepare \/ IdConsume
    BY <2>1 DEF IdPrepare, IdConsume, CanPrepare, CanConsume, Prepare,
          PrepareBuffered, PrepareSourceIdentity, PrepareSourceChunked,
          PrepareSourceView, PrepareStream, ConsumeBody
  <2>2. CASE IdStream
    BY <1>0, <2>2 DEF IdStream, StreamCommitIdentity, StreamCommitChunked,
          StreamClose, CBounds, MoreStarted
  <2>3. QED
    BY <2>1, <2>2
<1>2. IInv
  BY <1>1, CInvIInv
<1>3. /\ [Next]_vars
      /\ ~compressed /\ UNCHANGED cvars
      /\ UNCHANGED <<st, started>>
      /\ more' => more
      /\ tmp0' <= tmp0 \/ (more /\ st \in {"source", "stream"})
  BY <1>2, IdStepFacts
<1>4. IInv'
  BY <1>2, <1>3, NextIInv
<1>5. Flags' /\ Nums' /\ dec' \in DecType
  BY <1>4 DEF IInv, TypeOK, Flags, Nums, DecType
<1>6. CVarTypes'
  BY <1>0, <1>3, CVarsUnchanged
<1>7. tmp0' \in Nat /\ tmp0' <= WsSize
  BY <1>4 DEF IInv, TypeOK, NoTmp0Overflow
<1>8. BuffersFitRegions'
  <2>1. tmp0' <= cap0
    <3>1. CASE tmp0' <= tmp0
      BY <1>0, <1>7, <3>1 DEF CBounds, BuffersFitRegions, CVarTypes, CCounts,
            Nums
    <3>2. CASE more /\ st \in {"source", "stream"}
      <4>1. cap0 = WsSize
        BY <1>0, <1>1, <3>2 DEF CBounds, IdOwnsWorkspace
      <4>2. QED
        BY <1>7, <4>1
    <3>3. QED
      BY <1>3, <3>1, <3>2
  <2>2. QED
    BY <1>0, <1>3, <2>1 DEF BuffersFitRegions, CBounds, cvars
<1>9. CShownBound'
  <2>1. started' => shown' <= hp' + (IF st' \in {"empty", "buffers"}
                                      THEN out' ELSE tmp0')
    BY <1>4 DEF IInv, ShownBound
  <2>2. QED
    BY <1>3, <2>1, Zenon DEF CShownBound, cvars
<1>10. IdOwnsWorkspace' /\ MoreStarted'
  BY <1>0, <1>3 DEF CBounds, IdOwnsWorkspace, MoreStarted, cvars
<1>11. IdLastChunkReserved'
  BY <1>3, <1>4, Zenon DEF IInv, LastChunkReserved, IdLastChunkReserved,
        cvars
<1>12. CBounds'
  BY <1>0, <1>3, <1>8, <1>9, <1>10, <1>11 DEF CBounds, cvars
<1>13. QED
  BY <1>5, <1>6, <1>12, CInvFromParts

-----------------------------------------------------------------------------
(* Compressed messages.                                                    *)

\* What every compressed start_* does besides its style's set-up.
LEMMA ZStartInitFacts ==
  ASSUME CInv, NEW c \in BOOLEAN, NEW e \in BOOLEAN, ZStartInit(c, e)
  PROVE  /\ started' \in BOOLEAN /\ is_done' \in BOOLEAN
         /\ is_chunked' \in BOOLEAN /\ is_expect_continue' \in BOOLEAN
         /\ shown' = 0 /\ started' /\ compressed'
         /\ CBools'
         /\ hp' = HdrLen /\ sent' = 0
         /\ zin' = 0 /\ zout' \in 0 .. ZMax /\ msgs' \in 0 .. MaxMsgs
<1>0. Flags /\ Nums /\ dec \in DecType /\ CVarTypes /\ CBounds
  BY CInvParts
<1>1. /\ started' = TRUE /\ is_done' = FALSE /\ is_chunked' = c
      /\ is_expect_continue' = e /\ hp' = HdrLen /\ shown' = 0 /\ sent' = 0
      /\ compressed' = TRUE /\ fdone' = FALSE /\ zin' = 0 /\ zout' = 0
      /\ msgs' = msgs + 1 /\ msgs < MaxMsgs
      /\ UNCHANGED <<asserted, oob>>
  BY DEF ZStartInit, StartInit
<1>2. zout' \in 0 .. ZMax /\ msgs' \in 0 .. MaxMsgs
  BY <1>0, <1>1, CAssumption DEF CVarTypes, CCounts
<1>3. CBools'
  BY <1>0, <1>1, Zenon DEF CVarTypes, CBools
<1>4. started' /\ compressed' /\ is_done' \in BOOLEAN /\ is_chunked' \in BOOLEAN
      /\ is_expect_continue' \in BOOLEAN
  BY <1>1, Zenon
<1>5. QED
  BY <1>1, <1>2, <1>3, <1>4

\* The compressed start_*: start_empty keeps tmp0_ and tmp1_ as the last
\* message left them; start_buffers sets tmp0_ up on the whole workspace;
\* start_source and start_stream split it into tmp1_ and tmp0_.
LEMMA ZStartCInv ==
  ASSUME CInv, ZStart
  PROVE  CInv'
<1>0. Flags /\ Nums /\ dec \in DecType /\ CVarTypes /\ CBounds
  BY CInvParts
<1>1. PICK c \in BOOLEAN, e \in BOOLEAN :
        \/ ZStartEmpty(c, e)
        \/ \E b \in BufferBodies : ZStartBuffers(c, e, b)
        \/ \E n \in 0 .. MaxBody : ZStartPull(c, e, "source", n)
        \/ ZStartPull(c, e, "stream", 0)
  BY DEF ZStart
<1>2. DecInit(c) \in DecType
  BY DecInitType
<1> DEFINE Common ==
      /\ started' \in BOOLEAN /\ is_done' \in BOOLEAN
      /\ is_chunked' \in BOOLEAN /\ is_expect_continue' \in BOOLEAN
      /\ shown' = 0 /\ started' /\ compressed'
      /\ CBools'
      /\ hp' = HdrLen /\ sent' = 0
      /\ zin' = 0 /\ zout' \in 0 .. ZMax /\ msgs' \in 0 .. MaxMsgs
<1>4. CASE ZStartEmpty(c, e)
  <2>1. Common
    BY <1>4, ZStartInitFacts DEF ZStartEmpty
  <2>2. /\ st' = "empty" /\ more' = FALSE
        /\ out' = (IF c THEN last_chunk_len ELSE 0)
        /\ srcRem' = 0 /\ given' = 0
        /\ dec' = (IF c THEN FeedLast(DecInit(c)) ELSE DecInit(c))
        /\ UNCHANGED <<tmp0, cap0, zbuf, zoff, zcap, bufRem>>
    BY <1>4, Zenon DEF ZStartEmpty
  <2>3. Nums' /\ dec' \in DecType /\ Flags'
    <3>1. dec' \in DecType
      <4>1. FeedLast(DecInit(c)) \in DecType
        BY <1>2, FeedChunkType
      <4>2. QED
        BY <2>2, <1>2, <4>1
    <3>2. Nums'
      <4>1. out' \in Nat
        BY <2>2 DEF last_chunk_len
      <4>2. QED
        BY <1>0, <2>1, <2>2, <4>1, Assumption DEF Nums, Common
    <3>3. Flags'
      BY <2>1, <2>2, Zenon DEF Flags, Styles, Common
    <3>4. QED
      BY <3>1, <3>2, <3>3
  <2>4. CCounts'
    BY <1>0, <2>1, <2>2 DEF CVarTypes, CCounts, Common
  <2>5. CBounds'
    <3>1. CShownBound'
      <4>1. hp' \in Nat /\ out' \in Nat /\ tmp0' \in Nat
        BY <2>3 DEF Nums
      <4>2. 0 <= hp' + out' /\ 0 <= hp' + tmp0'
        BY <4>1, SumNat, Zenon
      <4>3. QED
        BY <2>1, <4>2, Zenon DEF CShownBound, Common
    <3>2. QED
      BY <1>0, <2>1, <2>2, <3>1 DEF CBounds, BuffersFitRegions,
            IdOwnsWorkspace, IdLastChunkReserved, MoreStarted, Common
  <2>6. QED
    BY <2>1, <2>3, <2>4, <2>5, CInvFromParts DEF CVarTypes, Common
<1>5. CASE \E b \in BufferBodies : ZStartBuffers(c, e, b)
  <2>1. PICK b \in BufferBodies : ZStartBuffers(c, e, b)
    BY <1>5
  <2>2. b \in 0 .. MaxBody
    BY Assumption
  <2>3. Common
    BY <2>1, ZStartInitFacts DEF ZStartBuffers
  <2>4. /\ st' = "buffers" /\ more' = TRUE /\ out' = 0 /\ tmp0' = 0
        /\ cap0' = WsSize /\ bufRem' = b /\ given' = b /\ srcRem' = 0
        /\ dec' = DecInit(c) /\ UNCHANGED <<zbuf, zoff, zcap>>
    BY <2>1 DEF ZStartBuffers
  <2>5. Nums' /\ dec' \in DecType /\ Flags'
    <3>1. Nums' /\ dec' \in DecType
      BY <1>2, <2>2, <2>3, <2>4, Assumption DEF Nums, Common
    <3>2. Flags'
      BY <2>3, <2>4, Zenon DEF Flags, Styles, Common
    <3>3. QED
      BY <3>1, <3>2
  <2>6. CCounts'
    BY <1>0, <2>2, <2>3, <2>4, Assumption DEF CVarTypes, CCounts, Common
  <2>7. CBounds'
    <3>1. CShownBound'
      <4>1. hp' \in Nat /\ out' \in Nat /\ tmp0' \in Nat
        BY <2>5 DEF Nums
      <4>2. 0 <= hp' + out' /\ 0 <= hp' + tmp0'
        BY <4>1, SumNat, Zenon
      <4>3. QED
        BY <2>3, <4>2, Zenon DEF CShownBound, Common
    <3>2. BuffersFitRegions' /\ cap0' <= WsSize
      BY <1>0, <2>4, Assumption DEF CBounds, BuffersFitRegions
    <3>3. QED
      BY <2>3, <2>4, <3>1, <3>2 DEF CBounds, IdOwnsWorkspace,
            IdLastChunkReserved, MoreStarted, Common
  <2>8. QED
    BY <2>3, <2>5, <2>6, <2>7, CInvFromParts DEF CVarTypes, Common
<1>6. ASSUME NEW s \in {"source", "stream"}, NEW n \in 0 .. MaxBody,
             ZStartPull(c, e, s, n)
      PROVE  CInv'
  <2>1. Common
    BY <1>6, ZStartInitFacts DEF ZStartPull
  <2> DEFINE half == WsSize \div 2
  <2>2. /\ st' = s /\ more' = TRUE /\ out' = 0 /\ tmp0' = 0
        /\ cap0' = WsSize - half /\ zbuf' = 0 /\ zoff' = 0 /\ zcap' = half
        /\ bufRem' = 0 /\ srcRem' = n /\ given' = 0 /\ dec' = DecInit(c)
    BY <1>6 DEF ZStartPull
  <2>3. half \in Nat /\ WsSize - half \in Nat /\ WsSize - half <= WsSize
    BY Assumption
  <2>4. Nums' /\ dec' \in DecType /\ Flags'
    <3>1. Nums' /\ dec' \in DecType
      BY <1>2, <2>1, <2>2, Assumption DEF Nums, Common
    <3>2. Flags'
      BY <2>1, <2>2, Zenon DEF Flags, Styles, Common
    <3>3. QED
      BY <3>1, <3>2
  <2>5. CCounts'
    BY <2>1, <2>2, <2>3 DEF CCounts, Common
  <2>6. CBounds'
    <3>1. CShownBound'
      <4>1. hp' \in Nat /\ out' \in Nat /\ tmp0' \in Nat
        BY <2>4 DEF Nums
      <4>2. 0 <= hp' + out' /\ 0 <= hp' + tmp0'
        BY <4>1, SumNat, Zenon
      <4>3. QED
        BY <2>1, <4>2, Zenon DEF CShownBound, Common
    <3>2. BuffersFitRegions' /\ cap0' <= WsSize
      BY <2>2, <2>3 DEF BuffersFitRegions
    <3>3. QED
      BY <2>1, <3>1, <3>2 DEF CBounds, IdOwnsWorkspace,
            IdLastChunkReserved, MoreStarted, Common
  <2>7. QED
    BY <2>1, <2>4, <2>5, <2>6, CInvFromParts DEF CVarTypes, Common
<1>7. CASE \E n \in 0 .. MaxBody : ZStartPull(c, e, "source", n)
  BY <1>7, <1>6
<1>8. CASE ZStartPull(c, e, "stream", 0)
  <2>1. 0 \in 0 .. MaxBody
    BY Assumption
  <2>2. QED
    BY <1>8, <1>6, <2>1
<1>9. QED
  BY <1>1, <1>4, <1>5, <1>7, <1>8

\* A sum of naturals is a natural.
LEMMA SumInNat ==
  ASSUME NEW a \in Nat, NEW b \in Nat
  PROVE  a + b \in Nat
OBVIOUS

\* What the filter loop and lines 322-342 leave in tmp0_: the bytes it
\* wrote, framed as a chunk when chunked, and never more than tmp0_'s
\* capacity, because get_output offers the filter the capacity less the
\* chunk overhead and prepare() has checked that the capacity exceeds it.
LEMMA EmitFacts ==
  ASSUME CInv, ZCanPrepare, NEW k \in Nat, NEW w \in OutSizes,
         NEW fin \in BOOLEAN, Emit(k, w, fin)
  PROVE  /\ tmp0' \in Nat /\ tmp0' <= cap0
         /\ zin' \in Nat /\ zout' \in 0 .. ZMax
         /\ fdone' \in BOOLEAN /\ asserted' \in BOOLEAN
         /\ dec' \in DecType
<1>0. Flags /\ Nums /\ dec \in DecType /\ CVarTypes /\ CBounds
  BY CInvParts
<1>1. w \in 0 .. FilterRoom
  BY DEF OutSizes
<1>3. cap0 \in Nat /\ zout \in 0 .. ZMax /\ zin \in Nat
      /\ fdone \in BOOLEAN /\ asserted \in BOOLEAN
  BY <1>0 DEF CVarTypes, CCounts, CBools
<1>2. FilterRoom <= Window /\ FilterRoom <= ZMax - zout
  BY <1>3, CAssumption DEF FilterRoom, MinOf, Window, chunked_overhead,
     chunk_header_len, crlf_len, last_chunk_len
<1>4. w \in Nat /\ w <= Window /\ zout + w <= ZMax
  BY <1>1, <1>2, <1>3, CAssumption DEF FilterRoom, MinOf, Window,
     chunked_overhead, chunk_header_len, crlf_len, last_chunk_len
<1>5. zin' = zin + k /\ zout' = zout + w
  BY DEF Emit
<1>6. zin' \in Nat /\ zout' \in 0 .. ZMax
  BY <1>3, <1>4, <1>5
<1>7. fdone' \in BOOLEAN
  <2>1. fdone' = (fdone \/ fin)
    BY Zenon DEF Emit
  <2>2. QED
    BY <1>3, <2>1, Zenon
<1>8. CASE is_chunked
  <2>1. /\ tmp0' = chunk_header_len + w + crlf_len
                    + (IF fdone' THEN last_chunk_len ELSE 0)
        /\ dec' = IF fdone' THEN FeedLast(FeedChunk(dec, w))
                            ELSE FeedChunk(dec, w)
        /\ asserted' = asserted
    BY <1>8 DEF Emit
  <2>2. Window = cap0 - chunked_overhead
    BY <1>8 DEF Window
  <2>3. tmp0' \in Nat /\ tmp0' <= cap0
    <3>1. CASE fdone'
      BY <1>3, <1>4, <2>1, <2>2, <3>1
         DEF chunk_header_len, crlf_len, last_chunk_len, chunked_overhead
    <3>2. CASE ~fdone'
      BY <1>3, <1>4, <2>1, <2>2, <3>2
         DEF chunk_header_len, crlf_len, last_chunk_len, chunked_overhead
    <3>3. QED
      BY <3>1, <3>2
  <2>4. dec' \in DecType
    <3>1. FeedChunk(dec, w) \in DecType
      BY <1>0, <1>4, FeedChunkType
    <3>2. FeedLast(FeedChunk(dec, w)) \in DecType
      BY <3>1, FeedChunkType
    <3>3. QED
      BY <2>1, <3>1, <3>2
  <2>5. QED
    BY <1>3, <2>1, <2>3, <2>4, <1>6, <1>7
<1>9. CASE ~is_chunked
  <2>1. tmp0' = w /\ dec' = Feed(dec, Data(w)) /\ asserted' = (asserted \/ w = 0)
    BY <1>9 DEF Emit
  <2>2. Window = cap0
    BY <1>9 DEF Window
  <2>3. Data(w) \in PieceType
    BY <1>4 DEF Data, PieceType
  <2>4. dec' \in DecType
    BY <1>0, <2>1, <2>3, FeedType
  <2>5. asserted' \in BOOLEAN
    BY <1>3, <2>1, Zenon
  <2>6. QED
    BY <1>4, <1>6, <1>7, <2>1, <2>2, <2>4, <2>5
<1>10. QED
  BY <1>8, <1>9

\* consume(k) of tmp1_ holding avail bytes: what is left fits tmp1_ and the
\* read position stays a position (the remainder is taken only when bytes
\* are left, and then tmp1_ is not empty).
LEMMA ZTakeBounds ==
  ASSUME NEW avail \in Nat, NEW k \in 0 .. avail, zcap \in Nat,
         zoff \in Nat, avail <= zcap, ZTake(avail, k)
  PROVE  zbuf' \in Nat /\ zbuf' <= zcap /\ zoff' \in Nat
<1>1. zbuf' \in Nat /\ zbuf' <= zcap
  BY DEF ZTake
<1>2. CASE avail - k = 0
  BY <1>2 DEF ZTake
<1>3. CASE avail - k # 0
  <2>1. zcap \in Nat \ {0}
    BY <1>3
  <2>2. (zoff + k) % zcap \in Nat
    BY <2>1
  <2>3. QED
    BY <1>3, <2>2 DEF ZTake
<1>4. QED
  BY <1>1, <1>2, <1>3

\* consume(k) of tmp1_ holding avail bytes, k of which the filter took:
\* the bytes taken and those left add up to what they did before.
LEMMA ZTakeConserves ==
  ASSUME NEW avail \in Nat, NEW k \in 0 .. avail, NEW x \in Nat, NEW g,
         x + avail = g, ZTake(avail, k), zin' = x + k
  PROVE  zin' + zbuf' = g
<1>1. zbuf' = avail - k
  BY DEF ZTake
<1>2. QED
  BY <1>1

\* What every compressed prepare() leaves, whatever the style: the filter
\* step of EmitFacts, a view of the header and tmp0_ (out_ for an empty
\* body), and the input region tmp1_ (or buf_) within its bounds.
LEMMA ZPrepareCore ==
  ASSUME CInv, ZCanPrepare, NEW k \in Nat, NEW w \in OutSizes,
         NEW fin \in BOOLEAN, Emit(k, w, fin),
         UNCHANGED <<st, started, is_done, is_chunked, is_expect_continue,
                     hp, out, sent, cap0, zcap, compressed, msgs>>,
         more' \in BOOLEAN, srcRem' \in 0 .. MaxBody, given' \in Nat,
         zbuf' \in Nat, zbuf' <= zcap, zoff' \in Nat, bufRem' \in Nat,
         oob' \in BOOLEAN, shown' = hp + (IF st = "empty" THEN out ELSE tmp0')
  PROVE  CInv'
<1>0. Flags /\ Nums /\ dec \in DecType /\ CVarTypes /\ CBounds
  BY CInvParts
<1>1. /\ tmp0' \in Nat /\ tmp0' <= cap0
      /\ zin' \in Nat /\ zout' \in 0 .. ZMax
      /\ fdone' \in BOOLEAN /\ asserted' \in BOOLEAN
      /\ dec' \in DecType
  BY EmitFacts
<1>2. started /\ compressed
  BY DEF ZCanPrepare, CanPrepare
<1>3. Flags'
  BY <1>0, Zenon DEF Flags
<1>4. shown' \in Nat
  <2>1. hp \in Nat /\ out \in Nat
    BY <1>0 DEF Nums
  <2>2. hp + out \in Nat /\ hp + tmp0' \in Nat
    BY <1>1, <2>1, SumInNat, Zenon
  <2>3. QED
    BY <2>2, Zenon
<1>5. Nums'
  BY <1>0, <1>1, <1>4, Zenon DEF Nums
<1>6. CVarTypes'
  <2>1. CBools'
    BY <1>0, <1>1, Zenon DEF CVarTypes, CBools
  <2>2. CCounts'
    BY <1>0, <1>1 DEF CVarTypes, CCounts
  <2>3. QED
    BY <2>1, <2>2 DEF CVarTypes
<1>7. CBounds'
  <2>1. BuffersFitRegions' /\ cap0' <= WsSize
    BY <1>0, <1>1 DEF CBounds, BuffersFitRegions
  <2>2. CShownBound'
    <3>1. CASE st = "empty"
      <4>1. shown' = hp' + out'
        BY <3>1, Zenon
      <4>2. QED
        BY <3>1, <4>1 DEF CShownBound
    <3>2. CASE st # "empty"
      <4>1. shown' = hp' + tmp0'
        BY <3>2, Zenon
      <4>2. ~(st' = "empty" \/ (st' = "buffers" /\ ~compressed'))
        BY <1>2, <3>2
      <4>3. QED
        BY <4>1, <4>2 DEF CShownBound
    <3>3. QED
      BY <3>1, <3>2
  <2>3. IdOwnsWorkspace' /\ IdLastChunkReserved' /\ MoreStarted'
    BY <1>2 DEF IdOwnsWorkspace, IdLastChunkReserved, MoreStarted
  <2>4. QED
    BY <2>1, <2>2, <2>3 DEF CBounds
<1>8. QED
  BY <1>1, <1>3, <1>5, <1>6, <1>7, CInvFromParts

\* prepare() of a compressed message, each style: the input taken stays in
\* the input region and the remaining counts stay natural.
LEMMA ZPrepareCInv ==
  ASSUME CInv, ZPrepare
  PROVE  CInv'
<1>0. Flags /\ Nums /\ dec \in DecType /\ CVarTypes /\ CBounds
  BY CInvParts
<1>1. zbuf \in Nat /\ zcap \in Nat /\ bufRem \in Nat /\ zbuf <= zcap
      /\ zoff \in Nat
      /\ oob \in BOOLEAN /\ more \in BOOLEAN
      /\ srcRem \in 0 .. MaxBody /\ given \in Nat
  BY <1>0 DEF CVarTypes, CCounts, CBools, CBounds, BuffersFitRegions,
     Flags, Nums
<1>2. CASE ZPrepareBuffers
  <2>1. PICK k \in 0 .. bufRem, w \in OutSizes, fin \in BOOLEAN :
          /\ bufRem' = bufRem - k
          /\ more' = (more /\ bufRem - k > 0)
          /\ Emit(k, w, fin)
    BY <1>2 DEF ZPrepareBuffers
  <2>2. /\ ZCanPrepare /\ st = "buffers" /\ ZView
        /\ UNCHANGED <<st, started, is_done, is_chunked, is_expect_continue,
                       hp, out, sent, cap0, zcap, compressed, msgs>>
        /\ UNCHANGED <<srcRem, given, zbuf, zoff, oob>>
    BY <1>2 DEF ZPrepareBuffers
  <2>3. more' \in BOOLEAN
    BY <2>1, <1>1, Zenon
  <2>4. shown' = hp + (IF st = "empty" THEN out ELSE tmp0')
    BY <2>2 DEF ZView
  <2>5. QED
    BY <1>1, <2>1, <2>2, <2>3, <2>4, ZPrepareCore
<1>3. CASE ZPrepareSource
  <2>1. PICK r \in ReadResults(zcap - zbuf) :
          \E k \in 0 .. zbuf + r.b, w \in OutSizes, fin \in BOOLEAN :
            /\ ZTake(zbuf + r.b, k)
            /\ more' = ~r.fin
            /\ srcRem' = srcRem - r.b
            /\ given' = given + r.b
            /\ Emit(k, w, fin)
    BY <1>3 DEF ZPrepareSource
  <2>2. PICK k \in 0 .. zbuf + r.b, w \in OutSizes, fin \in BOOLEAN :
            /\ ZTake(zbuf + r.b, k)
            /\ more' = ~r.fin
            /\ srcRem' = srcRem - r.b
            /\ given' = given + r.b
            /\ Emit(k, w, fin)
    BY <2>1
  <2>3. r.b \in Nat /\ r.b <= zcap - zbuf /\ r.b <= srcRem /\ r.fin \in BOOLEAN
    BY <1>1 DEF ReadResults, MinOf
  <2>4. /\ ZCanPrepare /\ st = "source" /\ ZView
        /\ UNCHANGED <<st, started, is_done, is_chunked, is_expect_continue,
                       hp, out, sent, cap0, zcap, compressed, msgs>>
        /\ UNCHANGED <<bufRem, oob>>
    BY <1>3 DEF ZPrepareSource
  <2>5. zbuf' \in Nat /\ zbuf' <= zcap /\ zoff' \in Nat
        /\ srcRem' \in 0 .. MaxBody /\ given' \in Nat /\ k \in Nat
    <3>1. k \in 0 .. zbuf + r.b
      OBVIOUS
    <3>2. zbuf' \in Nat /\ zbuf' <= zcap /\ zoff' \in Nat
      <4>1. zbuf + r.b \in Nat /\ zbuf + r.b <= zcap
        BY <1>1, <2>3
      <4>2. QED
        BY <1>1, <2>2, <3>1, <4>1, ZTakeBounds
    <3>3. srcRem - r.b \in 0 .. MaxBody /\ given + r.b \in Nat
      BY <1>1, <2>3, Assumption
    <3>4. QED
      BY <2>2, <3>1, <3>2, <3>3, <1>1, <2>3
  <2>6. more' \in BOOLEAN
    BY <2>2, <2>3, Zenon
  <2>7. shown' = hp + (IF st = "empty" THEN out ELSE tmp0')
    BY <2>4 DEF ZView
  <2>8. QED
    BY <1>1, <2>2, <2>4, <2>5, <2>6, <2>7, ZPrepareCore
<1>4. CASE ZPrepareStream
  <2>1. PICK k \in 0 .. zbuf, w \in OutSizes, fin \in BOOLEAN :
          /\ ZTake(zbuf, k)
          /\ Emit(k, w, fin)
    BY <1>4 DEF ZPrepareStream
  <2>2. /\ ZCanPrepare /\ st = "stream" /\ ZView
        /\ UNCHANGED <<st, started, is_done, is_chunked, is_expect_continue,
                       hp, out, sent, cap0, zcap, compressed, msgs>>
        /\ UNCHANGED <<more, srcRem, given, bufRem, oob>>
    BY <1>4 DEF ZPrepareStream
  <2>3. zbuf' \in Nat /\ zbuf' <= zcap /\ zoff' \in Nat /\ k \in Nat
    BY <1>1, <2>1, ZTakeBounds
  <2>4. shown' = hp + (IF st = "empty" THEN out ELSE tmp0')
    BY <2>2 DEF ZView
  <2>5. QED
    BY <1>1, <2>1, <2>2, <2>3, <2>4, ZPrepareCore
<1>5. CASE ZPrepareEmpty
  <2>1. PICK k \in 0 .. zbuf, w \in OutSizes, fin \in BOOLEAN :
          /\ ZTake(zbuf, k)
          /\ Emit(k, w, fin)
    BY <1>5 DEF ZPrepareEmpty
  <2>2. /\ ZCanPrepare /\ st = "empty" /\ oob' = TRUE /\ shown' = hp + out
        /\ UNCHANGED <<st, started, is_done, is_chunked, is_expect_continue,
                       hp, out, sent, cap0, zcap, compressed, msgs>>
        /\ UNCHANGED <<more, srcRem, given, bufRem>>
    BY <1>5 DEF ZPrepareEmpty
  <2>3. zbuf' \in Nat /\ zbuf' <= zcap /\ zoff' \in Nat /\ k \in Nat
        /\ oob' \in BOOLEAN
    BY <1>1, <2>1, <2>2, ZTakeBounds
  <2>4. shown' = hp + (IF st = "empty" THEN out ELSE tmp0')
    BY <2>2
  <2>5. QED
    BY <1>1, <2>1, <2>2, <2>3, <2>4, ZPrepareCore
<1>6. QED
  BY <1>2, <1>3, <1>4, <1>5 DEF ZPrepare

\* consume(n) past the header of a compressed message: the bytes come out
\* of tmp0_ (out_ for an empty body), and there are as many as the view
\* showed past the header, so neither count goes below zero.
LEMMA ZConsumeCInv ==
  ASSUME CInv, ZConsume
  PROVE  CInv'
<1>0. Flags /\ Nums /\ dec \in DecType /\ CVarTypes /\ CBounds
  BY CInvParts
<1>1. PICK n \in 0 .. shown : ZConsumeBody(n)
  BY DEF ZConsume
<1>2. /\ started /\ compressed /\ n >= hp /\ hp' = 0 /\ shown' = shown - n
      /\ UNCHANGED <<st, started, is_chunked, is_expect_continue, more,
                     srcRem, given, sent, dec>>
      /\ UNCHANGED cvars
  BY <1>1 DEF ZConsumeBody, CanConsume
<1>3. hp \in Nat /\ out \in Nat /\ tmp0 \in Nat /\ shown \in Nat
  BY <1>0 DEF Nums
<1> DEFINE X == IF st = "empty" THEN out ELSE tmp0
<1>4. shown <= hp + X
  BY <1>0, <1>2 DEF CBounds, CShownBound
<1>5. CASE st = "empty"
  <2>1. out' = out - (n - hp) /\ is_done' = (out - (n - hp) = 0)
        /\ UNCHANGED tmp0
    BY <1>1, <1>5 DEF ZConsumeBody
  <2>2. out' \in Nat /\ shown' \in Nat /\ shown' <= hp' + out'
    BY <1>2, <1>3, <1>4, <1>5, <2>1
  <2>3. is_done' \in BOOLEAN
    BY <2>1, Zenon
  <2>4. Flags'
    BY <1>0, <1>2, <2>3, Zenon DEF Flags
  <2>5. Nums'
    BY <1>0, <1>2, <2>1, <2>2, Assumption DEF Nums
  <2>6. CVarTypes'
    BY <1>0, <1>2, CVarsUnchanged
  <2>7. CBounds'
    BY <1>0, <1>2, <1>5, <2>1, <2>2
       DEF CBounds, BuffersFitRegions, CShownBound, IdOwnsWorkspace,
           IdLastChunkReserved, MoreStarted, cvars
  <2>8. QED
    BY <1>0, <1>2, <2>4, <2>5, <2>6, <2>7, CInvFromParts
<1>6. CASE st # "empty"
  <2>1. tmp0' = tmp0 - (n - hp) /\ is_done' = (tmp0 - (n - hp) = 0 /\ fdone)
        /\ UNCHANGED out
    BY <1>1, <1>6 DEF ZConsumeBody
  <2>2. tmp0' \in Nat /\ tmp0' <= tmp0 /\ shown' \in Nat
        /\ shown' <= hp' + tmp0'
    BY <1>2, <1>3, <1>4, <1>6, <2>1
  <2>3. is_done' \in BOOLEAN
    BY <2>1, Zenon
  <2>4. Flags'
    BY <1>0, <1>2, <2>3, Zenon DEF Flags
  <2>5. Nums'
    BY <1>0, <1>2, <2>1, <2>2, Assumption DEF Nums
  <2>6. CVarTypes'
    BY <1>0, <1>2, CVarsUnchanged
  <2>7. CBounds'
    <3>1. compressed' /\ st' # "empty" /\ started' /\ cap0' = cap0
      BY <1>2, <1>6 DEF cvars
    <3>2. BuffersFitRegions' /\ cap0' <= WsSize
      <4>1. tmp0 <= cap0 /\ zbuf <= zcap /\ cap0 <= WsSize /\ cap0 \in Nat
        BY <1>0 DEF CBounds, BuffersFitRegions, CVarTypes, CCounts
      <4>2. zbuf' = zbuf /\ zcap' = zcap
        BY <1>2 DEF cvars
      <4>3. QED
        BY <1>3, <2>2, <3>1, <4>1, <4>2 DEF BuffersFitRegions
    <3>3. CShownBound'
      BY <2>2, <3>1 DEF CShownBound
    <3>4. IdOwnsWorkspace' /\ IdLastChunkReserved' /\ MoreStarted'
      BY <3>1 DEF IdOwnsWorkspace, IdLastChunkReserved, MoreStarted
    <3>5. QED
      BY <3>2, <3>3, <3>4 DEF CBounds
  <2>8. QED
    BY <1>0, <1>2, <2>4, <2>5, <2>6, <2>7, CInvFromParts
<1>7. QED
  BY <1>5, <1>6

\* commit(n) on the stream handle of a compressed message: at most the
\* free space of tmp1_ that prepare() offered.
LEMMA ZStreamCommitCInv ==
  ASSUME CInv, ZStreamCommit
  PROVE  CInv'
<1>0. Flags /\ Nums /\ dec \in DecType /\ CVarTypes /\ CBounds
  BY CInvParts
<1>1. PICK n \in 1 .. MinOf(zcap - zbuf, MaxBody - given) :
        zbuf' = zbuf + n /\ given' = given + n
  BY DEF ZStreamCommit
<1>2. /\ compressed
      /\ UNCHANGED <<st, started, is_done, is_chunked, is_expect_continue,
                     more, hp, out, tmp0, shown, srcRem, sent, dec>>
      /\ UNCHANGED <<compressed, fdone, cap0, zoff, zcap, bufRem, zin, zout,
                     asserted, oob, msgs>>
  BY DEF ZStreamCommit
<1>3. zbuf \in Nat /\ zcap \in Nat /\ given \in Nat /\ zbuf <= zcap
  BY <1>0 DEF CVarTypes, CCounts, CBounds, BuffersFitRegions, Nums
<1>4. zbuf' \in Nat /\ zbuf' <= zcap /\ given' \in Nat
  BY <1>1, <1>3, Assumption DEF MinOf
<1>5. Flags'
  BY <1>0, <1>2 DEF Flags
<1>6. Nums'
  BY <1>0, <1>2, <1>4 DEF Nums
<1>7. CVarTypes'
  <2>1. CBools'
    BY <1>0, <1>2 DEF CVarTypes, CBools
  <2>2. CCounts'
    BY <1>0, <1>2, <1>4 DEF CVarTypes, CCounts
  <2>3. QED
    BY <2>1, <2>2 DEF CVarTypes
<1>8. CBounds'
  BY <1>0, <1>2, <1>4 DEF CBounds, BuffersFitRegions, CShownBound,
     IdOwnsWorkspace, IdLastChunkReserved, MoreStarted
<1>9. QED
  BY <1>0, <1>2, <1>5, <1>6, <1>7, <1>8, CInvFromParts

\* close() on the stream handle of a compressed message only clears more_.
LEMMA ZStreamCloseCInv ==
  ASSUME CInv, ZStreamClose
  PROVE  CInv'
<1>0. Flags /\ Nums /\ dec \in DecType /\ CVarTypes /\ CBounds
  BY CInvParts
<1>1. /\ compressed /\ more' = FALSE
      /\ UNCHANGED <<st, started, is_done, is_chunked, is_expect_continue, hp,
                     out, tmp0, shown, srcRem, given, sent, dec>>
      /\ UNCHANGED cvars
  BY DEF ZStreamClose
<1>2. Flags'
  BY <1>0, <1>1, Zenon DEF Flags
<1>3. Nums'
  BY <1>0, <1>1 DEF Nums
<1>4. CVarTypes'
  BY <1>0, <1>1, CVarsUnchanged
<1>5. CBounds'
  BY <1>0, <1>1 DEF CBounds, BuffersFitRegions, CShownBound,
     IdOwnsWorkspace, IdLastChunkReserved, MoreStarted, cvars
<1>6. QED
  BY <1>0, <1>1, <1>2, <1>3, <1>4, <1>5, CInvFromParts

-----------------------------------------------------------------------------
(* The whole object.                                                       *)

\* Every step of the object, identity or compressed, and every stutter,
\* keeps CInv.
LEMMA CNextCInv ==
  ASSUME CInv, [CNext]_allvars
  PROVE  CInv'
<1>1. CASE IdStart
  BY <1>1, IdStartCInv
<1>2. CASE CReset
  BY <1>2, CResetCInv
<1>3. CASE ExpectPrepare
  BY <1>3, ExpectPrepareCInv
<1>4. CASE HeaderConsume
  BY <1>4, HeaderConsumeCInv
<1>5. CASE IdPrepare \/ IdConsume \/ IdStream
  BY <1>5, IdStepCInv
<1>6. CASE ZStart
  BY <1>6, ZStartCInv
<1>7. CASE ZPrepare
  BY <1>7, ZPrepareCInv
<1>8. CASE ZConsume
  BY <1>8, ZConsumeCInv
<1>9. CASE ZStreamCommit
  BY <1>9, ZStreamCommitCInv
<1>10. CASE ZStreamClose
  BY <1>10, ZStreamCloseCInv
<1>11. CASE UNCHANGED allvars
  <2>1. Flags /\ Nums /\ dec \in DecType /\ CVarTypes /\ CBounds
    BY CInvParts
  <2>2. UNCHANGED vars /\ UNCHANGED cvars
    BY <1>11 DEF allvars
  <2>3. Flags' /\ Nums' /\ dec' \in DecType
    BY <2>1, <2>2 DEF vars, Flags, Nums
  <2>4. CVarTypes'
    BY <2>1, <2>2, CVarsUnchanged
  <2>5. CBounds'
    BY <2>1, <2>2 DEF vars, cvars, CBounds, BuffersFitRegions, CShownBound,
       IdOwnsWorkspace, IdLastChunkReserved, MoreStarted
  <2>6. QED
    BY <2>3, <2>4, <2>5, CInvFromParts
<1>12. QED
  BY <1>1, <1>2, <1>3, <1>4, <1>5, <1>6, <1>7, <1>8, <1>9, <1>10, <1>11
     DEF CNext

\* CInv holds in every state of the object, over any sequence of messages
\* of any styles and codings, for every workspace size (at least the 26
\* bytes the constructor allows), header length, body bound, output bound
\* and number of messages.
THEOREM CInvHolds == CSpec => []CInv
<1>1. CInit => CInv
  BY CInitCInv
<1>2. CInv /\ [CNext]_allvars => CInv'
  BY CNextCInv
<1>3. QED
  BY <1>1, <1>2, PTL DEF CSpec

\* Every variable of the object keeps its type (CTypeOK): in particular
\* the counts of tmp0_, tmp1_ and buf_ never go below zero, and the filter
\* never writes past the model's output bound.
THEOREM CTypeCorrect == CSpec => []CTypeOK
<1>1. CInv => CTypeOK
  BY DEF CInv
<1>2. QED
  BY <1>1, CInvHolds, PTL

\* tmp0_ never holds more than the capacity start_* gave it, and tmp1_
\* never more than its half of the workspace (BuffersFitRegions): the
\* compressed prepare() frames a chunk around what the filter wrote into
\* get_output's window, and the stream's commit(n) stays within the free
\* space of tmp1_ that its prepare() offered.
THEOREM BuffersFitRegionsHolds == CSpec => []BuffersFitRegions
<1>1. CInv => BuffersFitRegions
  BY DEF CInv
<1>2. QED
  BY <1>1, CInvHolds, PTL

=============================================================================
