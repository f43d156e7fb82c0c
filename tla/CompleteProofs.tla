--------------------------- MODULE CompleteProofs ---------------------------
(***************************************************************************)
(* The proof that is_done_ comes only with the whole message out, for the  *)
(* object that sends identity and compressed messages one after the other, *)
(* for identity and compressed buffers bodies (BuffersCompleteAtDone; a    *)
(* source or stream body can lose what tmp1_ holds, run z_wrap_loss), for  *)
(* every value of the constants when                                       *)
(* source::read returns no bytes with an error and no chunked buffers body *)
(* is empty (the hypotheses of CompleteAtDone in WireProofs).              *)
(*                                                                         *)
(* BuffersCompleteAtDone is not inductive.  A compressed message keeps     *)
(* count of its input: what the filter has taken and what is left in buf_  *)
(* or tmp1_ add up to the bytes handed over (ZConserved); once the filter  *)
(* is done buf_ is drained and the body closed (ZDrained), and             *)
(* consume() sets is_done_ only once the filter is done (ZDoneFinished).   *)
(* A started identity message satisfies the invariants of the identity     *)
(* serializer (IdWired), whatever the messages before it were.             *)
(***************************************************************************)
EXTENDS CompressedProofs, WireProofs

\* A compressed message has one of the four body styles.
ZStyled == compressed => st \in Styles

\* The bytes handed over are the bytes the filter took plus those still in
\* buf_ (buffers) or tmp1_ (source, stream); a pulled body has no buf_.
ZConserved ==
  compressed =>
    /\ st = "buffers" => zin + bufRem = given
    /\ st \in {"source", "stream"} => zin + zbuf = given /\ bufRem = 0

\* Only a compressed source body has a source to read.
ZNoSource == (compressed /\ st \in {"buffers", "stream"}) => srcRem = 0

\* Once filter_done_, the body is closed, the source read to its end and
\* buf_ drained.  (Not tmp1_: the filter may finish on its first piece.)
ZDrained ==
  (compressed /\ fdone /\ st # "empty") =>
    ~more /\ srcRem = 0 /\ bufRem = 0

\* consume() sets is_done_ on a compressed body only once filter_done_.
ZDoneFinished == (compressed /\ is_done /\ st # "empty") => fdone

\* A started identity message is framed as the identity serializer frames.
IdWired == (~compressed /\ started) => Wired /\ Framed

MInv ==
  /\ CInv
  /\ DoneStarted
  /\ IdWired
  /\ ZStyled
  /\ ZConserved
  /\ ZNoSource
  /\ ZDrained
  /\ ZDoneFinished

\* The compressed part of MInv.
ZPart == ZStyled /\ ZConserved /\ ZNoSource /\ ZDrained /\ ZDoneFinished

\* The variables the compressed part reads.
zpvars == <<compressed, st, is_done, more, srcRem, given, fdone, zbuf,
            bufRem, zin>>

LEMMA MInvParts == MInv <=> CInv /\ DoneStarted /\ IdWired /\ ZPart
BY DEF MInv, ZPart

LEMMA MInvFromParts ==
  ASSUME CInv', DoneStarted', IdWired', ZPart'
  PROVE  MInv'
BY DEF MInv, ZPart

-----------------------------------------------------------------------------
(* The initial state, and the steps that leave the compressed part alone.  *)

LEMMA MInitMInv == CInit => MInv
<1> SUFFICES ASSUME CInit PROVE CInv /\ DoneStarted /\ IdWired /\ ZPart
  BY MInvParts
<1>1. CInv
  BY CInitCInv
<1>2. ~compressed /\ ~started /\ ~is_done
  BY DEF CInit, Init
<1>3. QED
  BY <1>1, <1>2, Zenon DEF DoneStarted, IdWired, ZPart, ZStyled, ZConserved,
     ZNoSource, ZDrained, ZDoneFinished

\* A step that changes none of the variables it reads keeps the
\* compressed part.
LEMMA ZPartUnchanged ==
  ASSUME ZPart, UNCHANGED zpvars
  PROVE  ZPart'
BY Zenon DEF ZPart, zpvars, ZStyled, ZConserved, ZNoSource, ZDrained,
   ZDoneFinished

\* A step that makes the message identity-coded (or forgets it) makes the
\* compressed part vacuous.
LEMMA ZPartIdentity ==
  ASSUME ~compressed'
  PROVE  ZPart'
BY Zenon DEF ZPart, ZStyled, ZConserved, ZNoSource, ZDrained, ZDoneFinished

\* A started identity message takes a step of the identity serializer.
LEMMA IdWiredStep ==
  ASSUME CInv, IdWired, ~PartialErrorReads, 0 \notin BufferBodies,
         [Next]_vars, UNCHANGED <<compressed, started>>
  PROVE  IdWired'
<1>1. CASE ~compressed /\ started
  <2>1. IInv /\ Wired /\ Framed
    BY <1>1, CInvIInv DEF IdWired
  <2>2. Wired'
    BY <2>1, NextWired
  <2>3. Framed'
    BY <2>1, NextFramed
  <2>4. QED
    BY <2>2, <2>3 DEF IdWired
<1>2. CASE ~(~compressed /\ started)
  BY <1>2, Zenon DEF IdWired
<1>3. QED
  BY <1>1, <1>2

\* start_* of an identity message: a fresh message, framed from nothing.
LEMMA IdStartMInv ==
  ASSUME MInv, 0 \notin BufferBodies, IdStart
  PROVE  MInv'
<1>1. CInv'
  BY CNextCInv, MInvParts DEF CNext
<1>2. ~compressed' /\ ~is_done'
  BY Zenon DEF IdStart, Start, StartEmpty, StartBuffers, StartPull, StartInit
<1>3. Wired' /\ Framed'
  BY StartWired, StartFramed DEF IdStart
<1>4. QED
  <2>1. DoneStarted' /\ IdWired'
    BY <1>2, <1>3, Zenon DEF DoneStarted, IdWired
  <2>2. QED
    BY <1>1, <1>2, <2>1, ZPartIdentity, MInvFromParts

\* reset() forgets the message.
LEMMA CResetMInv ==
  ASSUME MInv, CReset
  PROVE  MInv'
<1>1. CInv'
  BY CNextCInv, MInvParts DEF CNext
<1>2. ~compressed' /\ ~is_done' /\ ~started'
  BY Zenon DEF CReset, Reset
<1>3. QED
  <2>1. DoneStarted' /\ IdWired'
    BY <1>2, Zenon DEF DoneStarted, IdWired
  <2>2. QED
    BY <1>1, <1>2, <2>1, ZPartIdentity, MInvFromParts

\* The Expect: 100-continue prepare() and a consume() inside the header
\* move no body byte.
LEMMA HeaderStepMInv ==
  ASSUME MInv, ~PartialErrorReads, 0 \notin BufferBodies,
         ExpectPrepare \/ HeaderConsume
  PROVE  MInv'
<1>0. CInv /\ DoneStarted /\ IdWired /\ ZPart
  BY MInvParts
<1>1. CInv'
  BY CNextCInv, <1>0 DEF CNext
<1>2. [Next]_vars /\ UNCHANGED zpvars /\ UNCHANGED <<compressed, started>>
  <2>1. CASE ExpectPrepare
    BY <2>1 DEF ExpectPrepare, Next, Prepare, PrepareHeaderOnly,
       PrepareExpect100, zpvars, cvars
  <2>2. CASE HeaderConsume
    BY <2>2 DEF HeaderConsume, Next, Consume, ConsumeHeaderOnly,
       ConsumeInHeader, zpvars, cvars
  <2>3. QED
    BY <2>1, <2>2
<1>3. ZPart'
  BY <1>0, <1>2, ZPartUnchanged
<1>4. DoneStarted'
  BY <1>0, <1>2, Zenon DEF DoneStarted, zpvars
<1>5. IdWired'
  BY <1>0, <1>2, IdWiredStep
<1>6. QED
  BY <1>1, <1>3, <1>4, <1>5, MInvFromParts

\* A step of an identity message (prepare, consume past the header, the
\* stream handle) is a step of the identity serializer on a started message.
LEMMA IdStepMInv ==
  ASSUME MInv, ~PartialErrorReads, 0 \notin BufferBodies,
         IdPrepare \/ IdConsume \/ IdStream
  PROVE  MInv'
<1>0. CInv /\ DoneStarted /\ IdWired /\ ZPart
  BY MInvParts
<1>1. CInv'
  BY CNextCInv, <1>0 DEF CNext
<1>2. started
  <2>1. CASE IdPrepare
    BY <2>1 DEF IdPrepare, PrepareBuffered, PrepareSourceIdentity,
       PrepareSourceChunked, PrepareSourceView, PrepareStream, CanPrepare
  <2>2. CASE IdConsume
    BY <2>2 DEF IdConsume, ConsumeBody, CanConsume
  <2>3. CASE IdStream
    <3>1. more
      BY <2>3 DEF IdStream, StreamCommitIdentity, StreamCommitChunked,
         StreamClose
    <3>2. QED
      BY <1>0, <3>1 DEF CInv, MoreStarted
  <2>4. QED
    BY <2>1, <2>2, <2>3
<1>3. ~compressed
  BY DEF IdPrepare, IdConsume, IdStream
<1>4. IInv
  BY <1>0, <1>2, <1>3, CInvIInv
<1>5. [Next]_vars /\ UNCHANGED cvars /\ UNCHANGED <<st, started>>
  BY <1>4, IdStepFacts
<1>6. ZPart'
  BY <1>3, <1>5, ZPartIdentity, Zenon DEF cvars
<1>7. DoneStarted'
  BY <1>2, <1>5, Zenon DEF DoneStarted
<1>8. IdWired'
  BY <1>0, <1>5, IdWiredStep DEF cvars
<1>9. QED
  BY <1>1, <1>6, <1>7, <1>8, MInvFromParts

-----------------------------------------------------------------------------
(* Compressed messages.                                                    *)

\* start_* of a compressed message: the filter has taken nothing, the body
\* bytes handed over are all in buf_ (buffers) or none yet (source, stream),
\* and filter_done_ is cleared.
LEMMA ZStartMInv ==
  ASSUME MInv, ZStart
  PROVE  MInv'
<1>0. CInv /\ DoneStarted /\ IdWired /\ ZPart
  BY MInvParts
<1>1. CInv'
  BY CNextCInv, <1>0 DEF CNext
<1>2. PICK c \in BOOLEAN, e \in BOOLEAN : ZStartInit(c, e)
  BY DEF ZStart, ZStartEmpty, ZStartBuffers, ZStartPull
<1>3. compressed' /\ ~is_done' /\ ~fdone' /\ zin' = 0
  BY <1>2, Zenon DEF ZStartInit, StartInit
<1>4. DoneStarted' /\ IdWired'
  BY <1>3, Zenon DEF DoneStarted, IdWired
<1>5. ZPart'
  <2>1. CASE \E c2, e2 \in BOOLEAN : ZStartEmpty(c2, e2)
    <3>1. st' = "empty"
      BY <2>1 DEF ZStartEmpty
    <3>2. QED
      BY <1>3, <3>1 DEF ZPart, ZStyled, ZConserved, ZNoSource, ZDrained,
         ZDoneFinished, Styles
  <2>2. CASE \E c2, e2 \in BOOLEAN, b \in BufferBodies : ZStartBuffers(c2, e2, b)
    <3>1. PICK c2, e2 \in BOOLEAN, b \in BufferBodies : ZStartBuffers(c2, e2, b)
      BY <2>2
    <3>2. st' = "buffers" /\ bufRem' = b /\ given' = b /\ srcRem' = 0
      BY <3>1 DEF ZStartBuffers
    <3>3. b \in Nat
      BY Assumption
    <3>4. QED
      BY <1>3, <3>2, <3>3 DEF ZPart, ZStyled, ZConserved, ZNoSource,
         ZDrained, ZDoneFinished, Styles
  <2>3. CASE \E c2, e2 \in BOOLEAN, s \in {"source", "stream"},
                n \in 0 .. MaxBody :
               /\ ZStartPull(c2, e2, s, n)
               /\ s = "stream" => n = 0
    <3>1. PICK c2, e2 \in BOOLEAN, s \in {"source", "stream"},
               n \in 0 .. MaxBody :
               /\ ZStartPull(c2, e2, s, n)
               /\ s = "stream" => n = 0
      BY <2>3
    <3>2. /\ st' = s /\ zbuf' = 0 /\ bufRem' = 0 /\ given' = 0
          /\ srcRem' = n
      BY <3>1 DEF ZStartPull
    <3>3. QED
      BY <1>3, <3>1, <3>2 DEF ZPart, ZStyled, ZConserved, ZNoSource,
         ZDrained, ZDoneFinished, Styles
  <2>4. QED
    <3>1. 0 \in 0 .. MaxBody
      BY Assumption
    <3>2. QED
      BY <2>1, <2>2, <2>3, <3>1 DEF ZStart
<1>6. QED
  BY <1>1, <1>4, <1>5, MInvFromParts

\* What every compressed prepare() keeps: the message stays compressed,
\* started and not done, with its style.
LEMMA ZPrepareFrame ==
  ASSUME ZPrepare
  PROVE  /\ compressed /\ started /\ ~is_done
         /\ UNCHANGED <<compressed, started, is_done, st>>
BY DEF ZPrepare, ZPrepareBuffers, ZPrepareSource, ZPrepareStream,
   ZPrepareEmpty, ZCanPrepare, CanPrepare

\* buffers: the filter takes k bytes of buf_; when it finishes it has taken
\* all of them and more_ is cleared.
LEMMA ZPrepareBuffersZPart ==
  ASSUME CInv, ZPart, ZPrepareBuffers
  PROVE  ZPart'
<1>0. zin \in Nat /\ bufRem \in Nat /\ given \in Nat /\ more \in BOOLEAN
      /\ fdone \in BOOLEAN
  BY DEF CInv, CTypeOK, TypeOK
<1>1. /\ compressed /\ st = "buffers" /\ ~is_done
      /\ UNCHANGED <<compressed, st, is_done, srcRem, given, zbuf>>
  BY DEF ZPrepareBuffers, ZCanPrepare, CanPrepare
<1>2. PICK k \in 0 .. bufRem, w \in OutSizes, fin \in BOOLEAN :
        /\ FilterLoop(bufRem, bufRem, more, more /\ bufRem - k > 0, k, w, fin)
        /\ bufRem' = bufRem - k
        /\ more' = (more /\ bufRem - k > 0)
        /\ Emit(k, w, fin)
  BY DEF ZPrepareBuffers
<1>3. zin' = zin + k /\ fdone' = (fdone \/ fin)
  BY <1>2 DEF Emit
<1>4. fin => k = bufRem /\ ~more'
  BY <1>2, Zenon DEF FilterLoop
<1>5. zin' + bufRem' = given'
  BY <1>0, <1>1, <1>2, <1>3 DEF ZPart, ZConserved
<1>6. srcRem' = 0
  BY <1>1 DEF ZPart, ZNoSource
<1>7. fdone' => ~more' /\ bufRem' = 0
  <2>1. CASE fin
    BY <1>2, <1>4, <2>1
  <2>2. CASE ~fin
    <3>1. (fdone /\ ~more /\ bufRem = 0) \/ ~fdone'
      BY <1>0, <1>1, <1>3, <2>2 DEF ZPart, ZDrained
    <3>2. QED
      BY <1>0, <1>2, <3>1
  <2>3. QED
    BY <2>1, <2>2
<1>8. QED
  BY <1>1, <1>5, <1>6, <1>7 DEF ZPart, ZStyled, ZConserved, ZNoSource,
     ZDrained, ZDoneFinished, Styles

\* source: one read into tmp1_, then the filter takes k bytes of tmp1_;
\* when it finishes the source has reported its end, its last bytes are in
\* tmp1_ and the filter has taken all of tmp1_.  A finished filter gets a
\* source that stays finished with no bytes.
LEMMA ZPrepareSourceZPart ==
  ASSUME CInv, ZPart, ZPrepareSource
  PROVE  ZPart'
<1>0. zin \in Nat /\ zbuf \in Nat /\ given \in Nat /\ srcRem \in Nat
      /\ more \in BOOLEAN /\ fdone \in BOOLEAN
  BY DEF CInv, CTypeOK, TypeOK
<1>1. /\ compressed /\ st = "source" /\ ~is_done
      /\ UNCHANGED <<compressed, st, is_done, bufRem>>
  BY DEF ZPrepareSource, ZCanPrepare, CanPrepare
<1>2. PICK r \in ReadResults(zcap - zbuf) :
        /\ ~more => r.fin
        /\ \E k \in 0 .. zbuf + r.b, w \in OutSizes, fin \in BOOLEAN :
             /\ FilterLoop(zbuf + r.b, Piece(zbuf + r.b), ~r.fin, ~r.fin,
                           k, w, fin)
             /\ ZTake(zbuf + r.b, k)
             /\ more' = ~r.fin
             /\ srcRem' = srcRem - r.b
             /\ given' = given + r.b
             /\ Emit(k, w, fin)
  BY DEF ZPrepareSource
<1>3. PICK k \in 0 .. zbuf + r.b, w \in OutSizes, fin \in BOOLEAN :
             /\ FilterLoop(zbuf + r.b, Piece(zbuf + r.b), ~r.fin, ~r.fin,
                           k, w, fin)
             /\ ZTake(zbuf + r.b, k)
             /\ more' = ~r.fin
             /\ srcRem' = srcRem - r.b
             /\ given' = given + r.b
             /\ Emit(k, w, fin)
  BY <1>2
<1>4. r.b \in Nat /\ r.fin \in BOOLEAN /\ (r.fin => r.b = srcRem)
  BY <1>0 DEF ReadResults, MinOf
<1>5. zin' = zin + k /\ fdone' = (fdone \/ fin)
  BY <1>3 DEF Emit
<1>6. fin => r.fin
  BY <1>3 DEF FilterLoop
<1>7. zin' + zbuf' = given' /\ bufRem' = 0
  <2>1. zin + (zbuf + r.b) = given + r.b /\ zbuf + r.b \in Nat
    BY <1>0, <1>1, <1>4 DEF ZPart, ZConserved
  <2>2. zin' + zbuf' = given + r.b
    BY <1>0, <1>3, <1>5, <2>1, ZTakeConserves
  <2>3. QED
    BY <1>1, <1>3, <2>2 DEF ZPart, ZConserved
<1>8. fdone' => ~more' /\ srcRem' = 0 /\ bufRem' = 0
  <2>1. CASE fin
    <3>1. ~more'
      BY <1>3, <1>6, <2>1, Zenon
    <3>2. srcRem' = 0
      BY <1>0, <1>3, <1>4, <1>6, <2>1
    <3>3. QED
      BY <1>7, <3>1, <3>2
  <2>2. CASE ~fin
    <3>1. (fdone /\ ~more /\ srcRem = 0) \/ ~fdone'
      BY <1>0, <1>1, <1>5, <2>2 DEF ZPart, ZDrained
    <3>2. CASE fdone /\ ~more /\ srcRem = 0
      <4>1. r.fin /\ r.b = 0
        BY <1>2, <1>4, <3>2
      <4>2. ~more'
        BY <1>3, <4>1, Zenon
      <4>3. srcRem' = 0
        BY <1>0, <1>3, <3>2, <4>1
      <4>4. QED
        BY <1>7, <4>2, <4>3
    <3>3. QED
      BY <3>1, <3>2
  <2>3. QED
    BY <2>1, <2>2
<1>9. QED
  BY <1>1, <1>7, <1>8 DEF ZPart, ZStyled, ZConserved, ZNoSource,
     ZDrained, ZDoneFinished, Styles

\* stream: the filter takes k bytes of what the caller committed to tmp1_;
\* it finishes only once close() has cleared more_ and it has taken all.
LEMMA ZPrepareStreamZPart ==
  ASSUME CInv, ZPart, ZPrepareStream
  PROVE  ZPart'
<1>0. zin \in Nat /\ zbuf \in Nat /\ given \in Nat
      /\ more \in BOOLEAN /\ fdone \in BOOLEAN
  BY DEF CInv, CTypeOK, TypeOK
<1>1. /\ compressed /\ st = "stream" /\ ~is_done
      /\ UNCHANGED <<compressed, st, is_done, more, srcRem, given, bufRem>>
  BY DEF ZPrepareStream, ZCanPrepare, CanPrepare
<1>2. PICK k \in 0 .. zbuf, w \in OutSizes, fin \in BOOLEAN :
        /\ FilterLoop(zbuf, Piece(zbuf), more, more, k, w, fin)
        /\ ZTake(zbuf, k)
        /\ Emit(k, w, fin)
  BY DEF ZPrepareStream
<1>3. zin' = zin + k /\ fdone' = (fdone \/ fin)
  BY <1>2 DEF Emit
<1>4. fin => ~more
  BY <1>2 DEF FilterLoop
<1>5. zin' + zbuf' = given' /\ bufRem' = 0 /\ srcRem' = 0
  <2>1. zin + zbuf = given
    BY <1>1 DEF ZPart, ZConserved
  <2>2. zin' + zbuf' = given
    BY <1>0, <1>2, <1>3, <2>1, ZTakeConserves
  <2>3. QED
    BY <1>1, <2>2 DEF ZPart, ZConserved, ZNoSource
<1>6. fdone' => ~more'
  <2>1. CASE fin
    BY <1>1, <1>4, <2>1
  <2>2. CASE ~fin
    <3>1. (fdone /\ ~more) \/ ~fdone'
      BY <1>0, <1>1, <1>3, <2>2 DEF ZPart, ZDrained
    <3>2. QED
      BY <1>1, <3>1
  <2>3. QED
    BY <2>1, <2>2
<1>7. QED
  BY <1>1, <1>5, <1>6 DEF ZPart, ZStyled, ZConserved, ZNoSource,
     ZDrained, ZDoneFinished, Styles

\* empty: nothing of the compressed part speaks of an empty body.
LEMMA ZPrepareEmptyZPart ==
  ASSUME ZPart, ZPrepareEmpty
  PROVE  ZPart'
<1>1. compressed /\ st = "empty" /\ ~is_done
      /\ UNCHANGED <<compressed, st, is_done>>
  BY DEF ZPrepareEmpty, ZCanPrepare, CanPrepare
<1>2. QED
  BY <1>1 DEF ZPart, ZStyled, ZConserved, ZNoSource, ZDrained,
     ZDoneFinished, Styles

LEMMA ZPrepareMInv ==
  ASSUME MInv, ZPrepare
  PROVE  MInv'
<1>0. CInv /\ DoneStarted /\ IdWired /\ ZPart
  BY MInvParts
<1>1. CInv'
  BY CNextCInv, <1>0 DEF CNext
<1>2. ZPart'
  BY <1>0, ZPrepareBuffersZPart, ZPrepareSourceZPart, ZPrepareStreamZPart,
     ZPrepareEmptyZPart DEF ZPrepare
<1>3. DoneStarted' /\ IdWired'
  <2>1. ~is_done' /\ compressed'
    BY ZPrepareFrame
  <2>2. QED
    BY <2>1, Zenon DEF DoneStarted, IdWired
<1>4. QED
  BY <1>1, <1>2, <1>3, MInvFromParts

\* consume(n) of a compressed body sets is_done_ only once filter_done_.
LEMMA ZConsumeMInv ==
  ASSUME MInv, ZConsume
  PROVE  MInv'
<1>0. CInv /\ DoneStarted /\ IdWired /\ ZPart
  BY MInvParts
<1>1. CInv'
  BY CNextCInv, <1>0 DEF CNext
<1>2. PICK n \in 0 .. shown : ZConsumeBody(n)
  BY DEF ZConsume
<1>3. /\ compressed /\ started
      /\ UNCHANGED <<st, started, more, srcRem, given>> /\ UNCHANGED cvars
  BY <1>2 DEF ZConsumeBody, CanConsume
<1>4. (is_done' /\ st # "empty") => fdone
  BY <1>2, Zenon DEF ZConsumeBody
<1>5. ZPart'
  <2>1. UNCHANGED <<compressed, st, more, srcRem, given, fdone, zbuf,
                    bufRem, zin>>
    BY <1>3 DEF cvars
  <2>2. QED
    BY <1>0, <1>4, <2>1 DEF ZPart, ZStyled, ZConserved, ZNoSource,
       ZDrained, ZDoneFinished
<1>6. DoneStarted' /\ IdWired'
  <2>1. started' /\ compressed'
    BY <1>3 DEF cvars
  <2>2. QED
    BY <2>1, Zenon DEF DoneStarted, IdWired
<1>7. QED
  BY <1>1, <1>5, <1>6, MInvFromParts

\* commit(n) on the stream handle: the n bytes handed over go to tmp1_; the
\* body is open, so the filter is not done.
LEMMA ZStreamCommitMInv ==
  ASSUME MInv, ZStreamCommit
  PROVE  MInv'
<1>0. CInv /\ DoneStarted /\ IdWired /\ ZPart
  BY MInvParts
<1>1. CInv'
  BY CNextCInv, <1>0 DEF CNext
<1>2. PICK n \in 1 .. MinOf(zcap - zbuf, MaxBody - given) :
        zbuf' = zbuf + n /\ given' = given + n
  BY DEF ZStreamCommit
<1>3. /\ compressed /\ st = "stream" /\ more
      /\ UNCHANGED <<compressed, st, started, is_done, more, srcRem, fdone,
                     bufRem, zin>>
  BY DEF ZStreamCommit
<1>4. zin \in Nat /\ zbuf \in Nat /\ given \in Nat
  BY <1>0 DEF CInv, CTypeOK, TypeOK
<1>5. ~fdone
  BY <1>0, <1>3 DEF ZPart, ZDrained
<1>6. ZPart'
  <2>1. zin' + zbuf' = given'
    BY <1>0, <1>2, <1>3, <1>4 DEF ZPart, ZConserved
  <2>2. QED
    BY <1>0, <1>3, <1>5, <2>1 DEF ZPart, ZStyled, ZConserved, ZNoSource,
       ZDrained, ZDoneFinished
<1>7. DoneStarted' /\ IdWired'
  BY <1>0, <1>3, Zenon DEF DoneStarted, IdWired
<1>8. QED
  BY <1>1, <1>6, <1>7, MInvFromParts

\* close() on the stream handle only clears more_.
LEMMA ZStreamCloseMInv ==
  ASSUME MInv, ZStreamClose
  PROVE  MInv'
<1>0. CInv /\ DoneStarted /\ IdWired /\ ZPart
  BY MInvParts
<1>1. CInv'
  BY CNextCInv, <1>0 DEF CNext
<1>2. /\ compressed /\ ~more'
      /\ UNCHANGED <<compressed, st, started, is_done, srcRem, given, fdone,
                     zbuf, bufRem, zin>>
  BY DEF ZStreamClose, cvars
<1>3. ZPart'
  BY <1>0, <1>2 DEF ZPart, ZStyled, ZConserved, ZNoSource, ZDrained,
     ZDoneFinished
<1>4. DoneStarted' /\ IdWired'
  BY <1>0, <1>2, Zenon DEF DoneStarted, IdWired
<1>5. QED
  BY <1>1, <1>3, <1>4, MInvFromParts

-----------------------------------------------------------------------------
(* The whole object.                                                       *)

LEMMA CNextMInv ==
  ASSUME ~PartialErrorReads, 0 \notin BufferBodies, MInv, [CNext]_allvars
  PROVE  MInv'
<1>1. CASE IdStart
  BY <1>1, IdStartMInv
<1>2. CASE CReset
  BY <1>2, CResetMInv
<1>3. CASE ExpectPrepare \/ HeaderConsume
  BY <1>3, HeaderStepMInv
<1>4. CASE IdPrepare \/ IdConsume \/ IdStream
  BY <1>4, IdStepMInv
<1>5. CASE ZStart
  BY <1>5, ZStartMInv
<1>6. CASE ZPrepare
  BY <1>6, ZPrepareMInv
<1>7. CASE ZConsume
  BY <1>7, ZConsumeMInv
<1>8. CASE ZStreamCommit
  BY <1>8, ZStreamCommitMInv
<1>9. CASE ZStreamClose
  BY <1>9, ZStreamCloseMInv
<1>10. CASE UNCHANGED allvars
  <2>0. CInv /\ DoneStarted /\ IdWired /\ ZPart
    BY MInvParts
  <2>1. CInv'
    BY CNextCInv, <2>0
  <2>2. UNCHANGED vars /\ UNCHANGED cvars
    BY <1>10 DEF allvars
  <2>3. ZPart'
    BY <2>0, <2>2, ZPartUnchanged DEF zpvars, vars, cvars
  <2>4. DoneStarted'
    BY <2>0, <2>2 DEF DoneStarted, vars
  <2>5. IdWired'
    BY <2>0, <2>2, IdWiredStep DEF vars, cvars
  <2>6. QED
    BY <2>1, <2>3, <2>4, <2>5, MInvFromParts
<1>11. QED
  BY <1>1, <1>2, <1>3, <1>4, <1>5, <1>6, <1>7, <1>8, <1>9, <1>10 DEF CNext

\* MInv holds in every state of the object, for every value of the
\* constants, when source::read returns no bytes with an error and no
\* chunked buffers body is empty.
THEOREM MInvHolds ==
  ASSUME ~PartialErrorReads, 0 \notin BufferBodies
  PROVE  CSpec => []MInv
<1>1. CInit => MInv
  BY MInitMInv
<1>2. MInv /\ [CNext]_allvars => MInv'
  BY CNextMInv
<1>3. QED
  BY <1>1, <1>2, PTL DEF CSpec

\* BuffersCompleteAtDone: when consume() sets is_done_ on a compressed
\* buffers body, the filter is done after taking every byte of buf_; on an
\* identity message, whatever the messages before it left, CompleteAtDone
\* holds.  For every value of the constants under the hypotheses of
\* CompleteAtDone (the runs read_error and zero_body show each one needed).
THEOREM BuffersCompleteAtDoneHolds ==
  ASSUME ~PartialErrorReads, 0 \notin BufferBodies
  PROVE  CSpec => []BuffersCompleteAtDone
<1>1. MInv => BuffersCompleteAtDone
  <2> SUFFICES ASSUME MInv, is_done
               PROVE  IF compressed
                        THEN st = "buffers" =>
                             fdone /\ zin = given /\ bufRem = 0
                        ELSE CompleteAtDone
    BY DEF BuffersCompleteAtDone
  <2>0. CInv /\ DoneStarted /\ IdWired /\ ZPart
    BY MInvParts
  <2>1. CASE compressed
    <3> SUFFICES ASSUME st = "buffers"
                 PROVE  fdone /\ zin = given /\ bufRem = 0
      BY <2>1
    <3>1. fdone
      BY <2>0, <2>1 DEF ZPart, ZDoneFinished
    <3>2. bufRem = 0
      BY <2>0, <2>1, <3>1 DEF ZPart, ZDrained
    <3>3. zin \in Nat
      BY <2>0 DEF CInv, CTypeOK
    <3>4. zin = given
      BY <2>0, <2>1, <3>2, <3>3 DEF ZPart, ZConserved
    <3>5. QED
      BY <3>1, <3>2, <3>4
  <2>2. CASE ~compressed
    <3>1. started
      BY <2>0 DEF DoneStarted
    <3>2. Wired /\ Framed /\ IInv
      BY <2>0, <2>2, <3>1, CInvIInv DEF IdWired
    <3>3. CompleteAtDone
      <4>1. ~more
        BY <3>2 DEF Wired, FOpen
      <4>2. QED
        BY <3>1, <3>2, <4>1 DEF CompleteAtDone, Wired, Closed, Framed, FBody
    <3>4. QED
      BY <2>2, <3>3
  <2>3. QED
    BY <2>1, <2>2
<1>2. QED
  BY <1>1, MInvHolds, PTL

=============================================================================
