------------------------- MODULE ZRefinementProofs -------------------------
(***************************************************************************)
(* The proof that the whole serializer, identity messages and compressed  *)
(* buffers bodies on one object, implements MessageStream                  *)
(* (RefinesMessageStream), for every value of the constants when           *)
(* source::read returns no bytes with an error and no chunked buffers body *)
(* is empty.  A compressed empty body takes stale bytes of tmp1_ into its  *)
(* body (run z_empty_leak), and a compressed source or stream body can be  *)
(* done with bytes still in tmp1_ (run z_wrap_loss): only the lemma for    *)
(* consume() needs the buffers style, those of the other steps hold for    *)
(* source and stream bodies too.                                           *)
(*                                                                         *)
(* The bytes a compressed message has taken are the filter's input once   *)
(* the filter is done (AbsTaken).  That count only grows, as the filter's  *)
(* input does, and it never exceeds the bytes given (ZConserved); once the *)
(* filter of a buffers body is done, it has taken all of buf_ (ZDrained).  *)
(* A closed body is given nothing more: its source is drained              *)
(* (ZClosedNoSource) and its stream handle closed; and no more than        *)
(* MaxBody is ever given (ZGiven).                                         *)
(***************************************************************************)
EXTENDS CompleteProofs

\* A compressed message has one of the styles the object compresses.
ZInStyles == compressed => st \in ZStyles

\* A compressed body that is closed has no source bytes left.
ZClosedNoSource == (compressed /\ ~more) => srcRem = 0

\* A compressed message is given no more than MaxBody bytes, counting what
\* its source still holds.
ZGiven ==
  compressed =>
    /\ given <= MaxBody
    /\ st = "source" => given + srcRem <= MaxBody

RZInv == MInv /\ ZInStyles /\ ZClosedNoSource /\ ZGiven

LEMMA RZInvParts ==
  RZInv <=> MInv /\ ZInStyles /\ ZClosedNoSource /\ ZGiven
BY DEF RZInv

LEMMA RZInvFromParts ==
  ASSUME MInv', ZInStyles', ZClosedNoSource', ZGiven'
  PROVE  RZInv'
BY DEF RZInv

\* The three new parts speak only of compressed messages, and read these.
rzvars == <<compressed, st, more, srcRem, given>>

LEMMA RZUnchanged ==
  ASSUME ZInStyles, ZClosedNoSource, ZGiven, UNCHANGED rzvars
  PROVE  ZInStyles' /\ ZClosedNoSource' /\ ZGiven'
BY Zenon DEF rzvars, ZInStyles, ZClosedNoSource, ZGiven

LEMMA RZIdentity ==
  ASSUME ~compressed'
  PROVE  ZInStyles' /\ ZClosedNoSource' /\ ZGiven'
BY Zenon DEF ZInStyles, ZClosedNoSource, ZGiven

LEMMA RZInitRZInv == CInit => RZInv
<1> SUFFICES ASSUME CInit PROVE RZInv
  OBVIOUS
<1>1. MInv
  BY MInitMInv
<1>2. ~compressed
  BY DEF CInit
<1>3. QED
  BY <1>1, <1>2, Zenon DEF RZInv, ZInStyles, ZClosedNoSource, ZGiven

\* start_* of a compressed message: its style is one the object compresses,
\* only an empty body is closed at once, and it is given at most MaxBody.
LEMMA ZStartRZ ==
  ASSUME ZStart
  PROVE  ZInStyles' /\ ZClosedNoSource' /\ ZGiven'
<1>1. CASE "empty" \in ZStyles /\ \E c, e \in BOOLEAN : ZStartEmpty(c, e)
  <2>1. st' = "empty" /\ srcRem' = 0 /\ given' = 0
    BY <1>1 DEF ZStartEmpty
  <2>2. QED
    BY <1>1, <2>1, Assumption DEF ZInStyles, ZClosedNoSource, ZGiven
<1>2. CASE "buffers" \in ZStyles
           /\ \E c, e \in BOOLEAN, b \in BufferBodies : ZStartBuffers(c, e, b)
  <2>1. PICK c, e \in BOOLEAN, b \in BufferBodies : ZStartBuffers(c, e, b)
    BY <1>2
  <2>2. st' = "buffers" /\ more' /\ given' = b
    BY <2>1 DEF ZStartBuffers
  <2>3. b \in 0 .. MaxBody
    BY Assumption
  <2>4. QED
    BY <1>2, <2>2, <2>3 DEF ZInStyles, ZClosedNoSource, ZGiven
<1>3. CASE \E s \in {"source", "stream"} :
              /\ s \in ZStyles
              /\ \E c, e \in BOOLEAN, n \in 0 .. MaxBody :
                   ZStartPull(c, e, s, n)
  <2>1. PICK s \in {"source", "stream"} :
              /\ s \in ZStyles
              /\ \E c, e \in BOOLEAN, n \in 0 .. MaxBody :
                   ZStartPull(c, e, s, n)
    BY <1>3
  <2>2. PICK c, e \in BOOLEAN, n \in 0 .. MaxBody : ZStartPull(c, e, s, n)
    BY <2>1
  <2>3. st' = s /\ more' /\ given' = 0 /\ srcRem' = n
    BY <2>2 DEF ZStartPull
  <2>4. QED
    BY <2>1, <2>3, Assumption DEF ZInStyles, ZClosedNoSource, ZGiven
<1>4. QED
  <2>1. 0 \in 0 .. MaxBody
    BY Assumption
  <2>2. QED
    BY <1>1, <1>2, <1>3, <2>1 DEF ZStart

\* prepare() of a compressed body: only a source read gives bytes, no more
\* than the source holds, and it closes the body only with the source's
\* last bytes.
LEMMA ZPrepareRZ ==
  ASSUME CInv, ZPart, ZInStyles, ZClosedNoSource, ZGiven, ZPrepare
  PROVE  ZInStyles' /\ ZClosedNoSource' /\ ZGiven'
<1>1. CASE ZPrepareSource
  <2>1. compressed /\ st = "source" /\ UNCHANGED <<compressed, st>>
    BY <1>1 DEF ZPrepareSource, ZCanPrepare
  <2>2. PICK r \in ReadResults(zcap - zbuf) :
          /\ ~more => r.fin
          /\ more' = ~r.fin
          /\ srcRem' = srcRem - r.b
          /\ given' = given + r.b
    BY <1>1 DEF ZPrepareSource
  <2>3. srcRem \in Nat /\ given \in Nat /\ zcap \in Nat /\ zbuf \in Nat
    BY DEF CInv, CTypeOK, TypeOK
  <2>4. r.b \in Nat /\ r.b <= srcRem /\ r.fin \in BOOLEAN
        /\ (r.fin => r.b = srcRem)
    BY <2>3 DEF ReadResults, MinOf
  <2>5. ~more' => srcRem' = 0
    <3>1. ~more' => r.fin
      BY <2>2, <2>4, Zenon
    <3>2. QED
      BY <2>2, <2>3, <2>4, <3>1
  <2>6. given' <= MaxBody /\ given' + srcRem' <= MaxBody
    BY <2>1, <2>2, <2>3, <2>4, Assumption DEF ZGiven
  <2>7. QED
    BY <2>1, <2>5, <2>6 DEF ZInStyles, ZClosedNoSource, ZGiven
<1>2. CASE ZPrepareBuffers
  <2>1. compressed /\ st = "buffers"
        /\ UNCHANGED <<compressed, st, srcRem, given>>
    BY <1>2 DEF ZPrepareBuffers, ZCanPrepare
  <2>2. srcRem = 0
    BY <2>1 DEF ZPart, ZNoSource
  <2>3. QED
    BY <2>1, <2>2 DEF ZInStyles, ZClosedNoSource, ZGiven
<1>3. CASE ZPrepareStream \/ ZPrepareEmpty
  <2>1. UNCHANGED rzvars
    BY <1>3 DEF ZPrepareStream, ZPrepareEmpty, rzvars
  <2>2. QED
    BY <2>1, RZUnchanged
<1>4. QED
  BY <1>1, <1>2, <1>3 DEF ZPrepare

\* commit(n) gives no more than MaxBody; close() closes a stream body,
\* which has no source.
LEMMA ZStreamRZ ==
  ASSUME CInv, ZPart, ZInStyles, ZClosedNoSource, ZGiven,
         ZStreamCommit \/ ZStreamClose
  PROVE  ZInStyles' /\ ZClosedNoSource' /\ ZGiven'
<1>1. CASE ZStreamCommit
  <2>1. compressed /\ st = "stream"
        /\ UNCHANGED <<compressed, st, more, srcRem>>
    BY <1>1 DEF ZStreamCommit
  <2>2. PICK n \in 1 .. MinOf(zcap - zbuf, MaxBody - given) :
          given' = given + n
    BY <1>1 DEF ZStreamCommit
  <2>3. given' <= MaxBody
    <3>1. given \in Nat /\ zcap \in Nat /\ zbuf \in Nat
      BY DEF CInv, CTypeOK, TypeOK
    <3>2. QED
      BY <2>2, <3>1, Assumption DEF MinOf
  <2>4. QED
    BY <2>1, <2>3 DEF ZInStyles, ZClosedNoSource, ZGiven
<1>2. CASE ZStreamClose
  <2>1. compressed /\ st = "stream"
        /\ UNCHANGED <<compressed, st, srcRem, given>>
    BY <1>2 DEF ZStreamClose, cvars
  <2>2. srcRem = 0
    BY <2>1 DEF ZPart, ZNoSource
  <2>3. QED
    BY <2>1, <2>2 DEF ZInStyles, ZClosedNoSource, ZGiven
<1>3. QED
  BY <1>1, <1>2

LEMMA CNextRZInv ==
  ASSUME ~PartialErrorReads, 0 \notin BufferBodies, RZInv, [CNext]_allvars
  PROVE  RZInv'
<1>0. MInv /\ ZInStyles /\ ZClosedNoSource /\ ZGiven
  BY RZInvParts
<1>1. MInv'
  BY <1>0, CNextMInv
<1>2. CInv /\ ZPart /\ given \in Nat
  BY <1>0, MInvParts DEF CInv, CTypeOK, TypeOK
<1>3. ZInStyles' /\ ZClosedNoSource' /\ ZGiven'
  <2>1. CASE IdStart \/ CReset
    <3>1. ~compressed'
      BY <2>1, Zenon DEF IdStart, CReset
    <3>2. QED
      BY <3>1, RZIdentity
  <2>2. CASE ExpectPrepare \/ HeaderConsume \/ ZConsume
    <3>1. UNCHANGED rzvars
      <4>1. CASE ExpectPrepare
        BY <4>1 DEF ExpectPrepare, PrepareHeaderOnly, PrepareExpect100,
           cvars, rzvars
      <4>2. CASE HeaderConsume
        BY <4>2 DEF HeaderConsume, ConsumeHeaderOnly, ConsumeInHeader,
           cvars, rzvars
      <4>3. CASE ZConsume
        BY <4>3 DEF ZConsume, ZConsumeBody, cvars, rzvars
      <4>4. QED
        BY <2>2, <4>1, <4>2, <4>3
    <3>2. QED
      BY <1>0, <3>1, RZUnchanged
  <2>8. CASE IdPrepare \/ IdConsume \/ IdStream
    <3>1. ~compressed'
      BY <2>8 DEF IdPrepare, IdConsume, IdStream, cvars
    <3>2. QED
      BY <3>1, RZIdentity
  <2>3. CASE ZStart
    BY <2>3, ZStartRZ
  <2>4. CASE ZPrepare
    BY <1>0, <1>2, <2>4, ZPrepareRZ
  <2>5. CASE ZStreamCommit \/ ZStreamClose
    BY <1>0, <1>2, <2>5, ZStreamRZ
  <2>6. CASE UNCHANGED allvars
    <3>1. UNCHANGED rzvars
      BY <2>6 DEF allvars, vars, cvars, rzvars
    <3>2. QED
      BY <1>0, <3>1, RZUnchanged
  <2>7. QED
    BY <2>1, <2>2, <2>3, <2>4, <2>5, <2>6, <2>8 DEF CNext
<1>4. QED
  BY <1>1, <1>3, RZInvFromParts

-----------------------------------------------------------------------------
(* The steps of MessageStream under the mapping Abs.                       *)

\* A step that leaves started_, is_done_, more_, hp, given, the decoder and
\* the filter's count and flag alone is a stutter of MessageStream.
LEMMA ZAbsUnchanged ==
  ASSUME UNCHANGED <<started, is_done, more, hp, given, dec, compressed,
                     fdone, zin>>
  PROVE  UNCHANGED Abs!absvars
BY DEF Abs!absvars, AbsPhase, AbsHdr, AbsGiven, AbsTaken, IdAbsTaken

\* start_*: a message begins with its whole header, at most MaxBody given
\* and no more taken than given.
LEMMA ZBeginStep ==
  ASSUME started', ~is_done', hp' = HdrLen, given' \in 0 .. MaxBody,
         AbsTaken' \in 0 .. given'
  PROVE  Abs!Begin
BY DEF Abs!Begin, Abs!Active, AbsPhase, AbsHdr, AbsGiven

\* A read, a commit, a close or a filter step of a started message: given
\* and taken only grow, taken stays within given, and a closed body is
\* given nothing and stays closed.
LEMMA ZTakeStep ==
  ASSUME started, ~is_done, started', ~is_done', hp' = hp,
         more \in BOOLEAN, more' \in BOOLEAN, more' => more,
         given \in Nat, given' \in Nat, given <= given', given' <= MaxBody,
         ~more => given' = given,
         AbsTaken \in Nat, AbsTaken' \in Nat, AbsTaken <= AbsTaken',
         AbsTaken' <= given'
  PROVE  Abs!Take
<1>1. AbsHdr' = AbsHdr /\ AbsGiven = given /\ AbsGiven' = given'
      /\ AbsTaken' \in AbsTaken .. AbsGiven'
  BY DEF AbsHdr, AbsGiven
<1>2. MaxBody \in Nat
  BY Assumption
<1>3. CASE more
  <2>1. AbsPhase = "open" /\ AbsPhase' \in Abs!Active
    BY <1>3, Zenon DEF AbsPhase, Abs!Active
  <2>2. QED
    BY <1>1, <1>2, <2>1 DEF Abs!Take, Abs!Active
<1>4. CASE ~more
  <2>1. AbsPhase = "closed" /\ AbsPhase' = "closed"
    BY <1>4, Zenon DEF AbsPhase
  <2>2. given' = given
    BY <1>4
  <2>3. QED
    BY <1>1, <1>2, <2>1, <2>2 DEF Abs!Take, Abs!Active
<1>5. QED
  BY <1>3, <1>4

\* consume(): header bytes go; is_done_ comes with a closed body wholly
\* taken and the header gone.
LEMMA ZSendStep ==
  ASSUME started, ~is_done, hp \in Nat, hp' \in 0 .. hp,
         is_done' \in BOOLEAN,
         UNCHANGED <<started, more, given>>, AbsTaken' = AbsTaken,
         is_done' => (~more /\ hp' = 0 /\ AbsTaken = given)
  PROVE  Abs!Send
BY DEF Abs!Send, Abs!Active, AbsPhase, AbsHdr, AbsGiven

\* Between two identity-coded states, the mapping is that of Serializer.
LEMMA IdTransfer ==
  ASSUME ~compressed, ~compressed', [IdAbs!Next]_IdAbs!absvars
  PROVE  [Abs!Next]_Abs!absvars
<1>1. AbsTaken = IdAbsTaken /\ AbsTaken' = IdAbsTaken'
  BY DEF AbsTaken, IdAbsTaken
<1>2. QED
  BY <1>1 DEF IdAbs!Next, Abs!Next, IdAbs!Begin, Abs!Begin, IdAbs!Reset,
     Abs!Reset, IdAbs!Take, Abs!Take, IdAbs!Send, Abs!Send, IdAbs!Active,
     Abs!Active, IdAbs!absvars, Abs!absvars

-----------------------------------------------------------------------------
(* The steps of the serializer under Abs, one lemma per group of actions,  *)
(* from a state of RZInv to a state of RZInv.                              *)

\* The types the refinement steps read.
RTypes ==
  /\ started \in BOOLEAN /\ is_done \in BOOLEAN /\ more \in BOOLEAN
  /\ compressed \in BOOLEAN /\ fdone \in BOOLEAN
  /\ hp \in Nat /\ given \in Nat /\ zin \in Nat /\ zbuf \in Nat
  /\ bufRem \in Nat /\ dec.body \in Nat

LEMMA RTypesNow ==
  ASSUME RZInv
  PROVE  RTypes
BY DEF RZInv, MInv, CInv, CTypeOK, TypeOK, RTypes

LEMMA RTypesNext ==
  ASSUME RZInv'
  PROVE  RTypes'
BY DEF RZInv, MInv, CInv, CTypeOK, TypeOK, RTypes

\* A started compressed message of a style the object compresses has taken
\* no more than it was given: the filter's input is part of what was given.
LEMMA ZTakenBound ==
  ASSUME RTypes, ZConserved, started, compressed,
         st \in {"buffers", "source", "stream"}
  PROVE  AbsTaken \in 0 .. given
<1>1. CASE fdone
  <2>1. AbsTaken = zin
    BY <1>1 DEF AbsTaken
  <2>2. zin <= given
    BY DEF ZConserved, RTypes
  <2>3. QED
    BY <2>1, <2>2 DEF RTypes
<1>2. CASE ~fdone
  BY <1>2 DEF AbsTaken, RTypes
<1>3. QED
  BY <1>1, <1>2

\* start_* of an identity message: the decoder frames all that was given.
LEMMA IdStartRefines ==
  ASSUME RZInv', IdStart
  PROVE  Abs!Next
<1>1. started' /\ ~is_done' /\ hp' = HdrLen /\ ~compressed'
  BY Zenon DEF IdStart, Start, StartEmpty, StartBuffers, StartPull, StartInit
<1>2. Framed'
  BY StartFramed DEF IdStart
<1>3. given' \in 0 .. MaxBody /\ AbsTaken' = given'
  BY <1>1, <1>2, RTypesNext DEF Framed, FBody, FGiven, RTypes, AbsTaken,
     IdAbsTaken
<1>4. QED
  BY <1>1, <1>3, ZBeginStep DEF Abs!Next

\* reset() forgets the message.
LEMMA CResetRefines ==
  ASSUME CReset
  PROVE  Abs!Next
<1>1. Abs!Reset
  BY DEF CReset, Reset, Abs!Reset, AbsPhase, AbsHdr, AbsGiven, AbsTaken
<1>2. QED
  BY <1>1 DEF Abs!Next

\* The Expect: 100-continue prepare() moves nothing; a consume() inside the
\* header takes header bytes only.
LEMMA HeaderRefines ==
  ASSUME RZInv, ExpectPrepare \/ HeaderConsume
  PROVE  [Abs!Next]_Abs!absvars
<1>1. CASE ExpectPrepare
  BY <1>1, ZAbsUnchanged DEF ExpectPrepare, PrepareHeaderOnly,
     PrepareExpect100, cvars
<1>2. CASE HeaderConsume
  <2>1. PICK n \in 0 .. shown : ConsumeHeaderOnly(n) \/ ConsumeInHeader(n)
    BY <1>2 DEF HeaderConsume
  <2>2. /\ started /\ ~is_done /\ hp' = hp - n /\ n <= hp
        /\ UNCHANGED <<started, is_done, more, given, dec>>
        /\ UNCHANGED cvars
    <3>1. UNCHANGED cvars
      BY <1>2 DEF HeaderConsume
    <3>2. CASE ConsumeHeaderOnly(n)
      BY <3>1, <3>2, Zenon DEF ConsumeHeaderOnly, CanConsume
    <3>3. CASE ConsumeInHeader(n)
      <4>1. n <= hp
        BY <3>3, RTypesNow DEF ConsumeInHeader, RTypes
      <4>2. QED
        BY <3>1, <3>3, <4>1, Zenon DEF ConsumeInHeader, CanConsume
    <3>4. QED
      BY <2>1, <3>1, <3>2, <3>3
  <2>3. hp \in Nat /\ n \in Nat /\ hp' \in 0 .. hp /\ AbsTaken' = AbsTaken
    BY <2>2, RTypesNow DEF RTypes, AbsTaken, IdAbsTaken, cvars
  <2>4. Abs!Send
    BY <2>2, <2>3, RTypesNow, ZSendStep DEF RTypes
  <2>5. QED
    BY <2>4 DEF Abs!Next
<1>3. QED
  BY <1>1, <1>2

\* prepare(), consume() and the stream handle of an identity message are
\* steps of Serializer, which refines MessageStream under IdAbs.
LEMMA IdStepRefines ==
  ASSUME ~PartialErrorReads, RZInv, IdPrepare \/ IdConsume \/ IdStream
  PROVE  [Abs!Next]_Abs!absvars
<1>0. CInv /\ IdWired
  BY DEF RZInv, MInv
<1>1. started
  <2>1. CASE IdPrepare
    BY <2>1 DEF IdPrepare, PrepareBuffered, PrepareSourceIdentity,
       PrepareSourceChunked, PrepareSourceView, PrepareStream, CanPrepare
  <2>2. CASE IdConsume
    BY <2>2 DEF IdConsume, ConsumeBody, CanConsume
  <2>3. CASE IdStream
    <3>1. more
      BY <2>3 DEF IdStream, StreamCommitIdentity, StreamCommitChunked,
         StreamClose
    <3>2. QED
      BY <1>0, <3>1 DEF CInv, MoreStarted
  <2>4. QED
    BY <2>1, <2>2, <2>3
<1>2. ~compressed
  BY DEF IdPrepare, IdConsume, IdStream
<1>3. IInv /\ Framed
  BY <1>0, <1>1, <1>2, CInvIInv DEF IdWired
<1>4. [Next]_vars /\ UNCHANGED cvars
  BY <1>3, IdStepFacts
<1>5. [IdAbs!Next]_IdAbs!absvars
  BY <1>3, <1>4, NextRefines
<1>6. ~compressed'
  BY <1>2, <1>4 DEF cvars
<1>7. QED
  BY <1>2, <1>5, <1>6, IdTransfer

\* A summand of a sum of naturals is at most the sum (cited on primed
\* variables, whose sums the SMT backend cannot sort by itself).
LEMMA SummandBound ==
  ASSUME NEW a \in Nat, NEW b \in Nat, NEW c, a + b = c
  PROVE  a \in 0 .. c /\ c \in Nat
OBVIOUS

\* The same bound in the next state.
LEMMA ZTakenBoundNext ==
  ASSUME RTypes', ZConserved', started', compressed',
         st' \in {"buffers", "source", "stream"}
  PROVE  AbsTaken' \in 0 .. given'
<1>1. CASE fdone'
  <2>1. AbsTaken' = zin'
    BY <1>1 DEF AbsTaken
  <2>2. CASE st' = "buffers"
    <3>1. zin' + bufRem' = given'
      BY <2>2, Zenon DEF ZConserved
    <3>2. zin' \in 0 .. given'
      BY <3>1, SummandBound, Zenon DEF RTypes
    <3>3. QED
      BY <2>1, <3>2, Zenon
  <2>3. CASE st' \in {"source", "stream"}
    <3>1. zin' + zbuf' = given'
      BY <2>3, Zenon DEF ZConserved
    <3>2. zin' \in 0 .. given'
      BY <3>1, SummandBound, Zenon DEF RTypes
    <3>3. QED
      BY <2>1, <3>2, Zenon
  <2>4. QED
    BY <2>2, <2>3
<1>2. CASE ~fdone'
  BY <1>2 DEF AbsTaken, RTypes
<1>3. QED
  BY <1>1, <1>2

\* The filter's input only grows, and once done stays done, so the bytes a
\* compressed message has taken only grow.
LEMMA ZTakenGrows ==
  ASSUME RTypes, RTypes', started, started', compressed, compressed',
         fdone => fdone', zin <= zin'
  PROVE  AbsTaken <= AbsTaken'
<1>1. CASE fdone
  BY <1>1 DEF AbsTaken, RTypes
<1>2. CASE ~fdone
  BY <1>2 DEF AbsTaken, RTypes
<1>3. QED
  BY <1>1, <1>2

\* start_* of a compressed message: the filter has taken nothing yet.
LEMMA ZStartRefines ==
  ASSUME RZInv', ZStart
  PROVE  Abs!Next
<1>1. PICK c \in BOOLEAN, e \in BOOLEAN : ZStartInit(c, e)
  BY DEF ZStart, ZStartEmpty, ZStartBuffers, ZStartPull
<1>2. started' /\ ~is_done' /\ hp' = HdrLen /\ compressed' /\ ~fdone'
  BY <1>1, Zenon DEF ZStartInit, StartInit
<1>3. given' \in 0 .. MaxBody
  BY <1>2, RTypesNext, Assumption DEF RZInv, ZGiven, RTypes
<1>4. AbsTaken' = 0
  BY <1>2 DEF AbsTaken
<1>5. QED
  BY <1>2, <1>3, <1>4, ZBeginStep DEF Abs!Next

\* What a compressed prepare() does to the variables the mapping reads: the
\* body is given more bytes only while open (a source read), never reopens,
\* and the filter takes more input and may finish.
LEMMA ZPrepareFacts ==
  ASSUME RZInv, "empty" \notin ZStyles, ZPrepare
  PROVE  /\ started /\ ~is_done /\ compressed
         /\ UNCHANGED <<started, is_done, hp, compressed, st>>
         /\ st \in {"buffers", "source", "stream"}
         /\ more' => more
         /\ given <= given' /\ (~more => given' = given)
         /\ zin <= zin' /\ (fdone => fdone')
<1>0. RTypes /\ ZInStyles /\ ZClosedNoSource /\ CInv
  BY RTypesNow DEF RZInv, MInv
<1>1. started /\ ~is_done /\ compressed
  BY Zenon DEF ZPrepare, ZPrepareBuffers, ZPrepareSource, ZPrepareStream,
     ZPrepareEmpty, ZCanPrepare, CanPrepare
<1>2. st \in {"buffers", "source", "stream"}
  BY <1>0, <1>1, CAssumption, Zenon DEF ZInStyles, Styles
<1>3. \A k \in Nat, w \in OutSizes, fin \in BOOLEAN :
        Emit(k, w, fin) => zin <= zin' /\ (fdone => fdone')
  BY <1>0 DEF Emit, RTypes
<1>4. CASE ZPrepareBuffers
  <2>1. PICK k \in 0 .. bufRem, w \in OutSizes, fin \in BOOLEAN :
          /\ more' = (more /\ bufRem - k > 0)
          /\ Emit(k, w, fin)
    BY <1>4 DEF ZPrepareBuffers
  <2>2. zin <= zin' /\ (fdone => fdone')
    BY <1>0, <1>3, <2>1 DEF RTypes
  <2>3. more' => more
    BY <2>1, Zenon
  <2>4. UNCHANGED <<started, is_done, hp, compressed, st, given>>
    BY <1>4, Zenon DEF ZPrepareBuffers
  <2>5. QED
    BY <1>0, <1>1, <1>2, <2>2, <2>3, <2>4 DEF RTypes
<1>5. CASE ZPrepareSource
  <2>1. PICK r \in ReadResults(zcap - zbuf) :
          /\ ~more => r.fin
          /\ \E k \in 0 .. zbuf + r.b, w \in OutSizes, fin \in BOOLEAN :
               /\ more' = ~r.fin
               /\ given' = given + r.b
               /\ Emit(k, w, fin)
    BY <1>5 DEF ZPrepareSource
  <2>2. PICK k \in 0 .. zbuf + r.b, w \in OutSizes, fin \in BOOLEAN :
          /\ more' = ~r.fin
          /\ given' = given + r.b
          /\ Emit(k, w, fin)
    BY <2>1
  <2>3. zin <= zin' /\ (fdone => fdone')
    BY <1>0, <1>3, <2>2 DEF RTypes
  <2>4. more' => more
    BY <2>1, <2>2, Zenon
  <2>5. r.b \in 0 .. MinOf(zcap - zbuf, srcRem)
    BY DEF ReadResults
  <2>6. ~more => srcRem = 0
    BY <1>0, <1>1 DEF ZClosedNoSource
  <2>7. given <= given' /\ (~more => given' = given)
    <3>0. zcap \in Nat /\ srcRem \in Nat
      BY <1>0, Assumption DEF CInv, CTypeOK, TypeOK
    <3>1. r.b \in Nat /\ r.b <= srcRem
      BY <1>0, <2>5, <3>0 DEF MinOf, RTypes
    <3>2. given <= given'
      BY <1>0, <2>2, <3>1, SummandBound DEF RTypes
    <3>3. ASSUME ~more PROVE given' = given
      BY <1>0, <2>2, <2>6, <3>1, <3>3 DEF RTypes
    <3>4. QED
      BY <3>2, <3>3
  <2>8. QED
    BY <1>1, <1>2, <1>5, <2>3, <2>4, <2>7 DEF ZPrepareSource
<1>6. CASE ZPrepareStream
  <2>1. PICK k \in 0 .. zbuf, w \in OutSizes, fin \in BOOLEAN : Emit(k, w, fin)
    BY <1>6 DEF ZPrepareStream
  <2>2. zin <= zin' /\ (fdone => fdone')
    BY <1>0, <1>3, <2>1 DEF RTypes
  <2>3. QED
    BY <1>0, <1>1, <1>2, <1>6, <2>2 DEF ZPrepareStream, RTypes
<1>7. ~ZPrepareEmpty
  BY <1>2 DEF ZPrepareEmpty
<1>8. QED
  BY <1>4, <1>5, <1>6, <1>7 DEF ZPrepare

\* prepare() of a compressed message: a step of Take.
LEMMA ZPrepareRefines ==
  ASSUME RZInv, RZInv', "empty" \notin ZStyles, ZPrepare
  PROVE  Abs!Next
<1>1. /\ started /\ ~is_done /\ compressed
      /\ UNCHANGED <<started, is_done, hp, compressed, st>>
      /\ st \in {"buffers", "source", "stream"}
      /\ more' => more
      /\ given <= given' /\ (~more => given' = given)
      /\ zin <= zin' /\ (fdone => fdone')
  BY ZPrepareFacts
<1>2. RTypes /\ RTypes' /\ ZConserved /\ ZConserved' /\ ZGiven'
  BY RTypesNow, RTypesNext DEF RZInv, MInv
<1>3. started' /\ ~is_done' /\ compressed' /\ hp' = hp
      /\ st' \in {"buffers", "source", "stream"}
  BY <1>1, Zenon
<1>4. AbsTaken \in 0 .. given /\ AbsTaken' \in 0 .. given'
  BY <1>1, <1>2, <1>3, ZTakenBound, ZTakenBoundNext
<1>5. AbsTaken <= AbsTaken'
  BY <1>1, <1>2, <1>3, ZTakenGrows
<1>6. given' <= MaxBody
  BY <1>2, <1>3 DEF ZGiven
<1>7. Abs!Take
  BY <1>1, <1>2, <1>3, <1>4, <1>5, <1>6, ZTakeStep DEF RTypes
<1>8. QED
  BY <1>7 DEF Abs!Next

\* A compressed body that is open has a filter that is not done, and a
\* message that is done has a done filter: an open body is never done.
LEMMA ZOpenNotDone ==
  ASSUME RZInv, compressed, more, st # "empty"
  PROVE  ~fdone /\ ~is_done
BY DEF RZInv, MInv, ZPart, ZDrained, ZDoneFinished

\* consume() past the header of a compressed buffers body: a step of Send;
\* it sets is_done_ only once the filter is done, and a done filter has
\* taken all of buf_ (it is never told the input ended while buf_ holds
\* bytes), so every byte given.
LEMMA ZConsumeRefines ==
  ASSUME RZInv, RZInv', ZStyles \subseteq {"buffers"}, ZConsume
  PROVE  Abs!Next
<1>1. PICK n \in 0 .. shown : ZConsumeBody(n)
  BY DEF ZConsume
<1>2. /\ started /\ ~is_done /\ compressed /\ hp' = 0
      /\ UNCHANGED <<started, more, given, dec>> /\ UNCHANGED cvars
  BY <1>1, Zenon DEF ZConsumeBody, CanConsume
<1>3. RTypes /\ RTypes' /\ ZConserved /\ ZDrained /\ ZInStyles
  BY RTypesNow, RTypesNext DEF RZInv, MInv, ZPart
<1>4. st = "buffers"
  BY <1>2, <1>3, Zenon DEF ZInStyles
<1>5. is_done' => fdone
  BY <1>1, <1>4, Zenon DEF ZConsumeBody
<1>6. AbsTaken' = AbsTaken
  BY <1>2 DEF AbsTaken, IdAbsTaken, cvars
<1>7. fdone => ~more /\ AbsTaken = given
  <2> SUFFICES ASSUME fdone PROVE ~more /\ AbsTaken = given
    OBVIOUS
  <2>1. ~more /\ bufRem = 0
    BY <1>2, <1>4, <1>3, Zenon DEF ZDrained
  <2>2. zin = given
    BY <1>2, <1>3, <1>4, <2>1 DEF ZConserved, RTypes
  <2>3. QED
    BY <1>2, <2>1, <2>2 DEF AbsTaken
<1>8. Abs!Send
  BY <1>2, <1>3, <1>5, <1>6, <1>7, ZSendStep DEF RTypes
<1>9. QED
  BY <1>8 DEF Abs!Next

\* stream::commit() and close() of a compressed message: a step of Take
\* with nothing taken, since the filter is not done while the body is open.
LEMMA ZStreamRefines ==
  ASSUME RZInv, RZInv', ZStreamCommit \/ ZStreamClose
  PROVE  Abs!Next
<1>1. compressed /\ st = "stream" /\ more
  BY DEF ZStreamCommit, ZStreamClose
<1>2. ~fdone /\ ~is_done
  BY <1>1, ZOpenNotDone
<1>3. started
  BY <1>1 DEF RZInv, MInv, CInv, MoreStarted
<1>4. UNCHANGED <<started, is_done, hp, compressed, fdone>>
  BY Zenon DEF ZStreamCommit, ZStreamClose, cvars
<1>5. AbsTaken = 0 /\ AbsTaken' = 0
  BY <1>1, <1>2, <1>3, <1>4 DEF AbsTaken
<1>6. RTypes /\ RTypes' /\ ZGiven'
  BY RTypesNow, RTypesNext DEF RZInv
<1>7. given <= given'
  <2>1. CASE ZStreamCommit
    <3>1. PICK n \in 1 .. MinOf(zcap - zbuf, MaxBody - given) :
            given' = given + n
      BY <2>1 DEF ZStreamCommit
    <3>2. n \in Nat
      BY <3>1 DEF MinOf
    <3>3. QED
      BY <1>6, <3>1, <3>2, SummandBound DEF RTypes
  <2>2. CASE ZStreamClose
    BY <2>2, <1>6 DEF ZStreamClose, RTypes
  <2>3. QED
    BY <2>1, <2>2
<1>8. given' <= MaxBody
  BY <1>1, <1>4, <1>6 DEF ZGiven
<1>9. Abs!Take
  BY <1>1, <1>2, <1>3, <1>4, <1>5, <1>6, <1>7, <1>8, ZTakeStep DEF RTypes
<1>10. QED
  BY <1>9 DEF Abs!Next

\* Every step of the serializer, from a state of RZInv to one, is a step of
\* MessageStream or leaves its variables alone.
LEMMA CNextRefines ==
  ASSUME ~PartialErrorReads, ZStyles \subseteq {"buffers"}, RZInv, RZInv',
         [CNext]_allvars
  PROVE  [Abs!Next]_Abs!absvars
<1>0. "empty" \notin ZStyles
  OBVIOUS
<1>1. CASE IdStart
  BY <1>1, IdStartRefines
<1>2. CASE CReset
  BY <1>2, CResetRefines
<1>3. CASE ExpectPrepare \/ HeaderConsume
  BY <1>3, HeaderRefines
<1>4. CASE IdPrepare \/ IdConsume \/ IdStream
  BY <1>4, IdStepRefines
<1>5. CASE ZStart
  BY <1>5, ZStartRefines
<1>6. CASE ZPrepare
  BY <1>0, <1>6, ZPrepareRefines
<1>7. CASE ZConsume
  BY <1>7, ZConsumeRefines
<1>8. CASE ZStreamCommit \/ ZStreamClose
  BY <1>8, ZStreamRefines
<1>9. CASE UNCHANGED allvars
  BY <1>9, ZAbsUnchanged DEF allvars, vars, cvars
<1>10. QED
  BY <1>1, <1>2, <1>3, <1>4, <1>5, <1>6, <1>7, <1>8, <1>9 DEF CNext

\* The initial state is MessageStream's: no message, nothing in flight.
LEMMA CInitRefines == CInit => Abs!Init
BY DEF CInit, Init, Abs!Init, AbsPhase, AbsHdr, AbsGiven, AbsTaken

-----------------------------------------------------------------------------

\* When source::read returns no bytes with an error and no chunked buffers
\* body is empty, RZInv holds in every reachable state of the serializer:
\* the compression invariants MInv and the bounds on what a compressed body
\* is given.
THEOREM RZInvHolds ==
  ASSUME ~PartialErrorReads, 0 \notin BufferBodies
  PROVE  CSpec => []RZInv
<1>1. CInit => RZInv
  BY RZInitRZInv
<1>2. RZInv /\ [CNext]_allvars => RZInv'
  BY CNextRZInv
<1>3. QED
  BY <1>1, <1>2, PTL DEF CSpec

\* The serializer, identity messages of every style and compressed buffers
\* bodies on one object, implements MessageStream (RefinesMessageStream)
\* for every workspace, header length, body bound and filter bound, when
\* source::read returns no bytes with an error and no chunked buffers body
\* is empty.  (A compressed source or stream body can end with bytes left in
\* tmp1_, run z_wrap_loss; a compressed empty body takes stale ones, run
\* z_empty_leak.)  Body bytes enter the output coding
\* (the filter's input once it is done, or the decoder's body) only after
\* they are handed over, never more than that, a closed body never reopens,
\* and consume() sets is_done_ only once the body is closed, wholly taken
\* and the header gone.
THEOREM CompressedRefinesMessageStream ==
  ASSUME ~PartialErrorReads, 0 \notin BufferBodies,
         ZStyles \subseteq {"buffers"}
  PROVE  CSpec => RefinesMessageStream
<1>1. CInit => Abs!Init
  BY CInitRefines
<1>2. CSpec => []RZInv
  BY RZInvHolds
<1>3. RZInv /\ RZInv' /\ [CNext]_allvars => [Abs!Next]_Abs!absvars
  BY CNextRefines
<1>4. QED
  BY <1>1, <1>2, <1>3, PTL DEF CSpec, RefinesMessageStream, Abs!Spec

=============================================================================
