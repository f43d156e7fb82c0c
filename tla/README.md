# TLA+ models of the http_proto serializer

This directory holds TLA+ models of the HTTP/1 serializer in
`src/src/serializer.cpp`, the TLC configurations that check them, and
TLAPS proofs about them.

## The system

The serializer turns a message (header octets plus a body) into views of
buffers that the caller writes to a transport. It consists of these parts:

| Part | Code | What it does |
|---|---|---|
| State machine | `reset`, `start_init`, `prepare`, `consume` | flags `more_`, `is_done_`, `is_chunked_`, `is_expect_continue_`, `is_compressed_`, `filter_done_`; style `st_` |
| Body styles | `start_empty`, `start_buffers`, `start_source`, `start_stream` | empty body, caller buffers, pull source (`source::read`), push stream (`stream::prepare/commit/close`) |
| Chunk framer | `write_chunk_header`, `write_chunk_close`, `write_last_chunk` | 18-byte fixed-width size line, `\r\n`, `0\r\n\r\n` |
| Workspace, `tmp0_` | `ws_`, `tmp0_` (circular buffer), `tmp1_` | storage of framed body bytes; `tmp1_` only when compressing |
| Output view | `out_`, `hp_`, `consume_buffers` | header buffer and the buffers after it |
| Compression | `is_compressed_` branch of `prepare` (lines 159-343), `zlib_service.hpp` | a deflate/gzip filter between the input and `tmp0_` |
| `crlf_rule` | `rfc/crlf_rule.hpp` | a stateless CRLF grammar check |

How the parts interact:

- A `start_*` sets the style and the flags and points `out_[0]` at the header.
- For empty and buffers bodies, `out_` already holds the whole body. When chunked, it also holds a size line and the last chunk.
- For source and stream bodies, the body is framed into `tmp0_`:
  - by `prepare`, which reads the source;
  - or by the stream handle, whose `commit` writes a chunk and whose `close` writes the last chunk.
- `prepare` returns the header and whatever is buffered.
- `consume(n)` first takes header bytes, then body bytes. It sets `is_done_` when nothing is left and no more body can come.

The hard behaviours are these:

- The caller, the source and the stream handle interleave their calls.
- The space reservations in `tmp0_` must leave room for a chunk's CRLF and the last chunk.
- Expect: 100-continue pauses the body after the header.
- Source reads can be short, empty, finishing, or failing.
- The end of the message must be detected exactly once.

## Modules

| Module | Models |
|---|---|
| `Serializer` | the state machine for identity content-coding (every style, chunked and not, Expect: 100-continue) |
| `MC_Serializer` | the TLC instance: a 28-byte workspace, a 2-byte header, bodies of up to 4 bytes |
| `SerializerProofs` | TLAPS proofs of the type invariant and of `NoTmp0Overflow` for every value of the constants |
| `CompressedSerializer` | the whole serializer: `Serializer`'s actions composed with the `is_compressed_` branches (filter loop, `tmp1_`, `filter_done_`) on one object reused across messages |
| `MessageStream` | the abstract specification: what the serializer promises its caller about each message, in byte counts, whatever the coding |
| `RefinementProofs` | TLAPS proof that `Serializer` implements `MessageStream` for every value of the constants |
| `WireProofs` | TLAPS proofs of `WireWellFormed`, `CompleteAtDone` and the action property `ExpectPausesBody` for the identity serializer |
| `CompressedProofs` | TLAPS proof of the inductive invariant `CInv` of the composed object: its types and `BuffersFitRegions` |
| `CompleteProofs` | TLAPS proof of `BuffersCompleteAtDone` for the composed object, through the invariant `MInv` |
| `ZRefinementProofs` | TLAPS proof that `CompressedSerializer` implements `MessageStream` (`RefinesMessageStream`) when only buffers bodies are compressed |
| `MC_CompressedSerializer` | its TLC instance: a 64-byte workspace (halves of 32 bytes, the compressed minimum), bodies of up to 2 bytes, at most 8 compressed bytes per message, two messages |

### State (`Serializer`)

Byte contents are abstracted to counts:

| Variable | Code |
|---|---|
| `st` | `st_` (`"none"` before the first start) |
| `started` | whether a `start_*` has run since construction or `reset()` |
| `is_done`, `is_chunked`, `is_expect_continue`, `more` | the flags of the same names |
| `hp` | header bytes left in `out_[0]`; 0 once `out_.data() != hp_` |
| `out` | bytes of `out_` after the header (empty and buffers styles) |
| `tmp0` | `tmp0_.size()` |
| `shown` | the size of the last view `prepare()` returned; it bounds the caller's `consume(n)` |
| `srcRem` | bytes the source will still produce |

Three ghost variables record what the peer sees:

- `given`: body bytes handed over by the source, the stream or the buffers.
- `sent`: body bytes consumed.
- `dec`: a chunked decoder after RFC 9112 §7.1. It is fed each framing piece (`Line(n)`, `Data(n)`, `Crlf`, the last chunk) in the order the code writes it.

The workspace capacity is the constant `WsSize`. `Free == WsSize - tmp0` is `tmp0_.capacity()`.

### Actions

Each action models a whole branch of a function. Its guards come from the code's `if`s and early returns:

| Action | Code |
|---|---|
| `StartEmpty`, `StartBuffers`, `StartPull` (source and stream) | `start_*`, with `start_init` as `StartInit` |
| `Reset` | `reset()` |
| `PrepareHeaderOnly`, `PrepareExpect100` | lines 150-157 |
| `PrepareBuffered` | 345-357 |
| `PrepareSourceIdentity` | 363-371 |
| `PrepareSourceChunked` | 372-410 |
| `PrepareSourceView` | 412-421 |
| `PrepareStream` | 424-440, `need_data` when `tmp0_` is empty and `more_` |
| `ConsumeHeaderOnly`, `ConsumeInHeader`, `ConsumeBody` | the branches of `consume` |
| `StreamCommitIdentity`, `StreamCommitChunked` | `stream::prepare` then `commit(n)`: `n` is at most what `prepare` offered, and `n > 0` when chunked |
| `StreamClose` | `stream::close()` |

How the source's answers are chosen:

- `source::read` returns any `ReadResults(d)` for a buffer of `d` bytes.
- It returns at most the bytes the source has left.
- It reports `finished` only together with its last bytes.
- It returns bytes with an error only when `PartialErrorReads`.

`start_buffers` and `start_source` do not call `start_init` in this file. The template `start` of `serializer.hpp` does that, and it is not under `src/`. `Start` therefore pairs every start with `StartInit`, and the map marks `Start` as modelled from the spec.

### Compression (`CompressedSerializer`)

`CompressedSerializer` extends `Serializer` with these variables:

| Variable | Code |
|---|---|
| `compressed`, `fdone` | `is_compressed_`, `filter_done_` |
| `cap0` | the capacity of the region `tmp0_` was last set up on (0 for a new object; `start_empty` does not set it up) |
| `zbuf`, `zcap` | `tmp1_.size()` and its capacity (the front half of the workspace) |
| `zoff` | `tmp1_`'s read position, where its first contiguous piece starts |
| `bufRem` | bytes of `buf_` the filter has not taken (buffers style) |
| `zin`, `zout` | ghosts: body bytes the filter took, compressed bytes it wrote, this message |
| `asserted`, `oob` | ghosts: a `BOOST_ASSERT` of the compressed `prepare` failed; `on_end` wrote past `out_` |
| `msgs` | `start_*` calls so far, bounded by `MaxMsgs` |

Identity-coded messages run `Serializer`'s actions (`IdStart`, `CReset`, `IdPrepare`, `IdConsume`, `IdStream`); the Expect branch and the header part of `consume` are shared (`ExpectPrepare`, `HeaderConsume`). Compressed messages run:

| Action | Code |
|---|---|
| `ZStartEmpty`, `ZStartBuffers`, `ZStartPull` | the compressed branches of `start_*`; `start_source`/`start_stream` give `tmp1_` the front half and `tmp0_` the back half |
| `ZPrepareBuffers`, `ZPrepareSource`, `ZPrepareStream`, `ZPrepareEmpty` | lines 159-343 for each input: the drain and capacity preconditions, the source read into `tmp1_`, the reserved chunk header, the filter loop, the backfilled header, CRLF and last chunk, `on_end` |
| `ZConsumeBody` | `consume` on `tmp0_`, done when `tmp0_` is empty and `filter_done_` |
| `ZStreamCommit`, `ZStreamClose` | the compressed `stream::prepare/commit` (into `tmp1_`) and `close` (no last chunk) |

The filter's `on_process` is an input. One `prepare` runs the loop of lines 295-320 to its end in one step, and `FilterLoop` gives the outcomes its break conditions allow:

- the filter takes `k` of the input bytes and writes `w` bytes, `w` being none, one or all the room it has (`OutSizes`);
- it is shown one contiguous piece of its input per call. `get_input` (lines 182-208) returns the first range of `buf_`, or the first piece of `tmp1_` (`Piece`: from `zoff` to the end of `tmp1_`), and `on_process` is told the body-level `more_`, not whether another piece follows;
- so a filter told there is no more input finishes after taking the piece it was shown. That is all of the input, or only the first piece when the bytes in `tmp1_` wrap around its end. A buffers body keeps `more_` set until `buf_` is empty (line 243), so its filter finishes only after taking all of `buf_`;
- `ZTake` is `consume` (lines 238-248): `tmp1_` gives up the `k` bytes taken, and its read position moves on modulo its capacity;
- the loop stops short of the room only on a call that wrote nothing, which a filter still expecting input may do (deflate buffers its input) and one told there is none may not, unless it finishes.

`Emit` then writes what lines 322-341 write: the chunk header backfilled with `w`, `\r\n`, and the last chunk once `filter_done_`.

The model rests on two facts about code outside `src/`:

- `buffers::circular_buffer` restarts at offset 0 when drained. So the empty `tmp0_` a compressed `prepare` starts from is contiguous, and a drained `tmp1_` starts again at its front (`ZTake`).
- A source that has reported `finished` reports it again, since the compressed branch reads again on every `prepare`.

## The abstract specification (`MessageStream`)

`MessageStream` says what a caller of the serializer may rely on, one message after the other, with no regard to framing or compression. Its state:

- `phase`: `"idle"` (no message), `"open"` (the body may still grow), `"closed"` or `"done"`;
- `hdr`: header bytes the caller has not taken;
- `inB`, `outB`: body bytes handed to the serializer, and body bytes taken into the output coding.

Its actions:

- `Begin`: any `start_*`, at any time. The whole header is pending. A closed body may be given whole, and some of it taken at once.
- `Reset`: nothing is in flight any more.
- `Take`: bytes are given (only while open) and taken (never more than given). The body may close in the same step.
- `Send`: the caller takes header bytes. The message becomes done only at a step that leaves the body closed, wholly taken, and no header.

Two refinement mappings relate the models to it:

- **`IdAbs`** (in `Serializer`): `phase` is read off `started`, `is_done` and `more`; `hdr` is `hp`; `inB` is `given`; `outB` is the body the peer's decoder has received (`dec.body`).
- **`Abs`** (in `CompressedSerializer`): the same, except that the bytes taken by a compressed message are the filter's input `zin`, counted once the filter has finished. A deflate stream carries its input only when it ends.

With no message started, every count maps to 0: `reset()` clears `is_compressed_`, so nothing of the old message can be read back.

## Properties and runs

| Run | cfg | Checks | Result |
|---|---|---|---|
| main | `MC_Serializer.cfg` | `TypeOK`, `WireWellFormed`, `CompleteAtDone`, `NoTmp0Overflow`, `ExpectPausesBody`, `IdRefinesMessageStream` | pass (4141 distinct states) |
| live | `MC_Serializer_live.cfg` | `Termination` under `LiveSpec` | pass |
| zero_body | `MC_Serializer_zero_body.cfg` | `WireWellFormed` with `BufferBodies = 0..MaxBody` | violation |
| read_error | `MC_Serializer_read_error.cfg` | `CompleteAtDone` with `PartialErrorReads = TRUE` | violation |
| z_main | `MC_CompressedSerializer.cfg` | `CTypeOK`, `BuffersFitRegions`, `BuffersCompleteAtDone` | pass (456683 distinct states) |
| z_live | `MC_CompressedSerializer_live.cfg` | `ZTermination` under `ZLiveSpec`, compressed buffers/source/stream | pass |
| z_zero_chunk | `MC_CompressedSerializer_zero_chunk.cfg` | `WireWellFormed` | violation |
| z_assert | `MC_CompressedSerializer_assert.cfg` | `AssertionsHold` | violation |
| z_empty_oob | `MC_CompressedSerializer_empty_oob.cfg` | `OutViewInBounds`, two messages | violation |
| z_small_ws | `MC_CompressedSerializer_small_ws.cfg` | `ZTermination` with `WsSize = 56` | violation |
| z_empty_leak | `MC_CompressedSerializer_empty_leak.cfg` | `RefinesMessageStream`, every style | violation |
| z_wrap_loss | `MC_CompressedSerializer_wrap.cfg` | `MessageCompleteAtDone`, one compressed source body of `MC_WrapBody = 33` bytes, under the constraint `MC_WrapClean` | violation |

The properties:

- **`WireWellFormed`**: the framing written so far is a prefix of a valid chunked body. That means no zero-size chunk before the end, nothing after the last chunk, and no size line that disagrees with its data.
- **`CompleteAtDone`**: when `is_done_` is set, three things hold:
  - every body byte handed over was framed;
  - the source was read to its end;
  - a chunked body is terminated.
- **`NoTmp0Overflow`**: `tmp0_` never needs more than the workspace.
- **`ExpectPausesBody`** (an action property): while `is_expect_continue_` is set, nothing is shown past the header, no body byte is consumed, and the source is not read.
- **`Termination`**: a caller that keeps calling `prepare` and `consume` reaches `is_done()`.
- **`BuffersFitRegions`**: `tmp0_` and `tmp1_` stay within the regions `start_*` gave them, across messages that reuse the workspace. It depends on `get_output` keeping the CRLF and the last chunk free.
- **`MessageCompleteAtDone`**: when `is_done_` is set on a compressed message, the filter has finished and has taken every body byte handed over. Nothing is left in `buf_` or `tmp1_`, and the source was read to its end. For an identity message the property is `CompleteAtDone`. This is what spec section 8 promises; run `z_wrap_loss` shows that a source body breaks it.
- **`BuffersCompleteAtDone`**: the same for what the code does complete: a compressed buffers body and an identity message, whatever earlier messages left on the object.
- **`AssertionsHold`**, **`OutViewInBounds`**: no `BOOST_ASSERT` of the compressed `prepare` fails, and `on_end` never writes past `out_`.
- **`ZTermination`**: `Termination` for a compressed message.
- **`IdRefinesMessageStream`**, **`RefinesMessageStream`**: every behaviour of the model is a behaviour of `MessageStream` under `IdAbs` or `Abs`. Step by step, this means:
  - no body byte is taken before it is handed over, and none is taken back;
  - a body closes once per message;
  - the header only shrinks;
  - `is_done_` comes only with the body closed and wholly taken, and the header consumed.

The violations are findings:

1. **zero_body.** `start_buffers` with chunked framing and an empty body writes the size line `0000000000000000\r\n`, which is itself a last chunk. It then writes `\r\n0\r\n\r\n`, a second end of body (`serializer.cpp:664`).
2. **read_error.** In the chunked source branch, `prepare` returns the read error before committing the bytes the source wrote (`serializer.cpp:384`). Those bytes are lost. The identity branch commits them first (line 367).
3. **z_zero_chunk.** The compressed chunked `prepare` backfills the chunk header with `num_written` even when it is 0 (`serializer.cpp:325`). The resulting zero-size chunk ends the body for the peer. It happens whenever a pass writes nothing:
   - deflate buffers its input (`Z_NO_FLUSH`);
   - a source read returns 0 bytes;
   - a stream has nothing committed;
   - the finishing call writes nothing after a pass that filled `tmp0_`.
4. **z_assert.** The unchunked compressed `prepare` fails `BOOST_ASSERT(tmp0_.size() > 0)` in those same cases (line 322). The branch has no `need_data`, which the spec promises for a stream with nothing committed.
5. **z_empty_oob.** A compressed empty body takes the compressed `prepare`. `start_empty` set up neither `tmp0_` nor `tmp1_`. When the previous message left `tmp0_` large enough, `on_end` stores two buffers into an `out_` of one or two slots, writing past its end (line 171).
   On a new serializer the same body cannot be sent at all: `tmp0_` has capacity 0, so every `prepare` throws `length_error`.
6. **z_small_ws.** `prepare` needs `tmp0_.capacity() >= 32` (line 258). `start_source`/`start_stream` check only 26, as spec invariant 5 does. With a workspace of 52 to 63 bytes the start succeeds and every `prepare` throws.
7. **z_empty_leak.** `get_input` reads `tmp1_` for every style but buffers (line 198). `start_empty` neither sets up nor clears `tmp1_`. Suppose a compressed source message is abandoned with bytes read into `tmp1_` and not yet compressed, and a compressed empty message follows. The new filter then compresses the earlier body's bytes into a message whose body is empty. `MessageStream` catches this: the message takes a byte it was never given. This is the same stale state as z_empty_oob, seen from the data rather than the array.

8. **z_wrap_loss.** `get_input` shows the filter only the first contiguous piece of `tmp1_` (line 198), while `on_process` is told `more_ = !finished`. Take a compressed source body of 33 bytes with a 64-byte workspace, so `tmp1_` and `tmp0_` hold 32 each:
   1. the first `prepare` reads 2 bytes. The filter takes 1 and fills `tmp0_`, so the loop stops (line 300) with 1 byte left in `tmp1_` at offset 1;
   2. the caller consumes `tmp0_`. The next `prepare` reads the last 31 bytes, and the source reports finished. The data now wraps: its first piece is the 31 bytes from offset 1 to the end;
   3. the filter, told there is no more input, finishes after taking that piece. The byte at the front of `tmp1_` is left;
   4. once `tmp0_` is consumed, line 509 sets `is_done_`. The peer decompresses 32 of the 33 bytes.

   The loss needs a body longer than `tmp1_` and a pass that fills `tmp0_` before its input is used up. Deflate fills its output on incompressible data. The run's constraint `MC_WrapClean` keeps to traces in which every pass writes, the body is framed without chunks or Expect, and an unfinished filter leaves input behind only when `tmp0_` is full. So the trace rests on no other finding.

Each property of a passing run has a mutant in `PROJECT.json`: a plausible bug in one action that TLC then catches.

### Bounds

- `WsSize = 28` is the smallest workspace above the chunked minimum of 26.
  - A chunk carries at most 3 body bytes.
  - A 3-byte chunk leaves exactly the 5 bytes of the last chunk free, so the reservation is tested at its edge.
- `MaxBody = 4` forces a body into two chunks. It also gives short reads, empty reads and a final read of 0 bytes.
- `HdrLen = 2` lets a consume stop inside the header.
- Expect and chunked take both values.

For `CompressedSerializer`:

- `WsSize = 64` makes both halves 32 bytes, exactly the compressed minimum. A chunked pass then has a 7-byte window, and `MC_SmallWsSize = 56` (28-byte halves) sits between the start's check and `prepare`'s.
- `ZMax = 8` bounds the compressed bytes of a message. The window (7, 32 or 64 bytes) is cut to what is left of it, so a pass can fill the window, write one byte, or write nothing.
- `MaxBody = 2` gives empty, short and two-read bodies.
- `MaxMsgs = 2` lets a message find what the previous one left in `tmp0_` and `tmp1_`, which is what the `z_empty_oob` case needs. These runs use `CHECK_DEADLOCK FALSE`, because the object stops after its last message.
- With `MaxBody = 2` the bytes in `tmp1_` never wrap around its end. The run `z_wrap_loss` takes the least bound that lets them: a body of `MC_WrapBody = WsSize \div 2 + 1` bytes. Its `ZMax` is the same 33 (`MC_WrapZMax`), so that a pass can fill the 32 bytes of `tmp0_` and a later pass can still write.

### Fairness

`LiveSpec` runs one message: `FirstStart`, then the caller's loop (`DriverNext`). It assumes:

- Weak fairness on `Prepare`, `Consume` and `StreamClose`. The caller keeps driving the serializer and eventually closes a stream.
- Strong fairness on `ReadProgress`: a source given room eventually returns bytes or finishes.

`ZLiveSpec` assumes the same for a compressed message, with strong fairness on `ZProgress`: a `prepare` in which the filter can take input, write output or finish (or the source can return bytes or finish) eventually does. A deflate filter given room and input does so.

Without these assumptions the code promises nothing. `CHECK_DEADLOCK FALSE` is used in the live run only, because the caller stops at `is_done()`.

## Proofs

Each theorem is proved by `tlapm` to its last leaf. Its hypotheses on the constants are stated in the theorem. Where a violation run shows that a hypothesis is needed, the theorem names that run.

### Types, overflow and refinement of the identity serializer (`SerializerProofs`, `RefinementProofs`)

The theorems are proved for every `WsSize >= 26`, `HdrLen > 0` and `MaxBody`:

- `TypeCorrect == Spec => []TypeOK`
- `Tmp0NeverOverflows == Spec => []NoTmp0Overflow`

`NoTmp0Overflow` is not inductive on its own. The proofs rest on `IInvHolds == Spec => []IInv`, where `IInv` conjoins:

- `TypeOK`;
- `NoTmp0Overflow`;
- `ShownBound`: the view never exceeds the header plus the buffered bytes, so a consume cannot take more than `tmp0_` holds;
- `LastChunkReserved`: an open chunked stream always has 5 bytes free, which makes `close()` safe. This holds because `stream::prepare` reserves `chunked_overhead`.

How the proof is built:

- `InitIInv` and `NextIInv` have one step per action.
- Each step proves the parts of `IInv` separately: flags, counts, decoder, bounds.
- The lemmas `FeedType` and `FeedChunkType` show that the decoder stays well typed.

`RefinementProofs` proves `SerializerRefinesMessageStream == Spec => IdRefinesMessageStream`. It assumes `~PartialErrorReads`, because with partial error reads the chunked branch loses bytes (finding 2). The argument:

- `Framed` is an invariant of the peer's decoder, proved as `FramedHolds`:
  - the body is open only for a started source or stream message that is not done;
  - a started message's decoder has received exactly the bytes given;
  - an open body's decoder waits at a chunk boundary (phase `"size"`), or takes data as it comes in identity mode;
  - no more than `MaxBody` is given.
- Lemmas on `Feed` compute what each piece the serializer writes does to the decoder: `FeedChunkSize` (a chunk of `n > 0` bytes at a boundary), `FeedIdent`, and `FeedChunkZeroLastBody` (a zero-size or last chunk adds no body byte).
- `NextRefines` maps each action to a step of `MessageStream`:
  - `start_*` to `Begin`;
  - `reset()` to `Reset`;
  - reads, commits and `close()` to `Take`;
  - consumes to `Send`;
  - the views `prepare()` computes to stutters.

  A consume that sets `is_done_` finds `more_` false, by `Framed`'s first clause, and the body wholly framed, by its second.

`Framed` gives the first clause of `CompleteAtDone` (`dec.body = given`) for every value of the constants. It says nothing of the decoder's phase after the body closes, so the zero-size buffers of finding 1 do not contradict it.

### Wire format of the identity serializer (`WireProofs`)

`WireWellFormed` and `CompleteAtDone` are not inductive either. `WInvHolds` proves `IInv /\ Wired`, where `Wired` adds to `Framed`'s clauses on the open body:

- `Settled`: between two pieces the decoder is never left inside a chunk;
- `Closed`: a started message whose body is closed has drained its source and, when chunked, sent the last chunk;
- `StreamNoSource` and `DoneStarted`.

`FeedLastDone` computes that the last chunk, fed at a chunk boundary, ends the body. Each theorem carries exactly the hypotheses its violation run shows to be needed:

- `WireWellFormedHolds == Spec => []WireWellFormed` assumes `0 \notin BufferBodies` (run `zero_body`);
- `CompleteAtDoneHolds == Spec => []CompleteAtDone` also assumes `~PartialErrorReads` (run `read_error`);
- `ExpectPausesBodyHolds == Spec => ExpectPausesBody` holds without either. It is the action property: while the expect flag is set, no step shows or consumes a body byte. It rests on `ExpectShown`, which says that the view is at most the header.

### The composed object (`CompressedProofs`, `CompleteProofs`, `ZRefinementProofs`)

These theorems hold for every `WsSize >= 26`, `HdrLen`, `MaxBody`, `ZMax`, `MaxMsgs` and `ZStyles`. They cover any sequence of identity and compressed messages on one object, and every outcome of the filter loop (`FilterLoop`).

- **`CInvHolds == CSpec => []CInv`**, which gives `CTypeCorrect` and `BuffersFitRegionsHolds`. `BuffersFitRegions` is not inductive. Its strengthening `CInv` adds the following clauses:
  - `cap0 <= WsSize`;
  - `CShownBound`: the view is within the header plus `out_` or `tmp0_`, whichever the style serves from;
  - `IdOwnsWorkspace`: an open identity source or stream body has `tmp0_` on the whole workspace, even after a compressed message gave it only half;
  - `IdLastChunkReserved` and `MoreStarted`.

  `EmitFacts` bounds what one run of the filter loop writes. It shows that the chunk frame fits `get_output`'s window.
- **`BuffersCompleteAtDoneHolds == CSpec => []BuffersCompleteAtDone`** assumes what `CompleteAtDone` assumes. It rests on `MInvHolds`, where `MInv` adds to `CInv` the following clauses:
  - `ZConserved`: the bytes handed over are the filter's input plus what `buf_` or `tmp1_` still holds;
  - `ZDrained`: once the filter is done, the body is closed, the source read out and `buf_` drained. It says nothing of `tmp1_`, which the filter may leave non-empty (finding 8);
  - `ZDoneFinished`: `consume()` sets `is_done_` on a compressed message only after `filter_done_`;
  - `IdWired`: a started identity message satisfies `Wired /\ Framed`, whatever messages came before it.
- **`CompressedRefinesMessageStream == CSpec => RefinesMessageStream`**. It assumes `~PartialErrorReads`, `0 \notin BufferBodies` and `ZStyles \subseteq {"buffers"}`. The last hypothesis is needed: run `z_empty_leak` shows that a compressed empty body takes stale `tmp1_` bytes, and run `z_wrap_loss` that a compressed source body can be done with bytes still in `tmp1_`. Only the lemma for `consume()` uses it: for the other steps the lemmas hold for source and stream bodies as well. No passing run checks this refinement, because a TLC instance in which `tmp1_` cannot wrap would show nothing the theorem does not. The middle hypothesis is used only through `IdWired`. The proof rests on `RZInvHolds`, which adds three clauses to `MInv`:
  - `ZInStyles`;
  - `ZClosedNoSource`: a closed compressed body has no source bytes left, so a read after it closes gives nothing;
  - `ZGiven`: at most `MaxBody` bytes are given.

  `CNextRefines` maps each action to a step, one lemma per group:
  - `ZStart` maps to `Begin`, with nothing taken;
  - a compressed `prepare()` maps to `Take`. The bytes taken (`AbsTaken`, the filter's input once it is done) only grow (`ZTakenGrows`) and stay within what was given (`ZTakenBound`, by `ZConserved`);
  - a stream commit or close maps to `Take` with nothing taken, because an open body's filter is not done (`ZOpenNotDone`);
  - `consume()` maps to `Send`. At `is_done_` the filter of a buffers body is done, so by `ZDrained` (`buf_` is drained) and `ZConserved` its input is everything given;
  - identity steps map through `NextRefines` of `RefinementProofs` (`IdTransfer`).

Two workarounds for tlapm's SMT backend:
- sums of primed variables are handled with `SumNat`, `SumInNat` and `SummandBound`;
- the type facts of the next state are given explicitly (`RTypesNext`).

### What stays with TLC

- **Liveness and `ENABLED`** (`Termination`, `ZTermination`), which are out of TLAPS's reach. The runs `live` and `z_live` check them under the fairness described above.
- **Every property on the TLC instances only.** This covers the runs' instances of each theorem above and the violation runs' counterexamples, which no proof can give.
- **`AssertionsHold` and `OutViewInBounds`.** These are violated (findings), so there is nothing to prove.

## Not modelled yet, and the plan

- **`write_chunk_header`.** The hex formatting, checked against a reference definition over bounded sizes.
- **`consume_buffers`.** The buffer walk, checked against a byte-count reference.
- **A `start_*` that throws after changing state** (line 713). When compressing, `start_source` and `start_stream` can throw after `start_init` set the new message's flags and rebuilt `out_`, `tmp0_` and `tmp1_`, but before `hp_` is reassigned (line 715). A later `prepare` of an expect-continue message takes the branch at line 150 before the capacity check at line 258, and shows what the stale `hp_` points at. The model's starts always succeed. Identity starts cannot throw for `WsSize >= 26`.
- **Source errors in the compressed branch** (line 263). `results.ec` is ignored. With the model's transient failures this is invisible in the state. A source that fails for good is excluded by the fairness of `ZLiveSpec`.
- **`stream::commit` after `close()`** (line 821). `commit` does not test `more_`, and the spec names no precondition, so such a commit would frame a chunk behind the last chunk. The modelled caller, like the spec's, commits only while the body is open.
- **The compressed filter's own failures.** `on_process` returns no error code in this version.
- **Left out on purpose:**
  - `zlib_service.hpp` is an interface with no state of its own; its filters are `FilterLoop`;
  - `crlf_rule` is a stateless two-character parser with no state to model; a TLC check would be an exhaustive test of two characters.
