----------------------- MODULE MC_CompressedSerializer -----------------------
(* The TLC instance of CompressedSerializer: a 64-byte workspace, whose     *)
(* halves (32 bytes) are exactly the compressed prepare()'s minimum.        *)
EXTENDS CompressedSerializer

MC_WsSize == 64
MC_SmallWsSize == 56
MC_BufferBodies == 1 .. MaxBody
MC_ZStyles == {"buffers", "source", "stream"}
MC_ZStylesAll == Styles
\* A body one byte longer than tmp1_ (half of MC_WsSize), the least with
\* which the bytes waiting in tmp1_ can wrap around its end, and a filter
\* bound that lets a pass fill tmp0_ (the other half) and the next write.
MC_WrapBody == MC_WsSize \div 2 + 1
MC_ZStylesSource == {"source"}
MC_WrapZMax == MC_WsSize \div 2 + 1

\* The wrap run keeps to passes that write (no BOOST_ASSERT fails) into a
\* body framed without chunks or Expect, and in which a filter that has not
\* finished leaves input in tmp1_ only when it has filled tmp0_ (as deflate
\* does: it takes all its input while it has room to write), so the loss it
\* finds rests on no other finding and on no unlikely filter.
MC_WrapClean ==
  /\ ~asserted /\ ~is_chunked /\ ~is_expect_continue
  /\ (zbuf > 0 /\ tmp0 > 0 /\ ~fdone) => tmp0 = cap0
====
