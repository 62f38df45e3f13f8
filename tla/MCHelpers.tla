-------------------------------- MODULE MCHelpers --------------------------------
EXTENDS Helpers

\* On both sides of the sizes that have 0, 4 and 8 bytes in the header.
MCSizes == {0, 1, 125, 126, 127, 999, 1000, 1001}

\* Bytes that differ.
MCByte(i) == (7 * i + 3) % 256

Blockwise == INSTANCE Md5Transform
MCTransform(s, block) == Blockwise!Transform(s, block)

\* If a long has the 4 bytes that the comment on UINT4 asks for (md5.cpp:31),
\* digests are those of RFC 1321: of the empty message and of "abc".
ASSUME KnownDigests ==
  /\ Digest!MDString(4, <<>>) = <<212, 29, 140, 217, 143, 0, 178, 4, 233, 128, 9, 152, 236, 248, 66, 126>>
  /\ Digest!MDString(4, <<97, 98, 99>>) =
       <<144, 1, 80, 152, 60, 210, 79, 176, 214, 150, 63, 125, 40, 225, 127, 114>>
=============================================================================
