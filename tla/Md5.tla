----------------------------------- MODULE Md5 -----------------------------------
(***************************************************************************)
(* md5.cpp: a context that takes a message piece by piece (MD5Update, for  *)
(* MDString, MD5File and md5::encode) and MD5Final, which pads and counts. *)
(*                                                                         *)
(* A word is a UINT4, which is an unsigned long: of 4 bytes, or of 8 in    *)
(* 64-bit builds (such a build computes something else than MD5, see       *)
(* Md5Transform).  It is a sequence of 16-bit limbs, the lowest first.     *)
(***************************************************************************)
EXTENDS Integers, Sequences, SequencesExt

CONSTANTS
  Longs,      \* bytes that an unsigned long may have: a subset of {4, 8}
  Pieces,     \* numbers of bytes that one call of MD5Update may be given
  MaxBytes,   \* bound: bytes of a message (count never needs its high word)
  Byte(_),    \* the bytes of the messages, by their places
  MD5Transform(_, _)    \* what a block of 64 bytes makes of the state

VARIABLES
  long,       \* bytes of an unsigned long in this build
  context,    \* MD5_CTX: state, bytes counted, and those that wait in buffer
  message     \* history: all that MD5Update was given

vars == <<long, context, message>>

\* A literal of 32 bits, as a word of size bytes.
Word(size, low, high) == [i \in 1 .. size \div 2 |-> IF i = 1 THEN low ELSE IF i = 2 THEN high ELSE 0]

\* The low 32 bits of words, as bytes.
Encode(words) ==
  FlattenSeq([i \in DOMAIN words |->
    <<words[i][1] % 256, words[i][1] \div 256, words[i][2] % 256, words[i][2] \div 256>>])

-----------------------------------------------------------------------------
(* The context: its state, and the operations of MD5_CTX. *)

\* The blocks that follow each other in bytes.
Blocks(bytes) == [k \in 1 .. Len(bytes) \div 64 |-> SubSeq(bytes, 64 * k - 63, 64 * k)]

\* The state after the first n of blocks.
StateAfter(s, blocks, n) ==
  LET after[k \in Nat] == IF k = 0 THEN s ELSE MD5Transform(after[k - 1], blocks[k])
  IN after[n]

Transforms(s, bytes) == StateAfter(s, Blocks(bytes), Len(bytes) \div 64)

MD5Init(size) ==
  [state |-> <<Word(size, \h2301, \h6745), Word(size, \hab89, \hefcd),
               Word(size, \hdcfe, \h98ba), Word(size, \h5476, \h1032)>>,
   count |-> 0, buffer |-> <<>>]

\* A full block is made of what waits and the first of the input; of the rest
\* every 64 bytes are another, and what remains waits.
MD5Update(ctx, input) ==
  LET index == ctx.count % 64
      partLen == 64 - index
      first == MD5Transform(ctx.state, SubSeq(ctx.buffer, 1, index) \o SubSeq(input, 1, partLen))
      i == partLen + 64 * ((Len(input) - partLen) \div 64)
      kept == SubSeq(ctx.buffer, 1, index)
  IN IF Len(input) >= partLen
       THEN [state |-> Transforms(first, SubSeq(input, partLen + 1, i)),
             count |-> ctx.count + Len(input), buffer |-> SubSeq(input, i + 1, Len(input))]
       ELSE [state |-> ctx.state, count |-> ctx.count + Len(input), buffer |-> kept \o input]

Padding == [i \in 1 .. 64 |-> IF i = 1 THEN 128 ELSE 0]

\* The count of bits, in 8 bytes.
Bits(n) == [i \in 1 .. 8 |-> IF i <= 4 THEN ((8 * n) \div 256^(i - 1)) % 256 ELSE 0]

\* Faulty: one more byte is taken to fit before the count.
PadLenOver(index) == IF index <= 56 THEN 56 - index ELSE 120 - index

PadLen(index) == IF index < 56 THEN 56 - index ELSE 120 - index

\* The digest of what the context was given.
MD5Final(ctx) ==
  LET padded == MD5Update(ctx, SubSeq(Padding, 1, PadLen(ctx.count % 64)))
  IN Encode(MD5Update(padded, Bits(ctx.count)).state)

MDString(size, string) == MD5Final(MD5Update(MD5Init(size), string))

\* The digits that "%x" prints of a word of the digest: no leading zeros.
Digits(bytes) ==
  LET all == [i \in 1 .. 8 |-> LET b == bytes[4 - ((i - 1) \div 2)] IN IF i % 2 = 1 THEN b \div 16 ELSE b % 16]
      from == {i \in 1 .. 8 : all[i] # 0}
  IN IF from = {} THEN <<0>> ELSE SubSeq(all, CHOOSE i \in from : \A j \in from : i <= j, 8)

\* md5::encode.
encode(size, buf) ==
  LET digest == MDString(size, buf) IN FlattenSeq([w \in 1 .. 4 |-> Digits(SubSeq(digest, 4 * w - 3, 4 * w))])

-----------------------------------------------------------------------------
Init == long \in Longs /\ context = MD5Init(long) /\ message = <<>>

\* One MD5Update, as MD5File makes one for each 1024 bytes it reads.
Update(n) ==
  /\ Len(message) + n <= MaxBytes
  /\ LET input == [i \in 1 .. n |-> Byte(Len(message) + i)] IN
       /\ context' = MD5Update(context, input)
       /\ message' = message \o input
  /\ UNCHANGED long

Next == \E n \in Pieces : Update(n)

-----------------------------------------------------------------------------
(* Properties *)

TypeOK ==
  /\ context.count = Len(message)
  /\ Len(context.buffer) = Len(message) % 64

\* RFC 1321: a 1 and zeros up to 56 modulo 64, the count of bits, then block
\* after block.
Padded(m) ==
  LET zeros == CHOOSE z \in 0 .. 63 : (Len(m) + 1 + z) % 64 = 56
  IN m \o <<128>> \o [i \in 1 .. zeros |-> 0] \o Bits(Len(m))

\* However a message is cut into updates, at the boundaries of blocks and of
\* the padding, its digest is that of the whole.
DigestOfWhole ==
  /\ TypeOK
  /\ MD5Final(context) = Encode(Transforms(MD5Init(long).state, Padded(message)))
=============================================================================
