--------------------------------- MODULE Base64 ---------------------------------
(* base64.cpp.  Bytes and characters are numbers; '+' is 43, '=' is 61.  The  *)
(* loops over groups of three bytes and four characters are written by what   *)
(* they leave at each place of their output.                                  *)
EXTENDS Naturals, Sequences, FiniteSetsExt

BASE64_PAD == 61

\* The encode table: A to Z, a to z, 0 to 9, + and /.
base64en(k) ==
  CASE k < 26 -> 65 + k [] k \in 26 .. 51 -> 71 + k [] k \in 52 .. 61 -> k - 4
    [] k = 62 -> 43 [] k = 63 -> 47

\* The decode table, 255 for what the encode table does not have.
base64de(c) ==
  CASE c \in 65 .. 90 -> c - 65 [] c \in 97 .. 122 -> c - 71 [] c \in 48 .. 57 -> c + 4
    [] c = 43 -> 62 [] c = 47 -> 63 [] OTHER -> 255

\* Character k of group g, both from 0, of what base64_encode makes: the last
\* group is filled with zero bits, and then with pads.
Encoded(in, g, k) ==
  LET b(i) == IF 3 * g + i <= Len(in) THEN in[3 * g + i] ELSE 0 IN
    IF 3 * g + k > Len(in) THEN BASE64_PAD
    ELSE base64en(CASE k = 0 -> b(1) \div 4
                    [] k = 1 -> (b(1) % 4) * 16 + b(2) \div 16
                    [] k = 2 -> (b(2) % 16) * 4 + b(3) \div 64
                    [] k = 3 -> b(3) % 64)

base64_encode(in) ==
  [p \in 1 .. 4 * ((Len(in) + 2) \div 3) |-> Encoded(in, (p - 1) \div 4, (p - 1) % 4)]

\* Byte k of group g, both from 0, of n characters: the low bits of one and the
\* high bits of the next, if there is one.
Decoded(in, n, g, k) ==
  LET p == 4 * g + k + 1
      high == base64de(in[p])
      low == IF p < n THEN base64de(in[p + 1]) ELSE 0
  IN CASE k = 0 -> ((high * 4) % 256) + low \div 16
       [] k = 1 -> (high % 16) * 16 + low \div 4
       [] k = 2 -> (high % 4) * 64 + low

\* base64_decode into out: of the n characters before a pad, or before one that
\* the table does not have, which makes it return 0 but leaves in out what it
\* has written.
base64_decode(in, out) ==
  LET n == Min({i \in 0 .. Len(in) :
                  i < Len(in) => in[i + 1] = BASE64_PAD \/ base64de(in[i + 1]) = 255})
      Written(k) == 4 * ((k - 1) \div 3) + ((k - 1) % 3) < n
      stopped == n < Len(in) /\ in[n + 1] # BASE64_PAD
  IN IF Len(in) % 4 # 0 THEN [out |-> out, j |-> 0]
     ELSE [out |-> [k \in DOMAIN out |->
                      IF Written(k) THEN Decoded(in, n, (k - 1) \div 3, (k - 1) % 3) ELSE out[k]],
           j |-> IF stopped THEN 0 ELSE n - (n + 3) \div 4]

-----------------------------------------------------------------------------
\* base64::encode: the string holds the final NUL too.
encode(buf) == base64_encode(buf) \o <<0>>

\* base64::decode: three bytes for four characters, whatever base64_decode
\* returns.
decode(buf) == base64_decode(buf, [i \in 1 .. 3 * (Len(buf) \div 4) |-> 0]).out
=============================================================================
