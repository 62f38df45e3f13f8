------------------------------- MODULE Md5Transform -------------------------------
(***************************************************************************)
(* MD5Transform of md5.cpp: what a block of 64 bytes makes of four words.  *)
(* A word is a sequence of 16-bit limbs, as Md5 says; one that has more    *)
(* than 32 bits carries and shifts on past the bits that count.            *)
(***************************************************************************)
EXTENDS Integers, Sequences, Bitwise

Limb == 65536

\* A literal of 32 bits, as a word of so many limbs.
Wide(literal, limbs) == [i \in 1 .. limbs |-> IF i <= 2 THEN literal[i] ELSE 0]

RECURSIVE PlusFrom(_, _, _, _)
PlusFrom(x, y, i, carry) ==
  IF i > Len(x) THEN <<>>
  ELSE LET s == x[i] + y[i] + carry IN <<s % Limb>> \o PlusFrom(x, y, i + 1, s \div Limb)

Plus(x, y) == PlusFrom(x, y, 1, 0)

BitAnd(x, y) == [i \in DOMAIN x |-> x[i] & y[i]]
BitOr(x, y) == [i \in DOMAIN x |-> x[i] | y[i]]
BitXor(x, y) == [i \in DOMAIN x |-> x[i] ^^ y[i]]
BitNot(x) == [i \in DOMAIN x |-> (Limb - 1) - x[i]]

At(x, i) == IF i \in DOMAIN x THEN x[i] ELSE 0

ShiftLeft(x, n) ==
  LET r == n % 16
      k == n \div 16
  IN [i \in DOMAIN x |-> ((At(x, i - k) % 2^(16 - r)) * 2^r) + (At(x, i - k - 1) \div 2^(16 - r))]

ShiftRight(x, n) ==
  LET r == n % 16
      k == n \div 16
  IN [i \in DOMAIN x |-> (At(x, i + k) \div 2^r) + ((At(x, i + k + 1) % 2^r) * 2^(16 - r))]

-----------------------------------------------------------------------------
(* MD5Transform *)

F(x, y, z) == BitOr(BitAnd(x, y), BitAnd(BitNot(x), z))
G(x, y, z) == BitOr(BitAnd(x, z), BitAnd(y, BitNot(z)))
H(x, y, z) == BitXor(BitXor(x, y), z)
I(x, y, z) == BitXor(y, BitOr(x, BitNot(z)))

RotateLeft(x, n) == BitOr(ShiftLeft(x, n), ShiftRight(x, 32 - n))

\* S11 to S44.
S == <<<<7, 12, 17, 22>>, <<5, 9, 14, 20>>, <<4, 11, 16, 23>>, <<6, 10, 15, 21>>>>

\* The constants of the 64 steps, low half first.
Ac == <<
  <<\ha478, \hd76a>>, <<\hb756, \he8c7>>, <<\h70db, \h2420>>, <<\hceee, \hc1bd>>,
  <<\h0faf, \hf57c>>, <<\hc62a, \h4787>>, <<\h4613, \ha830>>, <<\h9501, \hfd46>>,
  <<\h98d8, \h6980>>, <<\hf7af, \h8b44>>, <<\h5bb1, \hffff>>, <<\hd7be, \h895c>>,
  <<\h1122, \h6b90>>, <<\h7193, \hfd98>>, <<\h438e, \ha679>>, <<\h0821, \h49b4>>,
  <<\h2562, \hf61e>>, <<\hb340, \hc040>>, <<\h5a51, \h265e>>, <<\hc7aa, \he9b6>>,
  <<\h105d, \hd62f>>, <<\h1453, \h0244>>, <<\he681, \hd8a1>>, <<\hfbc8, \he7d3>>,
  <<\hcde6, \h21e1>>, <<\h07d6, \hc337>>, <<\h0d87, \hf4d5>>, <<\h14ed, \h455a>>,
  <<\he905, \ha9e3>>, <<\ha3f8, \hfcef>>, <<\h02d9, \h676f>>, <<\h4c8a, \h8d2a>>,
  <<\h3942, \hfffa>>, <<\hf681, \h8771>>, <<\h6122, \h6d9d>>, <<\h380c, \hfde5>>,
  <<\hea44, \ha4be>>, <<\hcfa9, \h4bde>>, <<\h4b60, \hf6bb>>, <<\hbc70, \hbebf>>,
  <<\h7ec6, \h289b>>, <<\h27fa, \heaa1>>, <<\h3085, \hd4ef>>, <<\h1d05, \h0488>>,
  <<\hd039, \hd9d4>>, <<\h99e5, \he6db>>, <<\h7cf8, \h1fa2>>, <<\h5665, \hc4ac>>,
  <<\h2244, \hf429>>, <<\hff97, \h432a>>, <<\h23a7, \hab94>>, <<\ha039, \hfc93>>,
  <<\h59c3, \h655b>>, <<\hcc92, \h8f0c>>, <<\hf47d, \hffef>>, <<\h5dd1, \h8584>>,
  <<\h7e4f, \h6fa8>>, <<\he6e0, \hfe2c>>, <<\h4314, \ha301>>, <<\h11a1, \h4e08>>,
  <<\h7e82, \hf753>>, <<\hf235, \hbd3a>>, <<\hd2bb, \h2ad7>>, <<\hd391, \heb86>>>>

\* Step i of the transformation, FF, GG, HH or II, of the words a, b, c, d in
\* their order at that step.
Step(i, s, x) ==
  LET a == s[1]
      b == s[2]
      c == s[3]
      d == s[4]
      round == i \div 16
      f == CASE round = 0 -> F(b, c, d) [] round = 1 -> G(b, c, d)
             [] round = 2 -> H(b, c, d) [] round = 3 -> I(b, c, d)
      k == (CASE round = 0 -> i [] round = 1 -> 5 * i + 1
              [] round = 2 -> 3 * i + 5 [] round = 3 -> 7 * i) % 16
      sum == Plus(a, Plus(Plus(f, x[k + 1]), Wide(Ac[i + 1], Len(a))))
  IN <<d, Plus(RotateLeft(sum, S[round + 1][(i % 4) + 1]), b), b, c>>

RECURSIVE Steps(_, _, _)
Steps(i, s, x) == IF i = 64 THEN s ELSE Steps(i + 1, Step(i, s, x), x)

Decode(block, limbs) ==
  [i \in 1 .. 16 |-> Wide(<<block[4 * i - 3] + 256 * block[4 * i - 2],
                           block[4 * i - 1] + 256 * block[4 * i]>>, limbs)]

Transform(s, block) ==
  LET r == Steps(0, s, Decode(block, Len(s[1]))) IN [i \in 1 .. 4 |-> Plus(s[i], r[i])]
=============================================================================
