--------------------------------- MODULE Address ---------------------------------
(* Addresses and URLs (net/asyncsys.cpp).  A string is a sequence of tokens:  *)
(* words, numbers, dotted quads and the characters ":", "@" and ".".          *)
EXTENDS Naturals, Sequences, FiniteSetsExt

CONSTANTS
  Quads, Numbers, Words    \* tokens

\* The least and the greatest place that a regular expression may match at.
First(P) == Min(P)
LastOf(P) == Max(P)

\* parsedns of what matches "\w+": of an address of four numbers, the first.
Host(token) == [dns |-> IF token \in Quads THEN "a number" ELSE token]

\* splitaddr: an address of four numbers with a port, a port, or a word whose
\* name is looked up, for port 80; the least of these in this order, wherever
\* it is in the string.  (That a word comes with a port is looked for last, and
\* so never found.)
splitaddr(addr) ==
  LET Port == {i \in 1 .. Len(addr) - 1 : addr[i] = ":" /\ addr[i + 1] \in Numbers}
      IpPort == {i \in Port : i > 1 /\ addr[i - 1] \in Quads}
      Word == {i \in DOMAIN addr : addr[i] \in Quads \cup Numbers \cup Words}
  IN IF IpPort # {} THEN [ip |-> addr[First(IpPort) - 1], port |-> addr[First(IpPort) + 1]]
     ELSE IF Port # {} THEN [ip |-> "127.0.0.1", port |-> addr[First(Port) + 1]]
     ELSE IF Word # {} THEN [ip |-> Host(addr[First(Word)]), port |-> "80"]
     ELSE [ip |-> "none", port |-> "none"]

\* spliturl: the name ends at the last ":" before the last "@", if there is
\* one behind which the password has room, or else at that "@".
spliturl(url) ==
  LET Ats == {i \in 2 .. Len(url) - 1 : url[i] = "@"}
      at == LastOf(Ats)
      Colons(a) == {i \in 2 .. a - 2 : url[i] = ":"}
      From(i) == SubSeq(url, i, Len(url))
  IN IF Ats = {} THEN [name |-> <<>>, password |-> <<>>, addr |-> <<>>]
     ELSE IF Colons(at) # {}
       THEN LET c == LastOf(Colons(at)) IN
              [name |-> SubSeq(url, 1, c - 1), password |-> SubSeq(url, c + 1, at - 1), addr |-> From(at + 1)]
       ELSE [name |-> SubSeq(url, 1, at - 1), password |-> <<>>, addr |-> From(at + 1)]
=============================================================================
