--------------------------------- MODULE Helpers ---------------------------------
(***************************************************************************)
(* The utilities of the library side by side: the process-wide tables, a   *)
(* digest that is made piece by piece, and the conversions.  They share    *)
(* nothing, so a behaviour is one of them: part says which.                *)
(***************************************************************************)
EXTENDS Registry

CONSTANTS
  Longs, Pieces, MaxBytes,    \* see Md5
  Byte(_), MD5Transform(_, _),
  Bytes, MaxLen,              \* base64: bytes, and how many of them at most
  wsu32max, Sizes, Masks,     \* wsmsg: see WsMsg, sizes of messages, masks
  Quads, Numbers, Words       \* addresses: see Address

\* From 2^29 bytes on, a long of 8 bytes has no carry into the high word of the
\* count.  The ends of what spliturl looks for are no words.
ASSUME HelpersAssumption ==
  /\ Pieces \subseteq Nat /\ MaxBytes \in 0 .. 2^29 - 1
  /\ Bytes \subseteq 0 .. 255 /\ MaxLen \in Nat
  /\ wsu32max \in Nat /\ Sizes \subseteq Nat
  /\ {":", "@"} \cap (Quads \cup Numbers \cup Words) = {}

VARIABLES
  part,
  long, context, message,     \* see Md5
  input                       \* what is converted

Digest == INSTANCE Md5
B64 == INSTANCE Base64
Ws == INSTANCE WsMsg
Addr == INSTANCE Address

\* Names hold a ":", passwords an "@", but not the other way round.
Names == {<<w>> : w \in Words} \cup {<<w, ":", v>> : w, v \in Words}
Passwords == {<<w>> : w \in Words} \cup {<<w, "@", v>> : w, v \in Words}

Inputs ==
  [kind : {"base64"}, bytes : UNION {[1 .. n -> Bytes] : n \in 0 .. MaxLen}]
    \cup [kind : {"wsmsg"}, size : Sizes, mask : Masks]
    \cup [kind : {"url"}, name : Names, password : Passwords, ip : Quads, port : Numbers]
    \cup [kind : {"url"}, name : {<<w>> : w \in Words}, password : {<<>>}, ip : Quads, port : Numbers]

Idle == long = 0 /\ context = <<>> /\ message = <<>>

HelpersInit ==
  /\ RegistryInit
  /\ \/ part = "registry" /\ Idle /\ input = <<>>
     \/ part = "md5" /\ Digest!Init /\ input = <<>>
     \/ part = "conversion" /\ Idle /\ input \in Inputs

HelpersNext ==
  \/ part = "registry" /\ RegistryNext /\ UNCHANGED <<part, long, context, message, input>>
  \/ part = "md5" /\ Digest!Next /\ UNCHANGED <<registryVars, part, input>>

HelpersSpec == HelpersInit /\ [][HelpersNext]_<<registryVars, part, long, context, message, input>>

-----------------------------------------------------------------------------
(* Properties *)

\* However a message is cut into updates, at the ends of blocks and of the
\* padding (md5.cpp MD5Update, MD5Final), its digest is that of the whole.
DigestOfWhole == part = "md5" => Digest!DigestOfWhole

\* The three bytes of each group: what base64 makes of a string whose length is
\* not a multiple of three.
Filled(bytes) == bytes \o [i \in 1 .. (2 * Len(bytes)) % 3 |-> 0]

\* base64::decode gives back what base64::encode was given, filled with zeros,
\* if the NUL that encode's string ends with is taken off, but nothing but
\* zeros if it is not.
BytesComeBack(bytes) ==
  LET text == B64!encode(bytes) IN
    /\ B64!decode(SubSeq(text, 1, Len(text) - 1)) = Filled(bytes)
    /\ \A i \in DOMAIN B64!decode(text) : B64!decode(text)[i] = 0

\* A message of WSMSG::make tells its size and mask, wherever these begin,
\* and fills its string.
HeaderTells(msg, size, mask) ==
  /\ Ws!Size(msg) = size
  /\ Ws!get_mask(msg) = mask
  /\ Ws!message_size(msg) = msg.bytes

\* spliturl finds the parts of name:password@ip:port, also where the name has
\* a ":" or the password an "@", and splitaddr the address.
UrlSplits(u) ==
  LET address == <<u.ip, ":", u.port>>
      url == u.name \o (IF u.password = <<>> THEN <<>> ELSE <<":">> \o u.password) \o <<"@">> \o address
      parts == Addr!spliturl(url)
  IN /\ parts.name = u.name /\ parts.password = u.password
     /\ parts.addr = address
     /\ Addr!splitaddr(address) = [ip |-> u.ip, port |-> u.port]

\* What one half of a conversion makes (base64.cpp, wsmsg.cpp, asyncsys.cpp) the
\* other half takes apart again.
RoundTrip ==
  part = "conversion" =>
    /\ input.kind = "base64" => BytesComeBack(input.bytes)
    /\ input.kind = "wsmsg" =>
         /\ HeaderTells(Ws!make_masked(input.mask, input.size), input.size, input.mask)
         /\ HeaderTells(Ws!make(input.size), input.size, 0)
    /\ input.kind = "url" => UrlSplits(input)
=============================================================================
