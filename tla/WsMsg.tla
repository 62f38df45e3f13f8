---------------------------------- MODULE WsMsg ----------------------------------
(* wsmsg/wsmsg.cpp: the header of a message.  len tells the size, or that 4  *)
(* or 8 bytes of buffer do; a mask of 4 bytes follows these.  A message is    *)
(* its mask bit, len, the numbers in buffer by their place, and the bytes of  *)
(* the string that holds it.                                                  *)
EXTENDS Naturals

CONSTANT wsu32max    \* what needs more than 32 bits (scaled down)

wsbit32 == 126
wsbit64 == 127
HeadSize == 2        \* sizeof(WSMSG)
MaskSize == 4        \* sizeof(u32)

\* __payload_size, of the bytes behind the header that hold the size.
PayloadSize(msg) == IF msg.len < wsbit32 THEN 0 ELSE IF msg.len < wsbit64 THEN 4 ELSE 8

\* size.
Size(msg) == IF msg.len < wsbit32 THEN msg.len ELSE msg.buffer[0]

get_mask(msg) == IF msg.mask = 1 THEN msg.buffer[PayloadSize(msg)] ELSE 0

\* __extend_size, where data() begins in buffer.
ExtendSize(msg) == (IF msg.mask = 1 THEN MaskSize ELSE 0) + PayloadSize(msg)

message_size(msg) == HeadSize + ExtendSize(msg) + Size(msg)

Put(buffer, at, n) == [i \in DOMAIN buffer \cup {at} |-> IF i = at THEN n ELSE buffer[i]]

set_mask(msg, m) == [msg EXCEPT !.mask = 1, !.buffer = Put(@, PayloadSize(msg), m)]

\* Faulty: wsu32max is taken to fit into 4 bytes.
set_sizeOver(msg, s) ==
  IF s < wsbit32 THEN [msg EXCEPT !.len = s]
  ELSE IF s <= wsu32max THEN [msg EXCEPT !.len = wsbit32, !.buffer = Put(@, 0, s)]
  ELSE [msg EXCEPT !.len = wsbit64, !.buffer = Put(@, 0, s)]

set_size(msg, s) ==
  IF s < wsbit32 THEN [msg EXCEPT !.len = s]
  ELSE IF s < wsu32max THEN [msg EXCEPT !.len = wsbit32, !.buffer = Put(@, 0, s)]
  ELSE [msg EXCEPT !.len = wsbit64, !.buffer = Put(@, 0, s)]

c_payload_size(s) == IF s < wsbit32 THEN 0 ELSE IF s < wsu32max THEN 4 ELSE 8

\* A string of this many bytes, all 0.
Blank(bytes) == [mask |-> 0, len |-> 0, buffer |-> [i \in {} |-> 0], bytes |-> bytes]

\* make, with a mask and without.
make_masked(mask, s) ==
  set_mask(set_size(Blank(HeadSize + MaskSize + c_payload_size(s) + s), s), mask)

make(s) == set_size(Blank(HeadSize + c_payload_size(s) + s), s)
=============================================================================
