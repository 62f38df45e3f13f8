---------------------------------- MODULE Http ----------------------------------
(***************************************************************************)
(* One connection of httpserver (http/httpserver.cpp): client::recv hands  *)
(* what arrives to http_parser_execute, whose callbacks put a request      *)
(* together in m_request; when it is complete the router's callback, or    *)
(* the default one, answers through the session (http/httpreponse.cpp).    *)
(*                                                                         *)
(* The stream is a sequence of units, the least pieces into which arrival  *)
(* may cut it.  The parser calls a data callback once for all units of one *)
(* part of a request that it has at hand.                                  *)
(*                                                                         *)
(* A send that fails closes the connection, wherever it is called from:    *)
(* what the client still holds is parsed all the same, nothing more is     *)
(* read.  The next answer makes the session forget the client, which is    *)
(* its last owner, and owns the parser.                                    *)
(***************************************************************************)
EXTENDS Naturals, Sequences, SequencesExt

CONSTANTS
  MaxReqs,     \* bound: requests that the peer sends
  Path,        \* [r]: the path of request r
  Routes,      \* paths given to add_method
  Upgrades,    \* requests that ask for another protocol
  Errors       \* what callbacks give to set_error

ASSUME HttpAssumption ==
  MaxReqs \in Nat /\ Path \in Seq(STRING) /\ Len(Path) = MaxReqs /\ Routes \subseteq STRING

Reqs == 1 .. MaxReqs

VARIABLES
  reached,     \* units that reached the socket
  held,        \* of these, how many client::recv has taken from it
  base,        \* units that were popped from the buffer of the client
  fed,         \* units that the parser has executed
  upto,        \* units in the buffer that is being dispatched
  parser,      \* "new" before a message, "in" one, "error" for ever after one,
               \* "upgrade" when it stops after one of Upgrades
  m_method, m_header, m_body, t,   \* m_request
  handed,      \* history: calls of callbacks, with what they were given
  later,       \* requests whose callback answers later
  wire,        \* what was sent back
  conn         \* "open", "closed", "gone" when the session forgot the client, and
               \* "undefined" when it did while the client was in dispatch

m_request == <<m_method, m_header, m_body, t>>

httpVars == <<reached, held, base, fed, upto, parser, m_request, handed, later, wire, conn>>

\* Each request has one header, of the same name, and a body; all but the marks
\* of its begin and end may be cut in two.
Parts == <<"begin", "url", "url", "field", "field", "value", "value", "body", "body", "complete">>

Unit(n) ==
  LET r == ((n - 1) \div Len(Parts)) + 1
      k == ((n - 1) % Len(Parts)) + 1
  IN [req |-> r, part |-> Parts[k], half |-> 1 + (k % 2)]

Total == MaxReqs * Len(Parts)

\* Both halves of the part of a request, as callbacks store them.
Url(r) == <<<<Path[r], 1>>, <<Path[r], 2>>>>
Name == <<1, 2>>
Of(r) == <<<<r, 1>>, <<r, 2>>>>

NoHeader == [k \in {} |-> <<>>]

HttpTypeOK ==
  /\ reached \in 0 .. Total
  /\ held \in 0 .. reached /\ base \in 0 .. held /\ fed \in base .. upto /\ upto \in base .. held
  /\ parser \in {"new", "in", "error", "upgrade"}
  /\ conn \in {"open", "closed", "gone", "undefined"}
  /\ \A k \in DOMAIN m_header : k \in Seq({1, 2})
  /\ later \subseteq Reqs
  /\ \A i \in DOMAIN handed : handed[i].req \in Reqs

HttpInit ==
  /\ reached = 0 /\ held = 0 /\ base = 0 /\ fed = 0 /\ upto = 0 /\ parser = "new"
  /\ m_method = <<>> /\ m_header = NoHeader /\ m_body = <<>> /\ t = <<>>
  /\ handed = <<>> /\ later = {} /\ wire = <<>>
  /\ conn = "open"

-----------------------------------------------------------------------------
(* httpreponse *)

http_strerror(err) == IF err \in {200, 400, 403, 404, 413, 417, 500} THEN err ELSE 505

\* Faulty: the head is put behind the text.
serializeBack(r, err, body) ==
  <<[req |-> r, size |-> body + 1],
    [req |-> r, status |-> http_strerror(err), length |-> body + 1]>>

\* The text is never empty, whatever the body.  The head goes in front of it
\* and counts it.
serialize(r, err, body) ==
  <<[req |-> r, status |-> http_strerror(err), length |-> body + 1],
    [req |-> r, size |-> body + 1]>>

-----------------------------------------------------------------------------
(* The connection *)

\* session::send of the head and of the text.  The client takes what it is given
\* while the connection is open, if only for later; a send that fails loses its
\* message and closes.  After that the first message makes the session forget the
\* client, and keep that message and those to come.
SendList(ms) ==
  \/ conn = "open" /\ wire' = wire \o ms /\ UNCHANGED conn
  \/ conn = "open" /\ wire' = wire \o <<ms[1]>> /\ conn' = "closed"
  \/ /\ conn \in {"open", "closed"} /\ UNCHANGED wire
     /\ conn' = IF base < upto THEN "undefined" ELSE "gone"
  \/ conn = "gone" /\ UNCHANGED <<wire, conn>>

\* The peer hangs up.
HangsUp ==
  /\ conn = "open" /\ base = upto
  /\ conn' = "closed"
  /\ UNCHANGED <<reached, held, base, fed, upto, parser, m_request, handed, later, wire>>

\* More of the stream arrives.  What arrives while the client is in dispatch is
\* not seen before dispatch has returned, and may as well arrive then.
UnitsArrive ==
  /\ base = upto
  /\ \E n \in reached + 1 .. Total : reached' = n
  /\ UNCHANGED <<held, base, fed, upto, parser, m_request, handed, later, wire, conn>>

\* client::recv takes what there is, and calls dispatch with all it holds.
recv ==
  /\ conn = "open" /\ fed = upto /\ base = upto /\ held < reached
  /\ upto' = reached /\ held' = reached
  /\ UNCHANGED <<reached, base, fed, parser, m_request, handed, later, wire, conn>>

\* The parser is at the units from fed + 1 to to, which are those of one part.
At(to, part) ==
  /\ fed < upto /\ to \in fed + 1 .. upto
  /\ \A n \in fed + 1 .. to : Unit(n).part = part /\ Unit(n).req = Unit(fed + 1).req
  /\ to = upto \/ Unit(to + 1).part # part
  /\ fed' = to
  /\ UNCHANGED <<reached, held, base, upto, wire, conn>>

Halves(to) == [i \in 1 .. to - fed |-> Unit(fed + i).half]

\* on_message_begin.
Begin(to) ==
  /\ parser = "new" /\ At(to, "begin")
  /\ parser' = "in"
  /\ UNCHANGED <<m_request, handed, later>>

\* The buffer was handed over again from the middle of a request: an error.
ParseError ==
  /\ parser = "new" /\ fed < upto /\ Unit(fed + 1).part # "begin"
  /\ parser' = "error"
  /\ UNCHANGED <<reached, held, base, fed, upto, m_request, handed, later, wire, conn>>

on_url(to) ==
  /\ parser = "in" /\ At(to, "url")
  /\ m_method' = m_method \o [i \in 1 .. to - fed |-> <<Path[Unit(to).req], Halves(to)[i]>>]
  /\ UNCHANGED <<parser, m_header, m_body, t, handed, later>>

on_header_field(to) ==
  /\ parser = "in" /\ At(to, "field")
  /\ t' = Halves(to)
  /\ UNCHANGED <<parser, m_method, m_header, m_body, handed, later>>

\* emplace, of t, which is empty afterwards.
on_header_value(to) ==
  /\ parser = "in" /\ At(to, "value")
  /\ t' = <<>>
  /\ m_header' = IF t \in DOMAIN m_header THEN m_header
                 ELSE [k \in DOMAIN m_header \cup {t} |->
                         IF k = t THEN [req |-> Unit(to).req, halves |-> Halves(to)] ELSE m_header[k]]
  /\ UNCHANGED <<parser, m_method, m_body, handed, later>>

\* Faulty: on_body keeps the last piece only.
on_bodyLast(to) ==
  /\ parser = "in" /\ At(to, "body")
  /\ m_body' = [i \in 1 .. to - fed |-> <<Unit(to).req, Halves(to)[i]>>]
  /\ UNCHANGED <<parser, m_method, m_header, t, handed, later>>

on_body(to) ==
  /\ parser = "in" /\ At(to, "body")
  /\ m_body' = m_body \o [i \in 1 .. to - fed |-> <<Unit(to).req, Halves(to)[i]>>]
  /\ UNCHANGED <<parser, m_method, m_header, t, handed, later>>

\* The path is one that add_method was given.
Routed == \E p \in Routes : m_method = <<<<p, 1>>, <<p, 2>>>>

\* Faulty: __callback has no default.
CallbackRouted(r, how) ==
  /\ IF Routed
       THEN /\ how \in {"now", "later", "throw"}
            /\ handed' = Append(handed, [req |-> r, how |-> how, url |-> m_method,
                                         header |-> m_header, body |-> m_body])
       ELSE how = "default" /\ UNCHANGED handed
  /\ later' = IF how = "later" THEN later \cup {r} ELSE later

\* httpserver::__callback: the callback of the path, or the one for no path.
Callback(r, how) ==
  /\ IF Routed THEN how \in {"now", "later", "throw"} ELSE how = "default"
  /\ handed' = Append(handed, [req |-> r, how |-> how, url |-> m_method, header |-> m_header,
                               body |-> m_body])
  /\ later' = IF how = "later" THEN later \cup {r} ELSE later

\* on_message_complete, and the callback answers at once or later.
on_message_complete(to) ==
  /\ parser = "in" /\ fed < upto /\ to = fed + 1 /\ Unit(to).part = "complete"
  /\ fed' = to /\ parser' = IF Unit(to).req \in Upgrades THEN "upgrade" ELSE "new"
  /\ \E how \in {"now", "later", "default"} :
       /\ Callback(Unit(to).req, how)
       /\ \/ how = "later" /\ UNCHANGED <<wire, conn>>
          \/ how = "default" /\ SendList(serialize(Unit(to).req, 404, 0))
          \/ how = "now" /\ \E err \in Errors, body \in 0 .. 1 :
                              SendList(serialize(Unit(to).req, err, body))
  /\ UNCHANGED <<reached, held, base, upto, m_request>>

\* The callback throws, past the parser and client::recv: the buffer is not
\* popped, and is handed over again with what arrives next.
CallbackThrows(to) ==
  /\ parser = "in" /\ fed < upto /\ to = fed + 1 /\ Unit(to).part = "complete"
  /\ Callback(Unit(to).req, "throw")
  /\ parser' = "new" /\ fed' = base /\ upto' = base
  /\ UNCHANGED <<reached, held, base, m_request, wire, conn>>

\* dispatch returns the size of the buffer, whatever the parser said: what follows
\* an error or an upgrade is dropped.
DispatchReturns ==
  /\ base < upto /\ (fed = upto \/ parser \in {"error", "upgrade"})
  /\ base' = upto /\ fed' = upto
  /\ parser' = IF parser = "upgrade" THEN "new" ELSE parser
  /\ UNCHANGED <<reached, held, upto, m_request, handed, later, wire, conn>>

\* A callback that has waited for something answers.
Answer(r) ==
  /\ r \in later /\ conn # "undefined"
  /\ later' = later \ {r}
  /\ \E err \in Errors, body \in 0 .. 1 : SendList(serialize(r, err, body))
  /\ UNCHANGED <<reached, held, base, fed, upto, parser, m_request, handed>>

Execute ==
  /\ conn # "undefined"
  /\ \/ \E to \in fed + 1 .. upto :
          \/ Begin(to) \/ on_url(to) \/ on_header_field(to) \/ on_header_value(to) \/ on_body(to)
          \/ on_message_complete(to) \/ CallbackThrows(to)
     \/ ParseError \/ DispatchReturns

HttpNext == UnitsArrive \/ HangsUp \/ recv \/ Execute \/ \E r \in Reqs : Answer(r)

HttpSpec == HttpInit /\ [][HttpNext]_httpVars /\ WF_httpVars(recv) /\ WF_httpVars(Execute)

-----------------------------------------------------------------------------
(* Properties *)

Threw == \E i \in DOMAIN handed : handed[i].how = "throw"

\* Requests whose callbacks did not answer at once.
Waited == {handed[i].req : i \in {i \in DOMAIN handed : handed[i].how = "later"}}

\* What a callback is given ends with the whole path and the whole body of its
\* request, once, however arrival cuts them; the first request of a connection
\* is given nothing else.  (m_request is never reset, so that later ones find
\* those of all earlier ones before them.)  Its header is there, or that of an
\* earlier request, under the whole name or under what follows a cut of it; a
\* value begins with its beginning, and what follows a cut is under no name.
\* Unless a callback threw, they are called in the order of the requests, and
\* none is left out before one that asked for another protocol.
HandedWhole ==
  /\ HttpTypeOK
  /\ \A i \in DOMAIN handed :
       LET h == handed[i] IN
         /\ IsSuffix(Url(h.req), h.url) /\ IsSuffix(Of(h.req), h.body)
         /\ ~Threw =>
              /\ \A j \in 1 .. i - 1 : handed[j].req < h.req
              /\ (\A j \in 1 .. i - 1 : handed[j].req \notin Upgrades) => h.req = i
              /\ Len(h.url) = 2 * i /\ Len(h.body) = 2 * i
         /\ {Name, <<2>>} \cap DOMAIN h.header # {}
         /\ \A k \in DOMAIN h.header :
              h.header[k].req <= h.req /\ (h.header[k].halves = <<2>> <=> k = <<>>)

\* The head of an answer counts the text that follows it at once, whoever else
\* answers, unless the connection is closed then; and those that callbacks give
\* at once come in the order of the requests, one each, unless a callback threw.
AnswersInOrder ==
  /\ \A i \in DOMAIN wire :
       IF i % 2 = 1
         THEN /\ "length" \in DOMAIN wire[i]
              /\ IF i = Len(wire) THEN conn # "open"
                 ELSE wire[i + 1] = [req |-> wire[i].req, size |-> wire[i].length]
         ELSE "size" \in DOMAIN wire[i]
  /\ ~Threw => \A i, j \in DOMAIN wire :
       /\ i % 2 = 1 /\ j % 2 = 1 /\ i < j => wire[i].req # wire[j].req
       /\ i < j /\ wire[j].req < wire[i].req
            => wire[j].req \in Waited

\* A request that was handed asked for another protocol than HTTP: what was in the
\* buffer behind it is dropped, and the parser may be lost after that.
UpgradedBefore(r) == \E i \in DOMAIN handed : handed[i].req < r /\ handed[i].req \in Upgrades

\* The connection was closed before the client took the whole of request r.
CutOff(r) == conn # "open" /\ held < r * Len(Parts)

\* Every request that has arrived is handed to a callback, unless a callback threw
\* (then the parser may be lost, which nobody tells the peer), an earlier request
\* asked for an upgrade, the connection closed before it was read, or an answer was
\* lost and the session dropped the client inside its dispatch.  A request that the
\* client holds when an answer of an earlier one fails is handed all the same.
AllHanded ==
  \A r \in Reqs :
    reached >= r * Len(Parts) ~>
      \/ \E i \in DOMAIN handed : handed[i].req = r
      \/ Threw \/ UpgradedBefore(r) \/ CutOff(r) \/ conn = "undefined"
=============================================================================
