----------------------------- MODULE SqlService -----------------------------
(***************************************************************************)
(* The SQL service of asio-sql-service: the server's accept loop and its   *)
(* sessions (server/sql_server.hpp), the blocking SqlClient                *)
(* (client/sql_client.hpp) and the framing of common/protocol.hpp.  One    *)
(* thread runs every handler of the server, one at a time; handlers of     *)
(* different sessions, clients and the network interleave.  A message is   *)
(* a header and a payload, two items of a byte stream; what a query        *)
(* returns is left out.                                                    *)
(***************************************************************************)
EXTENDS Naturals, SequencesExt

CONSTANTS
    Clients,
    Programs,       \* <<client, number, type>>: the requests the clients may make
    MaxRequests     \* bound: requests of all clients

QUERY_RAW == 1
QUERY_JSON == 2
QUERY_BINARY == 3
QUERY_STREAM == 4
RESPONSE_RAW == 11
RESPONSE_JSON == 12
RESPONSE_BINARY == 13
RESPONSE_STREAM == 14
RESPONSE_ERROR == 99
QUERY == {QUERY_RAW, QUERY_JSON, QUERY_BINARY, QUERY_STREAM}
RESPONSE == {RESPONSE_RAW, RESPONSE_JSON, RESPONSE_BINARY, RESPONSE_STREAM}

ASSUME ServiceAssumption == MaxRequests \in Nat

VARIABLES
    asked,      \* how many requests there have been; their numbers are 1 .. asked
    up,         \* io_context::run() has not been left
    backlog,    \* connections the handler of async_accept has not seen
    client,     \* client -> where it is, the type and the number of its request
    session,    \* client -> where its Session is, and the header it has read
    toServer,   \* client -> items under way to the session
    toClient,   \* client -> items under way to the client
    framed      \* for a property: the session reads headers where headers are

vars == <<asked, up, backlog, client, session, toServer, toClient, framed>>

\* junk: bytes of memory that has been given back.  long: an answer longer than
\* the socket takes at once when it is idle.
Parts == {"header", "payload", "junk"}
Requests == [part : Parts, type : QUERY, n : 1 .. MaxRequests]
Responses == [part : Parts, type : RESPONSE \cup {RESPONSE_ERROR}, n : 0 .. MaxRequests,
              long : BOOLEAN]

ClientPlaces == {"start", "idle", "sending", "reading", "got", "lost", "closed", "refused"}
SessionPlaces == {"none", "header", "payload", "write", "cut", "ended"}

TypeOK ==
    /\ asked \in 0 .. MaxRequests
    /\ up \in BOOLEAN
    /\ backlog \in Seq(Clients)
    /\ client \in [Clients -> [pc : ClientPlaces, type : QUERY, n : 0 .. MaxRequests]]
    /\ session \in [Clients -> [pc : SessionPlaces, type : QUERY, n : 0 .. MaxRequests]]
    /\ toServer \in [Clients -> Seq(Requests)]
    /\ toClient \in [Clients -> Seq(Responses)]
    /\ framed \in [Clients -> BOOLEAN]

At(pc) == [pc |-> pc, type |-> 1, n |-> 0]

Init ==
    /\ asked = 0
    /\ up = TRUE
    /\ backlog = <<>>
    /\ client = [c \in Clients |-> At("start")]
    /\ session = [c \in Clients |-> At("none")]
    /\ toServer = [c \in Clients |-> <<>>]
    /\ toClient = [c \in Clients |-> <<>>]
    /\ framed = [c \in Clients |-> TRUE]

Closed(c) == client[c].pc = "closed"
Waiting(c) == client[c].pc \in {"sending", "reading", "got", "lost"}
Serving(c, pc) == up /\ session[c].pc = pc
Gone(c) == ~up \/ session[c].pc = "ended"     \* no socket at the server's end

ClientAt(c, pc) == client' = [client EXCEPT ![c].pc = pc]

\* The header lives in the handler of the read that follows it, no longer.
SessionAt(c, pc) == session' = [session EXCEPT ![c] = At(pc)]
Push(streams, c, item) == [streams EXCEPT ![c] = Append(@, item)]
Pop(streams, c) == [streams EXCEPT ![c] = Tail(@)]

-----------------------------------------------------------------------------
(* SqlClient.                                                              *)

\* The answer the query_*() of each type accepts, besides an error.
Expected(q) ==
    CASE q = QUERY_RAW -> RESPONSE_RAW
      [] q = QUERY_JSON -> RESPONSE_JSON
      [] q = QUERY_BINARY -> RESPONSE_BINARY
      [] q = QUERY_STREAM -> RESPONSE_STREAM

Connect(c) ==
    /\ client[c].pc = "start"
    /\ IF up THEN ClientAt(c, "idle") /\ backlog' = Append(backlog, c)
       ELSE ClientAt(c, "refused") /\ UNCHANGED backlog
    /\ UNCHANGED <<asked, up, session, toServer, toClient, framed>>

\* query_*(): send_request() writes the header, ...
Query(c, q) ==
    /\ client[c].pc = "idle" /\ ~Gone(c)
    /\ asked < MaxRequests /\ <<c, asked + 1, q>> \in Programs
    /\ asked' = asked + 1
    /\ client' = [client EXCEPT ![c] = [pc |-> "sending", type |-> q, n |-> asked']]
    /\ toServer' = Push(toServer, c, [part |-> "header", type |-> q, n |-> asked'])
    /\ UNCHANGED <<up, backlog, session, toClient, framed>>

\* ... then the payload.
SendPayload(c) ==
    /\ client[c].pc = "sending" /\ ~Gone(c)
    /\ ClientAt(c, "reading")
    /\ toServer' = Push(toServer, c,
                        [part |-> "payload", type |-> client[c].type, n |-> client[c].n])
    /\ UNCHANGED <<asked, up, backlog, session, toClient, framed>>

\* Mutant: an error is thrown before its payload is read.
ReceiveHeader_Hasty(c) ==
    /\ client[c].pc = "reading" /\ toClient[c] # <<>>
    /\ ClientAt(c, IF Head(toClient[c]).type = RESPONSE_ERROR THEN "idle" ELSE "got")
    /\ toClient' = Pop(toClient, c)
    /\ UNCHANGED <<asked, up, backlog, session, toServer, framed>>

\* Of what is no header the size is anything.
ReceiveHeader(c) ==
    /\ client[c].pc = "reading" /\ toClient[c] # <<>>
    /\ ClientAt(c, IF Head(toClient[c]).part = "header" THEN "got" ELSE "lost")
    /\ toClient' = Pop(toClient, c)
    /\ UNCHANGED <<asked, up, backlog, session, toServer, framed>>

\* The answer is complete; query_*() returns it, or throws.
ReceivePayload(c) ==
    /\ client[c].pc = "got" /\ toClient[c] # <<>>
    /\ ClientAt(c, "idle")
    /\ toClient' = Pop(toClient, c)
    /\ UNCHANGED <<asked, up, backlog, session, toServer, framed>>

ReceiveAnything(c) ==
    /\ client[c].pc = "lost"
    /\ \E k \in 0 .. Len(toClient[c]) :
         toClient' = [toClient EXCEPT ![c] = SubSeq(@, k + 1, Len(@))]
    /\ ClientAt(c, "idle")
    /\ UNCHANGED <<asked, up, backlog, session, toServer, framed>>

\* disconnect(), the end of the program, or the loss of the network.
HangUp(c) ==
    /\ client' = [client EXCEPT ![c] = At("closed")]
    /\ toClient' = [toClient EXCEPT ![c] = <<>>]
    /\ UNCHANGED <<asked, up, backlog, session, toServer, framed>>

Close(c) == client[c].pc \notin {"start", "refused", "closed"} /\ HangUp(c)

\* A read or write on a connection whose other end is gone throws.
Disappointed(c) ==
    /\ Waiting(c) /\ Gone(c)
    /\ client[c].pc \in {"sending", "lost"} \/ toClient[c] = <<>>
    /\ HangUp(c)

-----------------------------------------------------------------------------
(* The accept loop.                                                        *)

\* start() begins to read.
AcceptConnection ==
    /\ up /\ backlog # <<>>
    /\ backlog' = Tail(backlog)
    /\ SessionAt(Head(backlog), "header")
    /\ UNCHANGED <<asked, up, client, toServer, toClient, framed>>

\* async_accept reports an error: the peer has gone.
AcceptFails ==
    /\ up /\ backlog # <<>> /\ Closed(Head(backlog))
    /\ backlog' = Tail(backlog)
    /\ SessionAt(Head(backlog), "ended")
    /\ toServer' = [toServer EXCEPT ![Head(backlog)] = <<>>]
    /\ UNCHANGED <<asked, up, client, toClient, framed>>

\* remote_endpoint() throws, for the same reason; nothing catches it before
\* main(), which ends and destroys the acceptor and every session.
AcceptThrows ==
    /\ up /\ backlog # <<>> /\ Closed(Head(backlog))
    /\ up' = FALSE
    /\ backlog' = <<>>
    /\ session' = [c \in Clients |-> At(IF session[c].pc = "none" /\ c \notin ToSet(backlog)
                                        THEN "none" ELSE "ended")]
    /\ toServer' = [c \in Clients |-> <<>>]
    /\ UNCHANGED <<asked, client, toClient, framed>>

Accept == AcceptConnection \/ AcceptFails \/ AcceptThrows

-----------------------------------------------------------------------------
(* A session.                                                              *)

Item(part, type, n, long) == [part |-> part, type |-> type, n |-> n, long |-> long]

\* What goes out on c's connection, now or when the write goes on, and the session.
Sends(c, items, pc) ==
    /\ ~Closed(c)
    /\ toClient' = [toClient EXCEPT ![c] = @ \o items]
    /\ SessionAt(c, pc)

\* send_response(): the first write, made at once, takes at most 64 KB and no
\* more than there is room for.  Whatever is left is written when the vectors
\* it refers to are gone: other bytes go out instead, or none, and the write
\* fails.
Send(c, type, n) ==
    \/ Closed(c) /\ SessionAt(c, "write") /\ UNCHANGED toClient
    \/ \E long \in BOOLEAN :
         LET header == Item("header", type, n, long)
             payload == Item("payload", type, n, long)
             junk == Item("junk", type, n, long)
             busy == toClient[c] # <<>>
         IN  \/ Sends(c, <<header, payload>>, "write")
             \/ /\ long \/ busy
                /\ Sends(c, <<header, junk>>, "write") \/ Sends(c, <<header>>, "cut")
             \/ /\ busy
                /\ Sends(c, <<junk, junk>>, "write") \/ Sends(c, <<>>, "cut")

\* read_header(), read_payload(): a header that can be answered.
ReadHeader(c) ==
    /\ Serving(c, "header") /\ framed[c] /\ toServer[c] # <<>>
    /\ session' = [session EXCEPT ![c] =
                     [pc |-> "payload", type |-> Head(toServer[c]).type, n |-> Head(toServer[c]).n]]
    /\ toServer' = Pop(toServer, c)
    /\ UNCHANGED <<asked, up, backlog, client, toClient, framed>>

\* There is no memory for the payload: send_error(), and the session goes on
\* with the payload still unread.
RefusePayload(c) ==
    /\ Serving(c, "header") /\ framed[c] /\ toServer[c] # <<>>
    /\ Send(c, RESPONSE_ERROR, Head(toServer[c]).n)
    /\ toServer' = Pop(toServer, c)
    /\ framed' = [framed EXCEPT ![c] = FALSE]
    /\ UNCHANGED <<asked, up, backlog, client>>

\* A handler: the answer, or an error if anything throws before it is sent.
Handler(c, query, response) ==
    /\ Serving(c, "payload") /\ session[c].type = query /\ toServer[c] # <<>>
    /\ \E type \in {response, RESPONSE_ERROR} : Send(c, type, session[c].n)
    /\ toServer' = Pop(toServer, c)
    /\ UNCHANGED <<asked, up, backlog, client, framed>>

HandleQueryRaw(c) == Handler(c, QUERY_RAW, RESPONSE_RAW)
HandleQueryJson(c) == Handler(c, QUERY_JSON, RESPONSE_JSON)
HandleQueryBinary(c) == Handler(c, QUERY_BINARY, RESPONSE_BINARY)

\* Mutant: what is streamed is JSON, and is sent as JSON.
HandleQueryStream_AsJson(c) == Handler(c, QUERY_STREAM, RESPONSE_JSON)

HandleQueryStream(c) == Handler(c, QUERY_STREAM, RESPONSE_STREAM)

HandleRequest(c) ==
    \/ HandleQueryRaw(c) \/ HandleQueryJson(c)
    \/ HandleQueryBinary(c) \/ HandleQueryStream(c)

\* Out of frame, a payload is read as a header and what follows as its payload:
\* some of the stream is consumed and answered as if it were a request.  The
\* type of the answer, which does not change what the client reads, is left out.
Misread(c) ==
    /\ Serving(c, "header") /\ ~framed[c]
    /\ \E k \in 1 .. Len(toServer[c]) :
         toServer' = [toServer EXCEPT ![c] = SubSeq(@, k + 1, Len(@))]
    /\ Send(c, RESPONSE_ERROR, 0)
    /\ UNCHANGED <<asked, up, backlog, client, framed>>

\* Mutant: the session does not read on.
Written_Stops(c) ==
    /\ Serving(c, "write")
    /\ SessionAt(c, "write")
    /\ UNCHANGED <<asked, up, backlog, client, toServer, toClient, framed>>

Written(c) ==
    /\ Serving(c, "write")
    /\ SessionAt(c, "header")
    /\ UNCHANGED <<asked, up, backlog, client, toServer, toClient, framed>>

\* Mutant: the handler reads on after an error.
IOFails_ReadsOn(c) ==
    /\ \E pc \in {"header", "payload", "write"} : Serving(c, pc)
    /\ Closed(c)
    /\ SessionAt(c, "header")
    /\ UNCHANGED <<asked, up, backlog, client, toServer, toClient, framed>>

\* The rest of an answer cannot be read any more: the write reports an error,
\* and the Session is destroyed.
WriteFails(c) ==
    /\ Serving(c, "cut")
    /\ SessionAt(c, "ended")
    /\ toServer' = [toServer EXCEPT ![c] = <<>>]
    /\ UNCHANGED <<asked, up, backlog, client, toClient, framed>>

\* Its read or write reports an error or the end of the stream: no handler
\* holds the Session any more, and it is destroyed.
IOFails(c) ==
    /\ \E pc \in {"header", "payload", "write"} : Serving(c, pc)
    /\ Closed(c)
    /\ SessionAt(c, "ended")
    /\ toServer' = [toServer EXCEPT ![c] = <<>>]
    /\ UNCHANGED <<asked, up, backlog, client, toClient, framed>>

ClientStep(c) == SendPayload(c) \/ ReceiveHeader(c) \/ ReceivePayload(c) \/ Disappointed(c)
SessionStep(c) ==
    \/ ReadHeader(c) \/ RefusePayload(c) \/ HandleRequest(c) \/ Misread(c)
    \/ Written(c) \/ WriteFails(c) \/ IOFails(c)

Next ==
    \/ \E c \in Clients :
         \/ Connect(c) \/ Close(c) \/ ClientStep(c) \/ ReceiveAnything(c)
         \/ \E q \in QUERY : Query(c, q)
         \/ SessionStep(c)
    \/ Accept

Spec == Init /\ [][Next]_vars

\* The loop runs every handler that is ready, and a client in a call goes on.
FairSpec ==
    /\ Spec
    /\ WF_vars(Accept)
    /\ \A c \in Clients : WF_vars(ClientStep(c)) /\ WF_vars(SessionStep(c))

-----------------------------------------------------------------------------
(* Properties.                                                             *)

\* Between two queries the connection of a client is silent in both directions:
\* no answer is left over for the next query, whatever failed before.  (And TypeOK.)
IdleIsQuiet ==
    /\ TypeOK
    /\ \A c \in Clients : framed[c] /\ client[c].pc = "idle" =>
         /\ toClient[c] = <<>> /\ toServer[c] = <<>>
         /\ session[c].pc # "payload"

\* What is on its way to a client answers the query it is waiting in.
AnswersMatch ==
    \A c \in Clients : framed[c] =>
        \A item \in ToSet(toClient[c]) :
            /\ item.n = client[c].n
            /\ item.type \in {Expected(client[c].type), RESPONSE_ERROR}

\* send_response() refers to buffers that die when it returns (lines 426-434).
\* An answer that an idle socket takes at once is not hurt by it: it is never sent
\* before the client has read all of the answer before, and arrives whole.
ShortAnswersWhole ==
    [][\A c \in Clients :
         /\ framed'[c] /\ ~Closed(c)
         /\ session[c].pc = "payload" /\ session'[c].pc \in {"write", "cut"}
         => \/ Last(toClient'[c]).long
            \/ /\ Len(toClient'[c]) = 2
               /\ toClient'[c][1].part = "header" /\ toClient'[c][2].part = "payload"]_vars

\* "Automatic cleanup when client disconnects" (README.md:635): a session whose
\* client is gone ends, whatever it was doing and even if it is out of frame.
SessionEnds == \A c \in Clients : Closed(c) ~> session[c].pc = "ended"

\* A client that queries is answered or gets an exception, unless its session
\* has lost the framing.
Answered == \A c \in Clients : Waiting(c) ~> ~Waiting(c) \/ ~framed[c]

\* "Multiple clients can be served concurrently" (README.md:631): a client that
\* goes away leaves the server to the others.
StaysUp == up
=============================================================================
