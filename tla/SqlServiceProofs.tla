-------------------------- MODULE SqlServiceProofs --------------------------
(***************************************************************************)
(* Proofs about SqlService, for any number of clients and requests: a      *)
(* query, its answer and the session that gives it stay in step.           *)
(***************************************************************************)
EXTENDS SqlService, SequenceTheorems, TLAPS

-----------------------------------------------------------------------------
(* The backlog of the listening socket, a sequence without repetition.    *)

\* Popping the front removes exactly that element.
LEMMA PopFacts ==
  ASSUME NEW S, NEW s \in Seq(S), s # <<>>, IsInjective(s)
  PROVE  /\ Head(s) \in S /\ Head(s) \in ToSet(s)
         /\ Tail(s) \in Seq(S) /\ Len(Tail(s)) = Len(s) - 1
         /\ IsInjective(Tail(s))
         /\ ToSet(Tail(s)) = ToSet(s) \ {Head(s)}
<1>1. /\ Len(s) \in Nat \ {0} /\ DOMAIN s = 1 .. Len(s)
      /\ Head(s) = s[1]
  BY EmptySeq, LenProperties
<1>2. /\ Head(s) \in S /\ Tail(s) \in Seq(S) /\ Len(Tail(s)) = Len(s) - 1
      /\ \A i \in 1 .. Len(Tail(s)) : Tail(s)[i] = s[i + 1]
  BY HeadTailProperties
<1>3. DOMAIN Tail(s) = 1 .. Len(s) - 1
  BY <1>2, LenProperties
<1>4. Head(s) \in ToSet(s)
  BY <1>1 DEF ToSet
<1>5. IsInjective(Tail(s))
  BY <1>1, <1>2, <1>3 DEF IsInjective
<1>6. ToSet(Tail(s)) \subseteq ToSet(s) \ {Head(s)}
  BY <1>1, <1>2, <1>3 DEF ToSet, IsInjective
<1>7. ASSUME NEW x \in ToSet(s) \ {Head(s)} PROVE x \in ToSet(Tail(s))
  <2>1. PICK i \in 1 .. Len(s) : x = s[i] /\ i # 1
    BY <1>1 DEF ToSet
  <2>2. i - 1 \in DOMAIN Tail(s) /\ Tail(s)[i - 1] = x
    BY <1>1, <1>2, <1>3, <2>1
  <2> QED  BY <2>2 DEF ToSet
<1> QED  BY <1>2, <1>4, <1>5, <1>6, <1>7

\* Pushing adds exactly the new element.
LEMMA PushFacts ==
  ASSUME NEW S, NEW s \in Seq(S), NEW e \in S
  PROVE  /\ Append(s, e) \in Seq(S) /\ Len(Append(s, e)) = Len(s) + 1
         /\ Append(s, e) # <<>>
         /\ ToSet(Append(s, e)) = ToSet(s) \cup {e}
         /\ IsInjective(s) /\ e \notin ToSet(s) => IsInjective(Append(s, e))
<1>1. /\ Append(s, e) \in Seq(S) /\ Len(Append(s, e)) = Len(s) + 1
      /\ Append(s, e) # <<>>
      /\ \A i \in 1 .. Len(s) : Append(s, e)[i] = s[i]
      /\ Append(s, e)[Len(s) + 1] = e
  BY AppendProperties
<1>2. /\ Len(s) \in Nat /\ DOMAIN s = 1 .. Len(s)
      /\ DOMAIN Append(s, e) = 1 .. Len(s) + 1
  BY <1>1, LenProperties
<1>3. ToSet(Append(s, e)) = ToSet(s) \cup {e}
  BY <1>1, <1>2 DEF ToSet
<1>4. IsInjective(s) /\ e \notin ToSet(s) => IsInjective(Append(s, e))
  BY <1>1, <1>2 DEF ToSet, IsInjective
<1> QED  BY <1>1, <1>3, <1>4

\* The backlog after the socket is closed.
LEMMA EmptyQueue ==
  ASSUME NEW S
  PROVE  <<>> \in Seq(S) /\ Len(<<>>) = 0 /\ ToSet(<<>>) = {} /\ IsInjective(<<>>)
BY EmptySeq DEF ToSet, IsInjective

-----------------------------------------------------------------------------
(* The inductive invariant.                                                *)

\* A query has a number.
Numbered == \A c \in Clients : client[c].pc = "sending" => client[c].n # 0

\* A connection is handed to one session, once.
Queued ==
    /\ IsInjective(backlog)
    /\ \A c \in ToSet(backlog) : session[c].pc = "none"
    /\ \A c \in Clients : client[c].pc \in {"start", "refused"} =>
         session[c].pc = "none" /\ c \notin ToSet(backlog)

\* The query a client is in, and an answer to it; what is not an answer takes the
\* place of the payload in a long one only.
Request(c, part) == [part |-> part, type |-> client[c].type, n |-> client[c].n]
Answers(c, part) ==
    {item \in Responses : /\ item.part = part /\ item.n = client[c].n
                          /\ item.type \in {Expected(client[c].type), RESPONSE_ERROR}}
Payloads(c) == Answers(c, "payload") \cup {item \in Answers(c, "junk") : item.long}

\* Nobody has read the header of the query; its session has; or it has answered.
Reading(c) ==
    session[c].pc = "payload" /\ session[c].type = client[c].type /\ session[c].n = client[c].n
Silent(c) == toClient[c] = <<>> /\ session[c].pc # "payload"

\* The rest of the answer never comes.
Cut(c) == session[c].pc = "cut" \/ Gone(c)

Exchange(c) ==
    LET pc == client[c].pc
    IN  /\ pc # "lost"
        /\ pc \in {"start", "refused", "idle"} => Silent(c) /\ toServer[c] = <<>>
        /\ pc = "closed" => toClient[c] = <<>>
        /\ pc = "sending" => toClient[c] = <<>> /\
             \/ Gone(c)
             \/ Silent(c) /\ toServer[c] = <<Request(c, "header")>>
             \/ Reading(c) /\ toServer[c] = <<>>
        /\ pc = "reading" =>
             \/ Gone(c) /\ toClient[c] = <<>>
             \/ Silent(c) /\ toServer[c] = <<Request(c, "header"), Request(c, "payload")>>
             \/ Reading(c) /\ toClient[c] = <<>> /\ toServer[c] = <<Request(c, "payload")>>
             \/ /\ session[c].pc # "payload" /\ toServer[c] = <<>>
                /\ \E t \in Answers(c, "header"), p \in Payloads(c) : toClient[c] = <<t, p>>
             \/ /\ Cut(c) /\ toServer[c] = <<>>
                /\ \E t \in Answers(c, "header") : toClient[c] = <<t>>
        /\ pc = "got" =>
             \/ /\ session[c].pc # "payload" /\ toServer[c] = <<>>
                /\ \E p \in Payloads(c) : toClient[c] = <<p>>
             \/ Cut(c) /\ toServer[c] = <<>> /\ toClient[c] = <<>>

InStep == \A c \in Clients : framed[c] => Exchange(c)
-----------------------------------------------------------------------------
(* Sequences.                                                              *)

LEMMA Tuples ==
  ASSUME NEW S, NEW a \in S, NEW b \in S
  PROVE  /\ <<>> \in Seq(S) /\ <<a>> \in Seq(S) /\ <<a, b>> \in Seq(S)
         /\ Len(<<a>>) = 1 /\ Len(<<a, b>>) = 2
<1>1. <<a>> \in [1 .. 1 -> S] /\ <<a, b>> \in [1 .. 2 -> S]
  OBVIOUS
<1>2. <<a>> \in Seq(S) /\ <<a, b>> \in Seq(S)
  <2>1. <<a>> \in UNION {[1 .. n -> S] : n \in Nat}
    BY <1>1
  <2>2. <<a, b>> \in UNION {[1 .. n -> S] : n \in Nat}
    BY <1>1
  <2> QED  BY <2>1, <2>2, SeqDef
<1>3. DOMAIN <<a>> = 1 .. 1 /\ DOMAIN <<a, b>> = 1 .. 2
  BY <1>1
<1>4. Len(<<a>>) = 1
  BY <1>2, <1>3, LenProperties
<1>5. Len(<<a, b>>) = 2
  <2>1. Len(<<a, b>>) \in Nat /\ 1 .. Len(<<a, b>>) = 1 .. 2
    BY <1>2, <1>3, LenProperties
  <2> QED  BY <2>1
<1> QED  BY <1>2, <1>4, <1>5, EmptySeq

LEMMA Streams ==
  ASSUME NEW S, NEW s \in Seq(S), NEW a \in S, NEW b \in S
  PROVE  /\ <<>> \in Seq(S) /\ Append(s, a) \in Seq(S) /\ s \o <<a, b>> \in Seq(S)
         /\ s \o <<a>> \in Seq(S) /\ s \o <<>> \in Seq(S)
         /\ s # <<>> => Head(s) \in S /\ Tail(s) \in Seq(S)
         /\ \A k \in 0 .. Len(s) : SubSeq(s, k + 1, Len(s)) \in Seq(S)
<1>1. <<>> \in Seq(S) /\ <<a, b>> \in Seq(S) /\ <<a>> \in Seq(S)
  BY Tuples
<1>2. s # <<>> => Head(s) \in S /\ Tail(s) \in Seq(S)
  BY EmptySeq, HeadTailProperties
<1>3. ASSUME NEW k \in 0 .. Len(s) PROVE SubSeq(s, k + 1, Len(s)) \in Seq(S)
  <2>1. Len(s) \in Nat /\ \A i \in 1 .. Len(s) : s[i] \in S
    BY LenProperties
  <2> QED  BY <2>1, SubSeqProperties
<1> QED  BY <1>1, <1>2, <1>3, AppendProperties, ConcatProperties

\* A message is its header and its payload.
LEMMA Message ==
  ASSUME NEW a, NEW b
  PROVE  /\ Append(<<>>, a) = <<a>> /\ Append(<<a>>, b) = <<a, b>> /\ <<>> \o <<a, b>> = <<a, b>>
         /\ <<>> \o <<a>> = <<a>>
         /\ Head(<<a>>) = a /\ Tail(<<a>>) = <<>> /\ Head(<<a, b>>) = a /\ Tail(<<a, b>>) = <<b>>
         /\ <<a>> # <<>> /\ <<a, b>> # <<>>
<1> DEFINE S == {a, b}
<1> a \in S /\ b \in S
  OBVIOUS
<1> HIDE DEF S
<1>1. Append(<<>>, a) = <<a>>
  OBVIOUS
<1>2. Append(<<a>>, b) = <<a, b>>
  <2>1. /\ Append(<<a>>, b) \in Seq(S) /\ Len(Append(<<a>>, b)) = 2
        /\ Append(<<a>>, b)[1] = a /\ Append(<<a>>, b)[2] = b
    BY Tuples, AppendProperties
  <2>2. /\ <<a, b>> \in Seq(S) /\ Len(<<a, b>>) = 2 /\ <<a, b>>[1] = a /\ <<a, b>>[2] = b
    BY Tuples
  <2>3. \A i \in 1 .. 2 : Append(<<a>>, b)[i] = <<a, b>>[i]
    BY <2>1, <2>2
  <2> QED  BY <2>1, <2>2, <2>3, SeqEqual
<1>3. <<>> \o <<a, b>> = <<a, b>> /\ <<>> \o <<a>> = <<a>>
  BY Tuples, ConcatEmptySeq
<1>4. Head(<<a>>) = a /\ Head(<<a, b>>) = a
  BY Tuples, HeadTailProperties
<1>5. Tail(<<a>>) = <<>>
  BY Tuples, HeadTailProperties, EmptySeq
<1>6. Tail(<<a, b>>) = <<b>>
  <2>1. /\ Tail(<<a, b>>) \in Seq(S) /\ Len(Tail(<<a, b>>)) = 1 /\ Tail(<<a, b>>)[1] = b
    BY Tuples, HeadTailProperties
  <2>2. /\ <<b>> \in Seq(S) /\ Len(<<b>>) = 1 /\ <<b>>[1] = b
    BY Tuples
  <2> QED  BY <2>1, <2>2, SeqEqual
<1>7. <<a>> # <<>> /\ <<a, b>> # <<>>
  BY Tuples, EmptySeq
<1> QED  BY <1>1, <1>2, <1>3, <1>4, <1>5, <1>6, <1>7

\* The payload follows the header.
LEMMA SecondPart ==
  ASSUME NEW a, NEW b
  PROVE  Append(<<a>>, b) = <<a, b>>
BY Message

-----------------------------------------------------------------------------
(* Types.                                                                  *)

LEMMA InitTyped == Init => TypeOK
BY ServiceAssumption
   DEF Init, TypeOK, At, ClientPlaces, SessionPlaces, QUERY, QUERY_RAW, QUERY_JSON, QUERY_BINARY,
       QUERY_STREAM

\* The ways a write can end.
LEMMA SendCases ==
  ASSUME NEW c \in Clients, NEW type, NEW n, Send(c, type, n)
  PROVE  \/ Closed(c) /\ toClient' = toClient /\ SessionAt(c, "write")
         \/ \E long \in BOOLEAN :
              \/ Sends(c, <<Item("header", type, n, long), Item("payload", type, n, long)>>, "write")
              \/ /\ long \/ toClient[c] # <<>>
                 /\ \/ Sends(c, <<Item("header", type, n, long), Item("junk", type, n, long)>>, "write")
                    \/ Sends(c, <<Item("header", type, n, long)>>, "cut")
              \/ /\ toClient[c] # <<>>
                 /\ \/ Sends(c, <<Item("junk", type, n, long), Item("junk", type, n, long)>>, "write")
                    \/ Sends(c, <<>>, "cut")
BY Zenon DEF Send

\* An answer that goes out on a connection with nothing under way.
LEMMA SendsAlone ==
  ASSUME NEW c \in Clients, NEW type, NEW n, Send(c, type, n),
         ~Closed(c), toClient[c] = <<>>
  PROVE  \E long \in BOOLEAN :
           \/ Sends(c, <<Item("header", type, n, long), Item("payload", type, n, long)>>, "write")
           \/ /\ long
              /\ \/ Sends(c, <<Item("header", type, n, long), Item("junk", type, n, long)>>, "write")
                 \/ Sends(c, <<Item("header", type, n, long)>>, "cut")
BY SendCases, Zenon

\* A write concerns one connection, and its session waits for it to end.
LEMMA SendAside ==
  ASSUME NEW c \in Clients, NEW type, NEW n, Send(c, type, n)
  PROVE  /\ SessionAt(c, "write") \/ SessionAt(c, "cut")
         /\ \/ toClient' = toClient
            \/ \E items : toClient' = [toClient EXCEPT ![c] = @ \o items]
<1>1. CASE Closed(c) /\ toClient' = toClient /\ SessionAt(c, "write")
  BY <1>1
<1>2. ASSUME NEW items, NEW pc \in {"write", "cut"}, Sends(c, items, pc)
      PROVE  /\ SessionAt(c, "write") \/ SessionAt(c, "cut")
             /\ \E xs : toClient' = [toClient EXCEPT ![c] = @ \o xs]
  BY <1>2, Zenon DEF Sends
<1> QED  BY <1>1, <1>2, SendCases, Zenon

LEMMA PlaceTyped ==
  ASSUME TypeOK, NEW c \in Clients
  PROVE  /\ \A pc \in ClientPlaces : ClientAt(c, pc) =>
              client' \in [Clients -> [pc : ClientPlaces, type : QUERY, n : 0 .. MaxRequests]]
         /\ \A pc \in SessionPlaces : SessionAt(c, pc) =>
              session' \in [Clients -> [pc : SessionPlaces, type : QUERY, n : 0 .. MaxRequests]]
         /\ At("closed") \in [pc : ClientPlaces, type : QUERY, n : 0 .. MaxRequests]
         /\ At("ended") \in [pc : SessionPlaces, type : QUERY, n : 0 .. MaxRequests]
         /\ At("none") \in [pc : SessionPlaces, type : QUERY, n : 0 .. MaxRequests]
<1>1. 1 \in QUERY /\ 0 \in 0 .. MaxRequests
  BY ServiceAssumption DEF QUERY, QUERY_RAW
<1>2. ASSUME NEW pc \in SessionPlaces
      PROVE  At(pc) \in [pc : SessionPlaces, type : QUERY, n : 0 .. MaxRequests]
  BY <1>1 DEF At
<1>3. ASSUME NEW pc \in ClientPlaces
      PROVE  At(pc) \in [pc : ClientPlaces, type : QUERY, n : 0 .. MaxRequests]
  BY <1>1 DEF At
<1>4. ASSUME NEW pc \in ClientPlaces, ClientAt(c, pc)
      PROVE  client' \in [Clients -> [pc : ClientPlaces, type : QUERY, n : 0 .. MaxRequests]]
  BY <1>4 DEF ClientAt, TypeOK
<1>5. ASSUME NEW pc \in SessionPlaces, SessionAt(c, pc)
      PROVE  session' \in [Clients -> [pc : SessionPlaces, type : QUERY, n : 0 .. MaxRequests]]
  BY <1>2, <1>5 DEF SessionAt, TypeOK
<1>6. "closed" \in ClientPlaces /\ "ended" \in SessionPlaces /\ "none" \in SessionPlaces
  BY DEF ClientPlaces, SessionPlaces
<1> QED  BY <1>2, <1>3, <1>4, <1>5, <1>6

LEMMA SendTyped ==
  ASSUME TypeOK, NEW c \in Clients, NEW type \in RESPONSE \cup {RESPONSE_ERROR},
         NEW n \in 0 .. MaxRequests,
         Send(c, type, n)
  PROVE  /\ toClient' \in [Clients -> Seq(Responses)]
         /\ session' \in [Clients -> [pc : SessionPlaces, type : QUERY, n : 0 .. MaxRequests]]
<1>1. toClient \in [Clients -> Seq(Responses)] /\ toClient[c] \in Seq(Responses)
  BY DEF TypeOK
<1>2. \A part \in Parts, long \in BOOLEAN : Item(part, type, n, long) \in Responses
  BY DEF Item, Responses
<1>3. "header" \in Parts /\ "payload" \in Parts /\ "junk" \in Parts
  BY DEF Parts
<1>4. ASSUME NEW items, NEW pc, Sends(c, items, pc), toClient[c] \o items \in Seq(Responses)
      PROVE  toClient' \in [Clients -> Seq(Responses)]
  BY <1>1, <1>4 DEF Sends
<1>5. ASSUME NEW a \in Responses, NEW b \in Responses
      PROVE  /\ toClient[c] \o <<a, b>> \in Seq(Responses)
             /\ toClient[c] \o <<a>> \in Seq(Responses)
             /\ toClient[c] \o <<>> \in Seq(Responses)
  BY <1>1, Streams
<1>6. toClient' \in [Clients -> Seq(Responses)]
  <2>1. CASE toClient' = toClient
    BY <1>1, <2>1
  <2>2. ASSUME NEW long \in BOOLEAN,
               \/ Sends(c, <<Item("header", type, n, long), Item("payload", type, n, long)>>, "write")
               \/ Sends(c, <<Item("header", type, n, long), Item("junk", type, n, long)>>, "write")
               \/ Sends(c, <<Item("header", type, n, long)>>, "cut")
               \/ Sends(c, <<Item("junk", type, n, long), Item("junk", type, n, long)>>, "write")
               \/ Sends(c, <<>>, "cut")
        PROVE  toClient' \in [Clients -> Seq(Responses)]
    <3> DEFINE h == Item("header", type, n, long)
               p == Item("payload", type, n, long)
               j == Item("junk", type, n, long)
    <3>1. h \in Responses /\ p \in Responses /\ j \in Responses
      BY <1>2, <1>3
    <3>2. \/ Sends(c, <<h, p>>, "write") \/ Sends(c, <<h, j>>, "write") \/ Sends(c, <<h>>, "cut")
          \/ Sends(c, <<j, j>>, "write") \/ Sends(c, <<>>, "cut")
      BY <2>2
    <3> HIDE DEF h, p, j
    <3>3. /\ toClient[c] \o <<h, p>> \in Seq(Responses) /\ toClient[c] \o <<h, j>> \in Seq(Responses)
          /\ toClient[c] \o <<j, j>> \in Seq(Responses)
          /\ toClient[c] \o <<h>> \in Seq(Responses) /\ toClient[c] \o <<>> \in Seq(Responses)
      BY <1>5, <3>1
    <3> QED  BY <1>4, <3>2, <3>3, Zenon
  <2> QED  BY <2>1, <2>2, SendCases, Zenon
<1>7. "write" \in SessionPlaces /\ "cut" \in SessionPlaces
  BY DEF SessionPlaces
<1> QED  BY <1>6, <1>7, SendAside, PlaceTyped

LEMMA PopTyped ==
  ASSUME NEW S, NEW streams \in [Clients -> Seq(S)], NEW c \in Clients, streams[c] # <<>>
  PROVE  Pop(streams, c) \in [Clients -> Seq(S)] /\ Head(streams[c]) \in S
<1>1. Tail(streams[c]) \in Seq(S) /\ Head(streams[c]) \in S
  BY HeadTailProperties
<1> QED  BY <1>1 DEF Pop

LEMMA PushTyped ==
  ASSUME NEW S, NEW streams \in [Clients -> Seq(S)], NEW c \in Clients, NEW item \in S
  PROVE  Push(streams, c, item) \in [Clients -> Seq(S)]
<1>1. Append(streams[c], item) \in Seq(S)
  BY AppendProperties
<1> QED  BY <1>1 DEF Push

LEMMA ClientTyped ==
  ASSUME TypeOK, Numbered, NEW c \in Clients,
         Connect(c) \/ Close(c) \/ ClientStep(c) \/ ReceiveAnything(c)
           \/ \E q \in QUERY : Query(c, q)
  PROVE  TypeOK' /\ Numbered'
<1> DEFINE ClientType == [Clients -> [pc : ClientPlaces, type : QUERY, n : 0 .. MaxRequests]]
<1>1. /\ client \in ClientType /\ toServer \in [Clients -> Seq(Requests)]
      /\ toClient \in [Clients -> Seq(Responses)] /\ backlog \in Seq(Clients)
  BY DEF TypeOK
<1>2. ASSUME NEW pc \in ClientPlaces \ {"sending"}, ClientAt(c, pc) PROVE client' \in ClientType /\ Numbered'
  <2>1. client' \in ClientType
    BY <1>2, PlaceTyped
  <2>2. \A d \in Clients : client'[d].pc = "sending" => client'[d] = client[d]
    BY <1>1, <1>2 DEF ClientAt
  <2> QED  BY <2>1, <2>2 DEF Numbered
<1>3. "idle" \in ClientPlaces /\ "refused" \in ClientPlaces /\ "reading" \in ClientPlaces
      /\ "got" \in ClientPlaces /\ "lost" \in ClientPlaces
      /\ "sending" \in ClientPlaces /\ "closed" \in ClientPlaces
  BY DEF ClientPlaces
<1>4. CASE Connect(c)
  <2>1. client' \in ClientType /\ Numbered'
    BY <1>2, <1>3, <1>4 DEF Connect
  <2>2. backlog' \in Seq(Clients)
    <3>1. Append(backlog, c) \in Seq(Clients)
      BY <1>1, AppendProperties
    <3>2. backlog' = backlog \/ backlog' = Append(backlog, c)
      BY <1>4 DEF Connect
    <3> QED  BY <1>1, <3>1, <3>2
  <2> QED  BY <1>4, <2>1, <2>2 DEF Connect, TypeOK
<1>5. ASSUME HangUp(c) PROVE TypeOK' /\ Numbered'
  <2>1. client' \in ClientType
    BY <1>1, <1>5, PlaceTyped DEF HangUp
  <2>2. \A d \in Clients : client'[d].pc = "sending" => client'[d] = client[d]
    BY <1>1, <1>5 DEF HangUp, At
  <2>3. toClient' \in [Clients -> Seq(Responses)]
    BY <1>1, <1>5, EmptySeq DEF HangUp
  <2> QED  BY <1>5, <2>1, <2>2, <2>3 DEF HangUp, TypeOK, Numbered
<1>6. CASE SendPayload(c)
  <2>1. client' \in ClientType /\ Numbered'
    BY <1>2, <1>3, <1>6 DEF SendPayload
  <2>2. [part |-> "payload", type |-> client[c].type, n |-> client[c].n] \in Requests
    <3>1. client[c].type \in QUERY /\ client[c].n \in 0 .. MaxRequests /\ client[c].n # 0
      BY <1>1, <1>6 DEF SendPayload, Numbered
    <3>2. client[c].n \in 1 .. MaxRequests
      BY <3>1, ServiceAssumption
    <3> QED  BY <3>1, <3>2 DEF Requests, Parts
  <2>3. toServer' \in [Clients -> Seq(Requests)]
    BY <1>1, <1>6, <2>2, PushTyped DEF SendPayload
  <2> QED  BY <1>6, <2>1, <2>3 DEF SendPayload, TypeOK
<1>7. CASE ReceiveHeader(c)
  <2>1. client' \in ClientType /\ Numbered'
    BY <1>2, <1>3, <1>7 DEF ReceiveHeader
  <2>2. toClient' \in [Clients -> Seq(Responses)]
    BY <1>1, <1>7, PopTyped DEF ReceiveHeader
  <2> QED  BY <1>7, <2>1, <2>2 DEF ReceiveHeader, TypeOK
<1>8. CASE ReceivePayload(c)
  <2>1. client' \in ClientType /\ Numbered'
    BY <1>2, <1>3, <1>8 DEF ReceivePayload
  <2>2. toClient' \in [Clients -> Seq(Responses)]
    BY <1>1, <1>8, PopTyped DEF ReceivePayload
  <2> QED  BY <1>8, <2>1, <2>2 DEF ReceivePayload, TypeOK
<1>9. ASSUME NEW q \in QUERY, Query(c, q) PROVE TypeOK' /\ Numbered'
  <2>1. asked' = asked + 1 /\ asked' \in 1 .. MaxRequests /\ q \in QUERY
    BY <1>9, ServiceAssumption DEF Query, TypeOK
  <2>2. client' \in ClientType
    BY <1>1, <1>3, <1>9, <2>1, ServiceAssumption DEF Query
  <2>3. \A d \in Clients : client'[d].pc = "sending" => client'[d] = client[d] \/ client'[d].n = asked'
    BY <1>1, <1>9 DEF Query
  <2>4. Numbered'
    BY <2>1, <2>3 DEF Numbered
  <2>5. [part |-> "header", type |-> q, n |-> asked'] \in Requests
    BY <2>1 DEF Requests, Parts
  <2>6. toServer' \in [Clients -> Seq(Requests)]
    <3> DEFINE item == [part |-> "header", type |-> q, n |-> asked']
    <3>1. toServer' = Push(toServer, c, item)
      BY <1>9 DEF Query
    <3> HIDE DEF item
    <3>2. item \in Requests
      BY <2>5 DEF item
    <3> QED  BY <1>1, <3>1, <3>2, PushTyped
  <2>7. asked' \in 0 .. MaxRequests
    BY <2>1, ServiceAssumption
  <2> QED  BY <1>9, <2>2, <2>4, <2>6, <2>7 DEF Query, TypeOK
<1>10. CASE ReceiveAnything(c)
  <2>1. client' \in ClientType /\ Numbered'
    BY <1>2, <1>3, <1>10 DEF ReceiveAnything
  <2>2. toClient' \in [Clients -> Seq(Responses)]
    <3>1. PICK k \in 0 .. Len(toClient[c]) :
             toClient' = [toClient EXCEPT ![c] = SubSeq(@, k + 1, Len(@))]
      BY <1>10 DEF ReceiveAnything
    <3>2. toClient[c] \in Seq(Responses)
      BY <1>1
    <3>3. Len(toClient[c]) \in Nat /\ \A i \in 1 .. Len(toClient[c]) : toClient[c][i] \in Responses
      BY <3>2, LenProperties
    <3>4. SubSeq(toClient[c], k + 1, Len(toClient[c])) \in Seq(Responses)
      BY <3>3, SubSeqProperties
    <3> QED  BY <1>1, <3>1, <3>4
  <2> QED  BY <1>10, <2>1, <2>2 DEF ReceiveAnything, TypeOK
<1> QED
  BY <1>4, <1>5, <1>6, <1>7, <1>8, <1>9, <1>10 DEF Close, ClientStep, Disappointed

\* A step of one client leaves the others, their streams and the server alone.
LEMMA ClientAside ==
  ASSUME TypeOK, NEW c \in Clients,
         Connect(c) \/ Close(c) \/ ClientStep(c) \/ ReceiveAnything(c)
           \/ \E q \in QUERY : Query(c, q)
  PROVE  /\ session' = session /\ framed' = framed /\ up' = up
         /\ \A d \in Clients \ {c} :
              client'[d] = client[d] /\ toServer'[d] = toServer[d] /\ toClient'[d] = toClient[d]
<1>1. DOMAIN client = Clients /\ DOMAIN toServer = Clients /\ DOMAIN toClient = Clients
  BY DEF TypeOK
<1>2. CASE Connect(c)
  BY <1>1, <1>2 DEF Connect, ClientAt
<1>3. CASE SendPayload(c)
  BY <1>1, <1>3 DEF SendPayload, ClientAt, Push
<1>4. CASE ReceiveHeader(c)
  BY <1>1, <1>4 DEF ReceiveHeader, ClientAt, Pop
<1>5. CASE ReceivePayload(c)
  BY <1>1, <1>5 DEF ReceivePayload, ClientAt, Pop
<1>6. CASE HangUp(c)
  BY <1>1, <1>6 DEF HangUp
<1>7. CASE ReceiveAnything(c)
  <2>1. PICK k : toClient' = [toClient EXCEPT ![c] = SubSeq(@, k + 1, Len(@))]
    BY <1>7 DEF ReceiveAnything
  <2> QED  BY <1>1, <1>7, <2>1 DEF ReceiveAnything, ClientAt
<1>8. ASSUME NEW q \in QUERY, Query(c, q)
      PROVE  /\ session' = session /\ framed' = framed /\ up' = up
             /\ \A d \in Clients \ {c} :
                  client'[d] = client[d] /\ toServer'[d] = toServer[d] /\ toClient'[d] = toClient[d]
  BY <1>1, <1>8 DEF Query, Push
<1> QED
  BY <1>2, <1>3, <1>4, <1>5, <1>6, <1>7, <1>8 DEF ClientStep, Close, Disappointed

\* A step of one session leaves the others, their streams and the clients alone.
LEMMA SessionAside ==
  ASSUME TypeOK, NEW c \in Clients, SessionStep(c)
  PROVE  /\ up /\ up' = up /\ client' = client /\ backlog' = backlog /\ session[c].pc # "none"
         /\ \A d \in Clients \ {c} :
              /\ session'[d] = session[d] /\ toServer'[d] = toServer[d]
              /\ toClient'[d] = toClient[d] /\ framed'[d] = framed[d]
<1>1. /\ DOMAIN session = Clients /\ DOMAIN toServer = Clients
      /\ DOMAIN toClient = Clients /\ DOMAIN framed = Clients
  BY DEF TypeOK
<1>2. up /\ up' = up /\ client' = client /\ backlog' = backlog /\ session[c].pc # "none"
  BY DEF SessionStep, ReadHeader, RefusePayload, HandleRequest, HandleQueryRaw,
     HandleQueryJson, HandleQueryBinary, HandleQueryStream, Handler, Misread, Written, WriteFails, IOFails, Serving
<1>3. \A d \in Clients \ {c} : toServer'[d] = toServer[d] /\ framed'[d] = framed[d]
  BY <1>1 DEF SessionStep, ReadHeader, RefusePayload, HandleRequest, HandleQueryRaw,
     HandleQueryJson, HandleQueryBinary, HandleQueryStream, Handler, Misread, Written, WriteFails, IOFails, Pop
<1>4. ASSUME NEW pc, SessionAt(c, pc)
      PROVE  \A d \in Clients \ {c} : session'[d] = session[d]
  BY <1>1, <1>4 DEF SessionAt
<1>5. ASSUME NEW type, NEW n, Send(c, type, n)
      PROVE  \A d \in Clients \ {c} : session'[d] = session[d] /\ toClient'[d] = toClient[d]
  <2>1. \A d \in Clients \ {c} : session'[d] = session[d]
    BY <1>4, <1>5, SendAside
  <2>2. ASSUME NEW items, toClient' = [toClient EXCEPT ![c] = @ \o items]
        PROVE  \A d \in Clients \ {c} : toClient'[d] = toClient[d]
    BY <1>1, <2>2
  <2>3. \A d \in Clients \ {c} : toClient'[d] = toClient[d]
    BY <1>5, <2>2, SendAside, Zenon
  <2> QED  BY <2>1, <2>3
<1>6. CASE ReadHeader(c)
  BY <1>1, <1>2, <1>3, <1>6 DEF ReadHeader
<1>7. CASE RefusePayload(c) \/ HandleRequest(c) \/ Misread(c)
  BY <1>2, <1>3, <1>5, <1>7
     DEF RefusePayload, HandleRequest, HandleQueryRaw, HandleQueryJson, HandleQueryBinary,
         HandleQueryStream, Handler, Misread
<1>8. CASE Written(c) \/ WriteFails(c) \/ IOFails(c)
  BY <1>2, <1>3, <1>4, <1>8 DEF Written, WriteFails, IOFails
<1> QED  BY <1>6, <1>7, <1>8 DEF SessionStep

LEMMA ServerTyped ==
  ASSUME TypeOK, NEW c \in Clients, SessionStep(c)
  PROVE  TypeOK'
<1> DEFINE SessionType == [Clients -> [pc : SessionPlaces, type : QUERY, n : 0 .. MaxRequests]]
<1>1. /\ session \in SessionType /\ toServer \in [Clients -> Seq(Requests)]
      /\ toClient \in [Clients -> Seq(Responses)] /\ framed \in [Clients -> BOOLEAN]
  BY DEF TypeOK
<1>2. "header" \in SessionPlaces /\ "payload" \in SessionPlaces /\ "ended" \in SessionPlaces
  BY DEF SessionPlaces
<1>3. ASSUME NEW item \in Requests
      PROVE  item.type \in QUERY /\ item.n \in 0 .. MaxRequests
  BY ServiceAssumption DEF Requests
<1>4. CASE ReadHeader(c)
  <2>1. Head(toServer[c]) \in Requests /\ toServer' \in [Clients -> Seq(Requests)]
    BY <1>1, <1>4, PopTyped DEF ReadHeader
  <2>2. session' \in SessionType
    BY <1>1, <1>2, <1>3, <1>4, <2>1 DEF ReadHeader
  <2> QED  BY <1>4, <2>1, <2>2 DEF ReadHeader, TypeOK
<1>5. CASE RefusePayload(c)
  <2>1. Head(toServer[c]) \in Requests /\ toServer' \in [Clients -> Seq(Requests)]
    BY <1>1, <1>5, PopTyped DEF RefusePayload
  <2>2. toClient' \in [Clients -> Seq(Responses)] /\ session' \in SessionType
    BY <1>3, <1>5, <2>1, SendTyped DEF RefusePayload
  <2> QED  BY <1>1, <1>5, <2>1, <2>2 DEF RefusePayload, TypeOK
<1>6. ASSUME NEW query, NEW response \in RESPONSE, Handler(c, query, response) PROVE TypeOK'
  <2>1. toServer' \in [Clients -> Seq(Requests)]
    BY <1>1, <1>6, PopTyped DEF Handler
  <2>2. toClient' \in [Clients -> Seq(Responses)] /\ session' \in SessionType
    <3>1. session[c].n \in 0 .. MaxRequests
      BY <1>1
    <3> QED  BY <1>6, <3>1, SendTyped DEF Handler
  <2> QED  BY <1>6, <2>1, <2>2 DEF Handler, TypeOK
<1>7. CASE HandleRequest(c)
  <2>1. {RESPONSE_RAW, RESPONSE_JSON, RESPONSE_BINARY, RESPONSE_STREAM} \subseteq RESPONSE
    BY DEF RESPONSE
  <2> QED
    BY <1>6, <1>7, <2>1 DEF HandleRequest, HandleQueryRaw, HandleQueryJson, HandleQueryBinary,
       HandleQueryStream
<1>8. CASE Misread(c)
  <2>1. toServer' \in [Clients -> Seq(Requests)]
    <3>1. PICK k \in 1 .. Len(toServer[c]) :
             toServer' = [toServer EXCEPT ![c] = SubSeq(@, k + 1, Len(@))]
      BY <1>8 DEF Misread
    <3>2. SubSeq(toServer[c], k + 1, Len(toServer[c])) \in Seq(Requests)
      <4>1. toServer[c] \in Seq(Requests)
        BY <1>1
      <4>2. Len(toServer[c]) \in Nat /\ \A i \in 1 .. Len(toServer[c]) : toServer[c][i] \in Requests
        BY <4>1, LenProperties
      <4> QED  BY <4>2, SubSeqProperties
    <3> QED  BY <1>1, <3>1, <3>2
  <2>2. toClient' \in [Clients -> Seq(Responses)] /\ session' \in SessionType
    <3>1. 0 \in 0 .. MaxRequests
      BY ServiceAssumption
    <3> QED  BY <1>8, <3>1, SendTyped DEF Misread
  <2> QED  BY <1>8, <2>1, <2>2 DEF Misread, TypeOK
<1>9. CASE Written(c)
  BY <1>2, <1>9, PlaceTyped DEF Written, TypeOK
<1>10. CASE IOFails(c)
  <2>1. toServer' \in [Clients -> Seq(Requests)]
    BY <1>1, <1>10, EmptySeq DEF IOFails
  <2> QED  BY <1>2, <1>10, <2>1, PlaceTyped DEF IOFails, TypeOK
<1>11. CASE WriteFails(c)
  <2>1. toServer' \in [Clients -> Seq(Requests)]
    BY <1>1, <1>11, EmptySeq DEF WriteFails
  <2> QED  BY <1>2, <1>11, <2>1, PlaceTyped DEF WriteFails, TypeOK
<1> QED  BY <1>4, <1>5, <1>7, <1>8, <1>9, <1>10, <1>11 DEF SessionStep

LEMMA AcceptTyped ==
  ASSUME TypeOK, Accept
  PROVE  TypeOK'
<1>1. backlog # <<>>
  BY DEF Accept, AcceptConnection, AcceptFails, AcceptThrows
<1>2. Head(backlog) \in Clients /\ Tail(backlog) \in Seq(Clients)
  BY <1>1, HeadTailProperties DEF TypeOK
<1>3. "header" \in SessionPlaces /\ "ended" \in SessionPlaces
  BY DEF SessionPlaces
<1>4. <<>> \in Seq(Requests) /\ <<>> \in Seq(Clients)
  BY EmptySeq
<1>5. CASE AcceptConnection
  BY <1>2, <1>3, <1>5, PlaceTyped DEF AcceptConnection, TypeOK
<1>6. CASE AcceptFails
  <2>1. toServer' \in [Clients -> Seq(Requests)]
    BY <1>4, <1>6 DEF AcceptFails, TypeOK
  <2> QED  BY <1>2, <1>3, <1>6, <2>1, PlaceTyped DEF AcceptFails, TypeOK
<1>7. CASE AcceptThrows
  <2>1. session' \in [Clients -> [pc : SessionPlaces, type : QUERY, n : 0 .. MaxRequests]]
    BY <1>2, <1>7, PlaceTyped DEF AcceptThrows
  <2>2. toServer' \in [Clients -> Seq(Requests)]
    BY <1>4, <1>7 DEF AcceptThrows
  <2> QED  BY <1>4, <1>7, <2>1, <2>2 DEF AcceptThrows, TypeOK
<1> QED  BY <1>5, <1>6, <1>7 DEF Accept

LEMMA NextTyped == TypeOK /\ Numbered /\ [Next]_vars => TypeOK' /\ Numbered'
<1> SUFFICES ASSUME TypeOK, Numbered, [Next]_vars PROVE TypeOK' /\ Numbered'
  OBVIOUS
<1>1. ASSUME UNCHANGED client PROVE Numbered'
  BY <1>1 DEF Numbered
<1>2. CASE UNCHANGED vars
  BY <1>1, <1>2 DEF vars, TypeOK
<1>3. ASSUME NEW c \in Clients, SessionStep(c) PROVE TypeOK' /\ Numbered'
  <2>1. UNCHANGED client
    BY <1>3 DEF SessionStep, ReadHeader, RefusePayload, HandleRequest, HandleQueryRaw,
       HandleQueryJson, HandleQueryBinary, HandleQueryStream, Handler, Misread, Written, WriteFails, IOFails
  <2> QED  BY <1>1, <1>3, <2>1, ServerTyped
<1>4. CASE Accept
  <2>1. UNCHANGED client
    BY <1>4 DEF Accept, AcceptConnection, AcceptFails, AcceptThrows
  <2> QED  BY <1>1, <1>4, <2>1, AcceptTyped
<1> QED  BY <1>2, <1>3, <1>4, ClientTyped DEF Next
-----------------------------------------------------------------------------
(* The queue of new connections.                                           *)

LEMMA QueueOfClients == TypeOK => ToSet(backlog) \subseteq Clients
<1> SUFFICES ASSUME TypeOK PROVE \A i \in DOMAIN backlog : backlog[i] \in Clients
  BY DEF ToSet
<1> QED  BY LenProperties DEF TypeOK

\* A session that is in use moves.
LEMMA SessionMoves ==
  ASSUME TypeOK, Queued, NEW c \in Clients, session[c].pc # "none", UNCHANGED <<client, backlog>>,
         \A d \in Clients \ {c} : session'[d] = session[d]
  PROVE  Queued'
BY QueueOfClients DEF Queued

\* A connected client moves.
LEMMA ClientMoves ==
  ASSUME Queued, NEW c \in Clients, UNCHANGED <<session, backlog>>,
         client'[c].pc \notin {"start", "refused"},
         \A d \in Clients \ {c} : client'[d] = client[d]
  PROVE  Queued'
BY DEF Queued

LEMMA NextQueued == TypeOK /\ Queued /\ [Next]_vars => Queued'
<1> SUFFICES ASSUME TypeOK, Queued, [Next]_vars PROVE Queued'
  OBVIOUS
<1>1. /\ backlog \in Seq(Clients) /\ ToSet(backlog) \subseteq Clients
      /\ DOMAIN client = Clients /\ DOMAIN session = Clients
  BY QueueOfClients DEF TypeOK
<1>2. CASE UNCHANGED vars
  BY <1>2 DEF vars, Queued
<1>3. ASSUME NEW c \in Clients, Connect(c) PROVE Queued'
  <2>1. session[c].pc = "none" /\ c \notin ToSet(backlog) /\ IsInjective(backlog)
    BY <1>3 DEF Connect, Queued
  <2>2. session' = session /\ \A d \in Clients \ {c} : client'[d] = client[d]
    BY <1>1, <1>3 DEF Connect, ClientAt
  <2>3. CASE up
    <3>1. client'[c].pc = "idle" /\ backlog' = Append(backlog, c)
      BY <1>1, <1>3, <2>3 DEF Connect, ClientAt, TypeOK
    <3>2. IsInjective(backlog') /\ ToSet(backlog') = ToSet(backlog) \cup {c}
      BY <1>1, <2>1, <3>1, PushFacts
    <3> QED  BY <2>1, <2>2, <3>1, <3>2 DEF Queued
  <2>4. CASE ~ up
    <3>1. backlog' = backlog
      BY <1>3, <2>4 DEF Connect
    <3> QED  BY <2>1, <2>2, <3>1 DEF Queued
  <2> QED  BY <2>3, <2>4
<1>4. ASSUME NEW c \in Clients,
             Close(c) \/ ClientStep(c) \/ ReceiveAnything(c) \/ \E q \in QUERY : Query(c, q)
      PROVE  Queued'
  <2>1. UNCHANGED <<session, backlog>> /\ \A d \in Clients \ {c} : client'[d] = client[d]
    BY <1>1, <1>4 DEF Close, ClientStep, SendPayload, ReceiveHeader, ReceivePayload,
       ReceiveAnything, Disappointed, Query, HangUp, ClientAt
  <2>2. client'[c].pc \notin {"start", "refused"}
    <3>1. client \in [Clients -> [pc : ClientPlaces, type : QUERY, n : 0 .. MaxRequests]]
      BY DEF TypeOK
    <3>2. ASSUME NEW pc, ClientAt(c, pc) PROVE client'[c].pc = pc
      BY <3>1, <3>2 DEF ClientAt
    <3>3. ASSUME HangUp(c) PROVE client'[c].pc = "closed"
      BY <3>1, <3>3 DEF HangUp, At
    <3>4. ASSUME NEW q \in QUERY, Query(c, q) PROVE client'[c].pc = "sending"
      BY <3>1, <3>4 DEF Query
    <3> QED
      BY <1>4, <3>2, <3>3, <3>4
         DEF Close, ClientStep, SendPayload, ReceiveHeader, ReceivePayload, ReceiveAnything,
             Disappointed
  <2> QED  BY <2>1, <2>2, ClientMoves
<1>5. ASSUME NEW c \in Clients, SessionStep(c) PROVE Queued'
  BY <1>5, SessionAside, SessionMoves
<1>6. CASE AcceptConnection \/ AcceptFails
  <2> DEFINE h == Head(backlog)
  <2>1. /\ backlog # <<>> /\ backlog' = Tail(backlog) /\ client' = client
        /\ \A d \in Clients \ {h} : session'[d] = session[d]
    BY <1>1, <1>6 DEF AcceptConnection, AcceptFails, SessionAt
  <2>2. /\ h \in ToSet(backlog) /\ IsInjective(backlog')
        /\ ToSet(backlog') = ToSet(backlog) \ {h}
    BY <1>1, <2>1, PopFacts DEF Queued
  <2> HIDE DEF h
  <2> QED  BY <1>1, <2>1, <2>2 DEF Queued
<1>7. CASE AcceptThrows
  <2>1. backlog' = <<>> /\ client' = client
    BY <1>7 DEF AcceptThrows
  <2>2. IsInjective(backlog') /\ ToSet(backlog') = {}
    BY <2>1, EmptyQueue
  <2>3. \A c \in Clients : session[c].pc = "none" /\ c \notin ToSet(backlog) => session'[c].pc = "none"
    BY <1>7 DEF AcceptThrows, At
  <2> QED  BY <2>1, <2>2, <2>3 DEF Queued
<1> QED  BY <1>2, <1>3, <1>4, <1>5, <1>6, <1>7 DEF Next, Accept
-----------------------------------------------------------------------------
(* A query and its answer.                                                 *)

LEMMA InitInStep == Init => Numbered /\ Queued /\ InStep
<1> SUFFICES ASSUME Init PROVE Numbered /\ Queued /\ InStep
  OBVIOUS
<1>1. \A c \in Clients : /\ client[c].pc = "start" /\ session[c].pc = "none"
                         /\ toServer[c] = <<>> /\ toClient[c] = <<>>
  BY DEF Init, At
<1>2. backlog = <<>> /\ ToSet(backlog) = {} /\ IsInjective(backlog)
  BY EmptyQueue DEF Init
<1> QED  BY <1>1, <1>2 DEF Numbered, Queued, InStep, Exchange, Silent

LEMMA ExchangeKept ==
  ASSUME NEW c \in Clients, client'[c] = client[c], session'[c] = session[c],
         toServer'[c] = toServer[c], toClient'[c] = toClient[c], up' = up, Exchange(c)
  PROVE  Exchange(c)'
BY DEF Exchange, Silent, Reading, Gone, Cut, Request, Answers, Payloads

LEMMA ClientExchange ==
  ASSUME TypeOK, NEW c \in Clients, Exchange(c),
         Connect(c) \/ Close(c) \/ ClientStep(c) \/ ReceiveAnything(c)
           \/ \E q \in QUERY : Query(c, q)
  PROVE  Exchange(c)'
<1>1. /\ client \in [Clients -> [pc : ClientPlaces, type : QUERY, n : 0 .. MaxRequests]]
      /\ DOMAIN toServer = Clients /\ DOMAIN toClient = Clients
  BY DEF TypeOK
<1>2. session' = session /\ up' = up
  BY DEF Connect, Close, ClientStep, SendPayload, ReceiveHeader, ReceivePayload, ReceiveAnything,
     Disappointed, HangUp, Query
<1>3. ASSUME NEW pc, ClientAt(c, pc)
      PROVE  /\ client'[c].pc = pc /\ client'[c].type = client[c].type /\ client'[c].n = client[c].n
             /\ \A part : Request(c, part)' = Request(c, part) /\ Answers(c, part)' = Answers(c, part)
             /\ Payloads(c)' = Payloads(c)
  BY <1>1, <1>3 DEF ClientAt, Request, Answers, Payloads
<1>4. CASE Connect(c)
  <2>1. client[c].pc = "start" /\ client'[c].pc \in {"idle", "refused"} /\ UNCHANGED <<toServer, toClient>>
    BY <1>3, <1>4 DEF Connect
  <2> QED  BY <1>2, <2>1 DEF Exchange, Silent
<1>5. ASSUME HangUp(c) PROVE Exchange(c)'
  <2>1. client'[c].pc = "closed" /\ toClient'[c] = <<>>
    BY <1>1, <1>5 DEF HangUp, At
  <2> QED  BY <2>1 DEF Exchange
<1>6. ASSUME NEW q \in QUERY, Query(c, q) PROVE Exchange(c)'
  <2>1. client'[c] = [pc |-> "sending", type |-> q, n |-> asked'] /\ client[c].pc = "idle"
        /\ toServer' = Push(toServer, c, [part |-> "header", type |-> q, n |-> asked'])
        /\ toClient' = toClient
    BY <1>1, <1>6 DEF Query
  <2>2. toServer[c] = <<>> /\ Silent(c)
    BY <2>1 DEF Exchange
  <2>3. Request(c, "header")' = [part |-> "header", type |-> q, n |-> asked']
    BY <2>1 DEF Request
  <2>4. toServer'[c] = Append(<<>>, Request(c, "header")')
    BY <1>1, <2>1, <2>2, <2>3 DEF Push
  <2>5. toServer'[c] = <<Request(c, "header")'>>
    BY <2>4, Message
  <2> QED  BY <1>2, <2>1, <2>2, <2>5 DEF Exchange, Silent
<1>7. CASE SendPayload(c)
  <2>1. /\ client[c].pc = "sending" /\ client'[c].pc = "reading" /\ ~ Gone(c)
        /\ toServer'[c] = Append(toServer[c], Request(c, "payload")) /\ toClient' = toClient
    BY <1>1, <1>3, <1>7 DEF SendPayload, Push, Request
  <2>2. CASE Silent(c) /\ toServer[c] = <<Request(c, "header")>>
    <3> DEFINE h == Request(c, "header")
               p == Request(c, "payload")
    <3>5. toServer'[c] = Append(toServer[c], p) /\ toServer[c] = <<h>>
      BY <2>1, <2>2
    <3> HIDE DEF h, p
    <3>6. toServer'[c] = <<h, p>>
      BY <3>5, SecondPart
    <3>1. toServer'[c] = <<Request(c, "header"), Request(c, "payload")>>
      BY <3>6 DEF h, p
    <3>2. Silent(c)'
      BY <1>2, <2>1, <2>2 DEF Silent
    <3>3. \A part : Request(c, part)' = Request(c, part)
      BY <1>3, <1>7 DEF SendPayload
    <3>4. toServer'[c] = <<Request(c, "header")', Request(c, "payload")'>>
      BY <3>1, <3>3
    <3> QED  BY <2>1, <3>2, <3>4 DEF Exchange
  <2>3. CASE Reading(c) /\ toServer[c] = <<>>
    <3>1. toServer'[c] = <<Request(c, "payload")>>
      BY <2>1, <2>3, Message
    <3>2. Reading(c)'
      BY <1>2, <1>3, <1>7, <2>3 DEF Reading, SendPayload
    <3> QED  BY <1>2, <1>3, <1>7, <2>1, <3>1, <3>2 DEF Exchange, SendPayload
  <2> QED  BY <2>1, <2>2, <2>3 DEF Exchange
<1>8. CASE ReceiveHeader(c)
  <2>1. /\ client[c].pc = "reading" /\ toClient[c] # <<>>
        /\ ClientAt(c, IF Head(toClient[c]).part = "header" THEN "got" ELSE "lost")
        /\ toClient'[c] = Tail(toClient[c]) /\ toServer' = toServer
    BY <1>1, <1>8 DEF ReceiveHeader, Pop
  <2>2. /\ toServer[c] = <<>>
        /\ \/ /\ session[c].pc # "payload"
              /\ \E t \in Answers(c, "header"), p \in Payloads(c) : toClient[c] = <<t, p>>
           \/ Cut(c) /\ \E t \in Answers(c, "header") : toClient[c] = <<t>>
    BY <2>1 DEF Exchange, Silent
  <2>3. ASSUME NEW t \in Answers(c, "header"), Head(toClient[c]) = t PROVE client'[c].pc = "got"
    <3>1. t.part = "header"
      BY <2>3 DEF Answers
    <3> QED  BY <1>3, <2>1, <2>3, <3>1
  <2>4. Cut(c) => Cut(c)'
    BY <1>2 DEF Cut, Gone
  <2>5. CASE /\ session[c].pc # "payload"
             /\ \E t \in Answers(c, "header"), p \in Payloads(c) : toClient[c] = <<t, p>>
    <3>1. PICK t \in Answers(c, "header"), p \in Payloads(c) : toClient[c] = <<t, p>>
      BY <2>5
    <3>2. Head(toClient[c]) = t /\ toClient'[c] = <<p>>
      BY <2>1, <3>1, Message
    <3>3. client'[c].pc = "got"
      BY <2>3, <3>2
    <3>4. p \in Payloads(c)'
      BY <1>3, <2>1
    <3> QED  BY <1>2, <2>1, <2>2, <2>5, <3>2, <3>3, <3>4 DEF Exchange
  <2>6. CASE Cut(c) /\ \E t \in Answers(c, "header") : toClient[c] = <<t>>
    <3>1. PICK t \in Answers(c, "header") : toClient[c] = <<t>>
      BY <2>6
    <3>2. Head(toClient[c]) = t /\ toClient'[c] = <<>>
      BY <2>1, <3>1, Message
    <3>3. client'[c].pc = "got"
      BY <2>3, <3>2
    <3> QED  BY <1>2, <2>1, <2>2, <2>4, <2>6, <3>2, <3>3 DEF Exchange
  <2> QED  BY <2>2, <2>5, <2>6
<1>9. CASE ReceivePayload(c)
  <2>1. /\ client[c].pc = "got" /\ client'[c].pc = "idle" /\ toClient[c] # <<>>
        /\ toClient'[c] = Tail(toClient[c]) /\ toServer' = toServer
    BY <1>1, <1>3, <1>9 DEF ReceivePayload, Pop
  <2>2. PICK p \in Payloads(c) :
             session[c].pc # "payload" /\ toServer[c] = <<>> /\ toClient[c] = <<p>>
    BY <2>1 DEF Exchange
  <2>3. toClient'[c] = <<>>
    BY <2>1, <2>2, Message
  <2> QED  BY <1>2, <2>1, <2>2, <2>3 DEF Exchange, Silent
<1>10. ~ ReceiveAnything(c)
  BY DEF ReceiveAnything, Exchange
<1> QED
  BY <1>4, <1>5, <1>6, <1>7, <1>8, <1>9, <1>10 DEF Close, ClientStep, Disappointed
LEMMA SessionExchange ==
  ASSUME TypeOK, Queued, NEW c \in Clients, framed[c] => Exchange(c), SessionStep(c)
  PROVE  framed'[c] => Exchange(c)'
<1>1. /\ session \in [Clients -> [pc : SessionPlaces, type : QUERY, n : 0 .. MaxRequests]]
      /\ DOMAIN toServer = Clients /\ DOMAIN toClient = Clients /\ DOMAIN framed = Clients
  BY DEF TypeOK
<1>2. /\ up /\ ~ Gone(c) /\ client[c].pc \notin {"start", "refused"} /\ client' = client /\ up' = up
      /\ \A part : Request(c, part)' = Request(c, part) /\ Answers(c, part)' = Answers(c, part)
      /\ Payloads(c)' = Payloads(c)
  BY DEF SessionStep, ReadHeader, RefusePayload, HandleRequest, HandleQueryRaw, HandleQueryJson,
     HandleQueryBinary, HandleQueryStream, Handler, Misread, Written, WriteFails, IOFails, Serving, Gone, Queued,
     Request, Answers, Payloads
<1>3. ASSUME NEW pc, SessionAt(c, pc) PROVE session'[c].pc = pc
  BY <1>1, <1>3 DEF SessionAt, At
<1>4. SUFFICES ASSUME framed'[c], framed[c], Exchange(c) PROVE Exchange(c)'
  BY <1>1 DEF SessionStep, ReadHeader, RefusePayload, HandleRequest, HandleQueryRaw,
     HandleQueryJson, HandleQueryBinary, HandleQueryStream, Handler, Misread, Written, WriteFails, IOFails
<1>5. CASE ReadHeader(c)
  <2>1. /\ session[c].pc = "header" /\ toServer[c] # <<>> /\ toClient' = toClient
        /\ session'[c] = [pc |-> "payload", type |-> Head(toServer[c]).type, n |-> Head(toServer[c]).n]
        /\ toServer'[c] = Tail(toServer[c])
    BY <1>1, <1>5 DEF ReadHeader, Serving, Pop
  <2>2. ASSUME Head(toServer[c]) = Request(c, "header") PROVE Reading(c)'
    BY <1>2, <2>1, <2>2 DEF Reading, Request
  <2>3. CASE client[c].pc = "sending"
    <3>1. toServer[c] = <<Request(c, "header")>> /\ toClient[c] = <<>>
      BY <1>2, <1>4, <2>1, <2>3 DEF Exchange, Reading, Silent
    <3>2. Head(toServer[c]) = Request(c, "header") /\ toServer'[c] = <<>>
      BY <2>1, <3>1, Message
    <3> QED  BY <1>2, <2>1, <2>2, <2>3, <3>1, <3>2 DEF Exchange
  <2>4. CASE client[c].pc = "reading"
    <3>1. toServer[c] = <<Request(c, "header"), Request(c, "payload")>> /\ toClient[c] = <<>>
      BY <1>2, <1>4, <2>1, <2>4 DEF Exchange, Reading, Silent, Cut
    <3>2. Head(toServer[c]) = Request(c, "header") /\ toServer'[c] = <<Request(c, "payload")>>
      BY <2>1, <3>1, Message
    <3> QED  BY <1>2, <2>1, <2>2, <2>4, <3>1, <3>2 DEF Exchange
  <2> QED  BY <1>2, <1>4, <2>1, <2>3, <2>4 DEF Exchange, Silent
<1>6. ASSUME NEW query \in QUERY, NEW response, Handler(c, query, response), Expected(query) = response
      PROVE  Exchange(c)'
  <2>1. /\ session[c].pc = "payload" /\ session[c].type = query /\ toServer[c] # <<>>
        /\ toServer'[c] = Tail(toServer[c])
    BY <1>1, <1>6 DEF Handler, Serving, Pop
  <2>2. PICK type \in {response, RESPONSE_ERROR} : Send(c, type, session[c].n)
    BY <1>6 DEF Handler
  <2>3. DOMAIN toClient = Clients
    BY <1>1
  <2>4. CASE client[c].pc = "closed"
    <3>1. toClient[c] = <<>>
      BY <1>4, <2>4 DEF Exchange
    <3>2. toClient' = toClient
      BY <2>2, <2>4, SendCases DEF Closed, Sends
    <3> QED  BY <1>2, <2>4, <3>1, <3>2 DEF Exchange
  <2>5. CASE client[c].pc = "reading"
    <3>1. Reading(c) /\ toClient[c] = <<>> /\ toServer[c] = <<Request(c, "payload")>>
      BY <1>2, <1>4, <2>1, <2>5 DEF Exchange, Silent, Cut
    <3>2. ~ Closed(c)
      BY <2>5 DEF Closed
    <3>3. PICK long \in BOOLEAN :
             LET n == session[c].n
             IN  \/ Sends(c, <<Item("header", type, n, long), Item("payload", type, n, long)>>, "write")
                 \/ /\ long
                    /\ \/ Sends(c, <<Item("header", type, n, long), Item("junk", type, n, long)>>, "write")
                       \/ Sends(c, <<Item("header", type, n, long)>>, "cut")
      BY <2>2, <3>1, <3>2, SendsAlone
    <3> DEFINE h == Item("header", type, session[c].n, long)
               p == Item("payload", type, session[c].n, long)
               j == Item("junk", type, session[c].n, long)
    <3>4. /\ session[c].n = client[c].n /\ session[c].n \in 0 .. MaxRequests
          /\ type \in {Expected(client[c].type), RESPONSE_ERROR} /\ type \in RESPONSE \cup {RESPONSE_ERROR}
      <4>1. session[c].n = client[c].n /\ session[c].n \in 0 .. MaxRequests /\ query = client[c].type
        BY <1>1, <2>1, <3>1 DEF Reading
      <4>2. type \in {Expected(client[c].type), RESPONSE_ERROR}
        BY <1>6, <2>2, <4>1
      <4>3. Expected(query) \in RESPONSE
        BY DEF Expected, RESPONSE, QUERY, QUERY_RAW, QUERY_JSON, QUERY_BINARY, QUERY_STREAM
      <4> QED  BY <4>1, <4>2, <4>3
    <3>5. h \in Answers(c, "header") /\ p \in Payloads(c) /\ (long => j \in Payloads(c))
      BY <3>4 DEF Answers, Payloads, Responses, Parts, Item
    <3>9. \/ Sends(c, <<h, p>>, "write")
          \/ long /\ Sends(c, <<h, j>>, "write")
          \/ Sends(c, <<h>>, "cut")
      BY <3>3, Zenon
    <3> HIDE DEF h, p, j
    <3>6. toServer'[c] = <<>>
      BY <2>1, <3>1, Message
    <3>7. ASSUME NEW q \in Payloads(c), Sends(c, <<h, q>>, "write") PROVE Exchange(c)'
      <4>1. session'[c].pc = "write" /\ toClient'[c] = toClient[c] \o <<h, q>>
        BY <1>3, <2>3, <3>7 DEF Sends
      <4>2. toClient'[c] = <<h, q>>
        BY <3>1, <4>1, Message
      <4> QED  BY <1>2, <2>5, <3>5, <3>6, <3>7, <4>1, <4>2 DEF Exchange
    <3>8. CASE Sends(c, <<h>>, "cut")
      <4>1. session'[c].pc = "cut" /\ toClient'[c] = toClient[c] \o <<h>>
        BY <1>3, <2>3, <3>8 DEF Sends
      <4>2. toClient'[c] = <<h>>
        BY <3>1, <4>1, Message
      <4> QED  BY <1>2, <2>5, <3>5, <3>6, <4>1, <4>2 DEF Exchange, Cut
    <3> QED  BY <3>5, <3>7, <3>8, <3>9
  <2> QED  BY <1>2, <1>4, <2>1, <2>4, <2>5 DEF Exchange, Silent, Reading, Cut
<1>7. CASE HandleRequest(c)
  <2>1. /\ Expected(QUERY_RAW) = RESPONSE_RAW /\ Expected(QUERY_JSON) = RESPONSE_JSON
        /\ Expected(QUERY_BINARY) = RESPONSE_BINARY /\ Expected(QUERY_STREAM) = RESPONSE_STREAM
    BY DEF Expected, QUERY_RAW, QUERY_JSON, QUERY_BINARY, QUERY_STREAM
  <2>2. {QUERY_RAW, QUERY_JSON, QUERY_BINARY, QUERY_STREAM} \subseteq QUERY
    BY DEF QUERY
  <2> QED
    BY <1>6, <1>7, <2>1, <2>2
       DEF HandleRequest, HandleQueryRaw, HandleQueryJson, HandleQueryBinary, HandleQueryStream
<1>8. CASE Written(c)
  <2>1. session[c].pc = "write" /\ session'[c].pc = "header" /\ UNCHANGED <<toServer, toClient>>
    BY <1>3, <1>8 DEF Written, Serving
  <2> QED  BY <1>2, <1>4, <2>1 DEF Exchange, Silent, Reading, Cut
<1>9. CASE IOFails(c)
  <2>1. client[c].pc = "closed" /\ toClient' = toClient
    BY <1>9 DEF IOFails, Closed
  <2> QED  BY <1>2, <1>4, <2>1 DEF Exchange
<1>10. ~ RefusePayload(c) /\ ~ Misread(c)
  BY <1>1, <1>4 DEF RefusePayload, Misread
<1>11. CASE WriteFails(c)
  <2>1. /\ session[c].pc = "cut" /\ session'[c].pc = "ended" /\ toClient' = toClient
        /\ toServer'[c] = <<>>
    BY <1>1, <1>3, <1>11 DEF WriteFails, Serving
  <2>2. Gone(c)' /\ Cut(c)'
    BY <2>1 DEF Gone, Cut
  <2> QED  BY <1>2, <1>4, <2>1, <2>2 DEF Exchange, Silent, Reading
<1> QED  BY <1>5, <1>7, <1>8, <1>9, <1>10, <1>11 DEF SessionStep

LEMMA AcceptExchange ==
  ASSUME TypeOK, Queued, InStep, Accept
  PROVE  InStep'
<1> SUFFICES ASSUME NEW c \in Clients, framed[c], Exchange(c) PROVE Exchange(c)'
  BY DEF InStep, Accept, AcceptConnection, AcceptFails, AcceptThrows
<1>1. /\ session \in [Clients -> [pc : SessionPlaces, type : QUERY, n : 0 .. MaxRequests]]
      /\ backlog \in Seq(Clients)
      /\ DOMAIN toServer = Clients /\ DOMAIN toClient = Clients
  BY DEF TypeOK
<1>2. client' = client /\ toClient' = toClient
  BY DEF Accept, AcceptConnection, AcceptFails, AcceptThrows
<1>3. /\ \A part : Request(c, part)' = Request(c, part) /\ Answers(c, part)' = Answers(c, part)
      /\ Payloads(c)' = Payloads(c)
  BY <1>2 DEF Request, Answers, Payloads
<1>4. CASE AcceptConnection
  <2>1. backlog # <<>> /\ session' = [session EXCEPT ![Head(backlog)] = At("header")]
        /\ up' = up /\ toServer' = toServer
    BY <1>4 DEF AcceptConnection, SessionAt
  <2>2. CASE c = Head(backlog)
    <3>1. session[c].pc = "none"
      BY <1>1, <2>1, <2>2, PopFacts DEF Queued
    <3>2. session'[c].pc = "header"
      BY <1>1, <2>1, <2>2 DEF At
    <3>3. up
      BY <1>4 DEF AcceptConnection
    <3> QED  BY <1>2, <1>3, <2>1, <3>1, <3>2, <3>3 DEF Exchange, Silent, Reading, Gone, Cut
  <2>3. CASE c # Head(backlog)
    <3>1. session'[c] = session[c]
      BY <1>1, <2>1, <2>3
    <3> QED  BY <1>2, <2>1, <3>1, ExchangeKept
  <2> QED  BY <2>2, <2>3
<1>5. CASE AcceptFails
  <2>1. backlog # <<>> /\ session' = [session EXCEPT ![Head(backlog)] = At("ended")]
        /\ up' = up /\ toServer' = [toServer EXCEPT ![Head(backlog)] = <<>>]
        /\ client[Head(backlog)].pc = "closed"
    BY <1>5 DEF AcceptFails, SessionAt, Closed
  <2>2. CASE c = Head(backlog)
    BY <1>2, <2>1, <2>2 DEF Exchange
  <2>3. CASE c # Head(backlog)
    <3>1. session'[c] = session[c] /\ toServer'[c] = toServer[c]
      BY <1>1, <2>1, <2>3
    <3> QED  BY <1>2, <2>1, <3>1, ExchangeKept
  <2> QED  BY <2>2, <2>3
<1>6. CASE AcceptThrows
  <2>1. up' = FALSE /\ toServer'[c] = <<>> /\ session'[c].pc # "payload"
    BY <1>6 DEF AcceptThrows, At
  <2> QED  BY <1>2, <1>3, <2>1 DEF Exchange, Silent, Gone, Cut
<1> QED  BY <1>4, <1>5, <1>6 DEF Accept
LEMMA NextInStep == TypeOK /\ Queued /\ InStep /\ [Next]_vars => InStep'
<1> SUFFICES ASSUME TypeOK, Queued, InStep, [Next]_vars PROVE InStep'
  OBVIOUS
<1>1. /\ DOMAIN client = Clients /\ DOMAIN session = Clients /\ DOMAIN toServer = Clients
      /\ DOMAIN toClient = Clients /\ DOMAIN framed = Clients
  BY DEF TypeOK
<1>2. CASE UNCHANGED vars
  BY <1>2, ExchangeKept DEF vars, InStep
<1>3. ASSUME NEW c \in Clients, framed'[c] => Exchange(c)',
             \A d \in Clients \ {c} :
                /\ client'[d] = client[d] /\ session'[d] = session[d] /\ toServer'[d] = toServer[d]
                /\ toClient'[d] = toClient[d] /\ framed'[d] = framed[d],
             up' = up
      PROVE  InStep'
  <2> SUFFICES ASSUME NEW d \in Clients, framed'[d] PROVE Exchange(d)'
    BY DEF InStep
  <2>1. CASE d = c
    BY <1>3, <2>1
  <2>2. CASE d # c
    BY <1>3, <2>2, ExchangeKept DEF InStep
  <2> QED  BY <2>1, <2>2
<1>4. ASSUME NEW c \in Clients,
             Connect(c) \/ Close(c) \/ ClientStep(c) \/ ReceiveAnything(c)
           \/ \E q \in QUERY : Query(c, q)
      PROVE  InStep'
  <2>1. framed'[c] => Exchange(c)'
    BY <1>4, ClientAside, ClientExchange DEF InStep
  <2> QED  BY <1>3, <1>4, <2>1, ClientAside
<1>5. ASSUME NEW c \in Clients, SessionStep(c) PROVE InStep'
  <2>1. framed'[c] => Exchange(c)'
    BY <1>5, SessionExchange DEF InStep
  <2> QED  BY <1>3, <1>5, <2>1, SessionAside
<1> QED  BY <1>2, <1>4, <1>5, AcceptExchange DEF Next

-----------------------------------------------------------------------------
(* Theorems.                                                               *)

LEMMA Invariant == Spec => [](TypeOK /\ Numbered /\ Queued /\ InStep)
<1>1. Init => TypeOK /\ Numbered /\ Queued /\ InStep
  BY InitTyped, InitInStep
<1>2. TypeOK /\ Numbered /\ Queued /\ InStep /\ [Next]_vars
        => (TypeOK /\ Numbered /\ Queued /\ InStep)'
  BY NextTyped, NextQueued, NextInStep
<1> QED  BY <1>1, <1>2, PTL DEF Spec

\* Between two queries nothing is under way on a framed connection, so that the
\* next answer read is that of the next query (sql_client.hpp:32-121).
THEOREM IdleQuiet == Spec => []IdleIsQuiet
<1>1. TypeOK /\ InStep => IdleIsQuiet
  BY DEF InStep, Exchange, Silent, IdleIsQuiet
<1> QED  BY <1>1, Invariant, PTL

\* Whatever comes to a client answers the query it waits in, by number and by
\* type (sql_server.hpp:67-470).
THEOREM AnswersMatched == Spec => []AnswersMatch
<1>1. TypeOK /\ InStep => AnswersMatch
  <2> SUFFICES ASSUME TypeOK, NEW c \in Clients, Exchange(c), NEW item \in ToSet(toClient[c])
               PROVE  \E part : item \in Answers(c, part)
    BY DEF InStep, AnswersMatch, Answers
  <2> Payloads(c) \subseteq Answers(c, "payload") \cup Answers(c, "junk")
    BY DEF Payloads
  <2>1. DOMAIN <<>> = {}
    OBVIOUS
  <2>2. toClient[c] # <<>>
    BY <2>1 DEF ToSet
  <2>3. CASE client[c].pc = "reading"
    <3>1. CASE \E t \in Answers(c, "header"), p \in Payloads(c) : toClient[c] = <<t, p>>
      <4>1. PICK t \in Answers(c, "header"), p \in Payloads(c) : toClient[c] = <<t, p>>
        BY <3>1
      <4>2. item = t \/ item = p
        BY <4>1 DEF ToSet
      <4> QED  BY <4>1, <4>2
    <3>2. CASE \E t \in Answers(c, "header") : toClient[c] = <<t>>
      <4>1. PICK t \in Answers(c, "header") : toClient[c] = <<t>>
        BY <3>2
      <4>2. item = t
        BY <4>1 DEF ToSet
      <4> QED  BY <4>1, <4>2
    <3> QED  BY <2>2, <2>3, <3>1, <3>2 DEF Exchange, Silent
  <2>4. CASE client[c].pc = "got"
    <3>1. PICK p \in Payloads(c) : toClient[c] = <<p>>
      BY <2>2, <2>4 DEF Exchange
    <3>2. item = p
      BY <3>1 DEF ToSet
    <3> QED  BY <3>1, <3>2
  <2>5. client[c].pc \in ClientPlaces
    BY DEF TypeOK
  <2> QED  BY <2>2, <2>3, <2>4, <2>5 DEF Exchange, Silent, ClientPlaces
<1> QED  BY <1>1, Invariant, PTL

\* An answer that an idle socket takes at once arrives whole: it is sent only when
\* the client has read all that was sent before, so that nothing of it is left to
\* write when its buffers go (sql_server.hpp:426-434).
THEOREM ShortAnswersArrive == Spec => ShortAnswersWhole
<1> DEFINE Whole(c) ==
      /\ framed'[c] /\ ~ Closed(c)
      /\ session[c].pc = "payload" /\ session'[c].pc \in {"write", "cut"}
      => \/ Last(toClient'[c]).long
         \/ /\ Len(toClient'[c]) = 2
            /\ toClient'[c][1].part = "header" /\ toClient'[c][2].part = "payload"
<1>1. ASSUME TypeOK, InStep, Next, NEW c \in Clients,
             framed'[c], ~ Closed(c), session[c].pc = "payload", session'[c].pc \in {"write", "cut"}
      PROVE  \/ Last(toClient'[c]).long
             \/ /\ Len(toClient'[c]) = 2
                /\ toClient'[c][1].part = "header" /\ toClient'[c][2].part = "payload"
  <2>1. /\ session \in [Clients -> [pc : SessionPlaces, type : QUERY, n : 0 .. MaxRequests]]
        /\ DOMAIN framed = Clients /\ DOMAIN toClient = Clients /\ client[c].pc \in ClientPlaces
    BY <1>1 DEF TypeOK
  <2>2. ASSUME NEW d, NEW pc, SessionAt(d, pc), pc \notin {"write", "cut"} PROVE FALSE
    BY <1>1, <2>1, <2>2 DEF SessionAt, At
  <2>3. ~ Accept
    <3>1. ~ AcceptConnection /\ ~ AcceptFails
      BY <2>2 DEF AcceptConnection, AcceptFails
    <3>2. ~ AcceptThrows
      BY <1>1 DEF AcceptThrows, At
    <3> QED  BY <3>1, <3>2 DEF Accept
  <2>4. ASSUME NEW d \in Clients,
               \/ Connect(d) \/ Close(d) \/ ClientStep(d) \/ ReceiveAnything(d)
               \/ \E q \in QUERY : Query(d, q)
        PROVE  FALSE
    <3>1. session' = session
      BY <1>1, <2>4, ClientAside
    <3> QED  BY <1>1, <3>1
  <2>5. PICK d \in Clients : SessionStep(d)
    BY <1>1, <2>3, <2>4 DEF Next
  <2>6. c = d
    BY <1>1, <2>5, SessionAside
  <2>7. PICK type, n : Send(c, type, n)
    <3>1. session'[c].pc # "payload" /\ session'[c].pc \notin {"header", "ended"}
      BY <1>1
    <3>2. ~ ReadHeader(c) /\ ~ Written(c) /\ ~ WriteFails(c) /\ ~ IOFails(c)
      BY <1>1, <2>1, <2>2 DEF ReadHeader, Written, WriteFails, IOFails, Serving
    <3>3. RefusePayload(c) \/ HandleRequest(c) \/ Misread(c)
      BY <2>5, <2>6, <3>2 DEF SessionStep
    <3> QED
      BY <3>3 DEF RefusePayload, HandleRequest, HandleQueryRaw, HandleQueryJson, HandleQueryBinary,
         HandleQueryStream, Handler, Misread
  <2>8. framed[c] /\ Exchange(c)
    <3>1. framed[c]
      BY <1>1, <2>1, <2>5, <2>6
         DEF SessionStep, ReadHeader, RefusePayload, HandleRequest, HandleQueryRaw,
             HandleQueryJson, HandleQueryBinary, HandleQueryStream, Handler, Misread, Written,
             WriteFails, IOFails
    <3> QED  BY <1>1, <3>1 DEF InStep
  <2>9. up
    BY <1>1, <2>5, SessionAside
  <2>10. toClient[c] = <<>>
    BY <1>1, <2>1, <2>8, <2>9 DEF Exchange, Silent, Cut, Gone, Closed, ClientPlaces
  <2>11. PICK long \in BOOLEAN :
           \/ Sends(c, <<Item("header", type, n, long), Item("payload", type, n, long)>>, "write")
           \/ /\ long
              /\ \/ Sends(c, <<Item("header", type, n, long), Item("junk", type, n, long)>>, "write")
                 \/ Sends(c, <<Item("header", type, n, long)>>, "cut")
    BY <1>1, <2>7, <2>10, SendsAlone
  <2> DEFINE h == Item("header", type, n, long)
             p == Item("payload", type, n, long)
             j == Item("junk", type, n, long)
  <2>12. h.part = "header" /\ p.part = "payload" /\ h.long = long /\ j.long = long
    BY DEF Item
  <2>13. \/ Sends(c, <<h, p>>, "write")
         \/ long /\ Sends(c, <<h, j>>, "write")
         \/ long /\ Sends(c, <<h>>, "cut")
    BY <2>11, Zenon
  <2> HIDE DEF h, p, j
  <2>14. ASSUME NEW items, NEW pc, Sends(c, items, pc) PROVE toClient'[c] = <<>> \o items
    BY <2>1, <2>10, <2>14 DEF Sends
  <2>15. \/ toClient'[c] = <<>> \o <<h, p>>
         \/ long /\ toClient'[c] = <<>> \o <<h, j>>
         \/ long /\ toClient'[c] = <<>> \o <<h>>
    BY <2>13, <2>14, Zenon
  <2>16. \/ toClient'[c] = <<h, p>>
         \/ long /\ toClient'[c] = <<h, j>>
         \/ long /\ toClient'[c] = <<h>>
    BY <2>15, Message
  <2>17. CASE toClient'[c] = <<h, p>>
    BY <2>12, <2>17
  <2>18. CASE long /\ (toClient'[c] = <<h, j>> \/ toClient'[c] = <<h>>)
    <3>1. Last(<<h, j>>) = j /\ Last(<<h>>) = h
      <4> DEFINE S == {h, j}
      <4>1. h \in S /\ j \in S
        OBVIOUS
      <4> HIDE DEF S
      <4>2. Len(<<h>>) = 1 /\ Len(<<h, j>>) = 2
        BY <4>1, Tuples
      <4> QED  BY <4>2 DEF Last
    <3> QED  BY <2>12, <2>18, <3>1
  <2> QED  BY <2>16, <2>17, <2>18
<1>2. TypeOK /\ InStep /\ [Next]_vars => [\A c \in Clients : Whole(c)]_vars
  BY <1>1
<1> QED  BY <1>2, Invariant, PTL DEF Spec, ShortAnswersWhole
=============================================================================
