----------------------------- MODULE ProxyProofs -----------------------------
(***************************************************************************)
(* Theorems about Proxy, for any number of clients, any requests and any   *)
(* set of servers: no descriptor leaks, nobody who sends a complete        *)
(* request line hears another's answer, and the loop is an iterative       *)
(* server.                                                                 *)
(***************************************************************************)
EXTENDS Proxy, QueueLemmas, TLAPS

\* The client that is being served exists and has not been closed.
Serving ==
    pc \in {"read", "connect", "request", "relay"}
        => client_sock \in Clients /\ client_sock \notin closed

\* A connection is in the backlog at most once, and not while or after it is
\* served.  The one to the proxy itself is there only while nobody accepts.
Queued ==
    /\ \A k \in DOMAIN backlog : backlog[k] \notin open \cup closed
    /\ \A k, l \in DOMAIN backlog : backlog[k] = backlog[l] => k = l
    /\ \A k \in DOMAIN backlog :
          backlog[k] = Loop => pc \in {"request", "relay"} /\ Address(uri) = Own
    /\ pc = "exited" => backlog = <<>>

\* method and uri hold the words of the line the client being served has sent; one
\* that has sent none has left, and sends none any more.
Parsed ==
    pc \in {"connect", "request", "relay"} =>
        /\ Forwarded(method, uri)
        /\ line[client_sock] = NoLine => client_sock \in gone
        /\ line[client_sock] # NoLine =>
              /\ Len(line[client_sock]) >= 1 => method = line[client_sock][1]
              /\ Len(line[client_sock]) >= 2 => uri = line[client_sock][2]

\* Nothing is written before the response arrives.
Silent ==
    \A c \in Conn :
        got[c] # <<>> =>
            c \in closed \/ pc = "exited" \/ (pc = "relay" /\ c = client_sock)

IInv ==
    /\ TypeOK
    /\ NoDescriptorLeak
    /\ Serving
    /\ Queued
    /\ Parsed
    /\ Silent
    /\ OwnAnswer

-----------------------------------------------------------------------------
\* An empty sequence has no index.
LEMMA NoIndex == \A k \in 1 .. 0 : FALSE
<1>1. ASSUME NEW k \in Int, 1 <= k, k <= 0 PROVE FALSE
  BY <1>1
<1>2. QED
  BY <1>1

\* The initial states satisfy the invariant.
LEMMA InitIInv == Init => IInv
<1> SUFFICES ASSUME Init PROVE IInv
  OBVIOUS
<1> USE ProxyAssumption DEF Init
<1>1. TypeOK
  <2>1. backlog \in Seq(Conn) /\ <<>> \in Seq(Responses)
    BY EmptySeq
  <2>2. method \in Methods
    BY DEF Methods
  <2>3. QED
    BY <2>1, <2>2 DEF TypeOK
<1>2. (\A k \in DOMAIN backlog : FALSE) /\ (\A c \in Conn : got[c] = <<>>)
  <2>1. <<>> \in Seq(Conn) /\ Len(<<>>) = 0
    BY EmptySeq
  <2>2. DOMAIN <<>> = 1 .. 0
    BY <2>1, LenProperties
  <2>3. \A k \in 1 .. 0 : FALSE
    BY NoIndex
  <2>4. \A c \in Conn : got[c] = <<>>
    OBVIOUS
  <2>5. DOMAIN backlog = 1 .. 0
    BY <2>2
  <2>6. QED
    BY <2>3, <2>4, <2>5
<1>3. NoDescriptorLeak /\ Serving /\ Parsed
  BY DEF NoDescriptorLeak, Serving, Parsed
<1>4. Queued /\ Silent
  BY <1>2 DEF Queued, Silent
<1>5. OwnAnswer
  BY DEF OwnAnswer
<1>6. QED
  BY <1>1, <1>3, <1>4, <1>5 DEF IInv

\* A new connection.
LEMMA ConnectIInv == ASSUME NEW c \in Clients PROVE IInv /\ Connect(c) => IInv'
<1> SUFFICES ASSUME IInv, Connect(c) PROVE IInv'
  OBVIOUS
<1> USE ProxyAssumption DEF IInv, Connect, clientVars, requestVars, socketVars
<1>1. backlog \in Seq(Conn) /\ c \in Conn
  BY DEF TypeOK, Conn
<1>2. c \notin open \cup closed /\ \A k \in DOMAIN backlog : backlog[k] # c
  BY DEF Connected
<1>3. /\ backlog' \in Seq(Conn)
      /\ \A k, l \in DOMAIN backlog' : backlog'[k] = backlog'[l] => k = l
      /\ \A k \in DOMAIN backlog' :
            backlog'[k] = c \/ \E l \in DOMAIN backlog : backlog'[k] = backlog[l]
  BY <1>1, <1>2, Joins DEF Queued
<1>4. TypeOK'
  BY <1>3 DEF TypeOK
<1>5. Queued'
  BY <1>2, <1>3 DEF Queued
<1>6. QED
  BY <1>4, <1>5 DEF NoDescriptorLeak, Serving, Parsed, Silent, OwnAnswer

\* The first line of a request: its sender has heard nothing so far.
LEMMA SendIInv == ASSUME NEW c \in Clients PROVE IInv /\ Send(c) => IInv'
<1> SUFFICES ASSUME IInv, Send(c) PROVE IInv'
  OBVIOUS
<1> USE ProxyAssumption DEF IInv, Send, requestVars, socketVars
<1>1. PICK l \in Requests : line' = [line EXCEPT ![c] = l]
  OBVIOUS
<1>2. /\ line' \in [Clients -> Requests \cup {NoLine}]
      /\ \A d \in Clients : d # c => line'[d] = line[d]
  BY <1>1 DEF TypeOK
<1>3. TypeOK'
  BY <1>2 DEF TypeOK
<1>4. pc \in {"connect", "request", "relay"} => client_sock # c
  BY DEF Parsed
<1>5. Parsed'
  BY <1>2, <1>4 DEF Parsed, Serving
<1>6. got[c] = <<>>
  BY <1>4 DEF Silent, Connected, NoDescriptorLeak, Queued, Conn
<1>7. OwnAnswer'
  BY <1>2, <1>6 DEF OwnAnswer
<1>8. QED
  BY <1>3, <1>5, <1>7 DEF NoDescriptorLeak, Serving, Queued, Silent

\* A client closes its end.
LEMMA LeaveIInv == ASSUME NEW c \in Clients PROVE IInv /\ Leave(c) => IInv'
  BY DEF IInv, Leave, requestVars, socketVars, TypeOK, NoDescriptorLeak, Serving,
         Queued, Parsed, Silent, OwnAnswer

\* The end of the program.
LEMMA ExitIInv ==
    ASSUME NEW wrapper \in {"Accept", "Rio_readlineb", "Open_clientfd", "Rio_writen"}
    PROVE  IInv /\ Exit(wrapper) => IInv'
<1> SUFFICES ASSUME IInv, Exit(wrapper) PROVE IInv'
  OBVIOUS
<1> USE DEF IInv, Exit, clientVars, requestVars
<1>1. backlog' \in Seq(Conn)
  OBVIOUS
<1>2. TypeOK'
  BY <1>1 DEF TypeOK
<1>3. Queued'
  BY DEF Queued
<1>4. QED
  BY <1>2, <1>3 DEF NoDescriptorLeak, Serving, Parsed, Silent, OwnAnswer

\* The next connection, which is not the proxy's own.
LEMMA AcceptIInv == IInv /\ Accept => IInv'
<1> SUFFICES ASSUME IInv, Accept PROVE IInv'
  OBVIOUS
<1> USE DEF IInv, Accept, clientVars, requestVars
<1>1. /\ Tail(backlog) \in Seq(Conn)
      /\ Head(backlog) = backlog[1] /\ 1 \in DOMAIN backlog
      /\ \A k, l \in DOMAIN Tail(backlog) : Tail(backlog)[k] = Tail(backlog)[l] => k = l
      /\ \A k \in DOMAIN Tail(backlog) :
            /\ Tail(backlog)[k] # Head(backlog)
            /\ \E l \in DOMAIN backlog : Tail(backlog)[k] = backlog[l]
  BY LeavesQueue DEF TypeOK, Queued
<1>2. Head(backlog) \in Conn
  BY HeadTailProperties DEF TypeOK
<1>3. Head(backlog) \in Clients /\ Head(backlog) \notin open \cup closed
  BY <1>1, <1>2 DEF Queued, Conn
<1>4. TypeOK'
  BY <1>1, <1>3 DEF TypeOK
<1>5. Queued'
  BY <1>1 DEF Queued
<1>6. NoDescriptorLeak' /\ Serving'
  BY <1>3 DEF NoDescriptorLeak, Serving
<1>7. QED
  BY <1>4, <1>5, <1>6 DEF Parsed, Silent, OwnAnswer

\* What sscanf leaves in method and uri.
LEMMA SscanfTypes ==
    ASSUME TypeOK, NEW l \in Requests, Sscanf(l)
    PROVE  /\ method' \in Methods
           /\ uri' \in Uris \cup {NoUri}
<1> USE ProxyAssumption DEF Sscanf
<1>1. method' \in Methods
  <2>1. CASE Len(l) >= 1
    <3>1. l # Empty
      BY <2>1 DEF Empty
    <3>2. l[1] \in Methods
      BY <3>1 DEF Methods
    <3>3. QED
      BY <2>1, <3>2
  <2>2. CASE ~(Len(l) >= 1)
    BY <2>2 DEF TypeOK
  <2>3. QED
    BY <2>1, <2>2
<1>2. uri' \in Uris \cup {NoUri}
  <2>1. CASE Len(l) >= 2
    <3>1. Len(l) = 2
      BY <2>1
    <3>2. QED
      BY <2>1, <3>1
  <2>2. CASE ~(Len(l) >= 2)
    BY <2>2 DEF TypeOK
  <2>3. QED
    BY <2>1, <2>2
<1>3. QED
  BY <1>1, <1>2

\* The request line.
LEMMA ReadRequestIInv == IInv /\ ReadRequest => IInv'
<1> SUFFICES ASSUME IInv, ReadRequest PROVE IInv'
  OBVIOUS
<1> USE ProxyAssumption DEF IInv, ReadRequest, Readable, clientVars
<1>1. client_sock \in Clients /\ client_sock \notin closed /\ pc = "read"
  BY DEF Serving
<1>2. LineRead \in Requests
  BY <1>1 DEF LineRead, TypeOK
<1>3. /\ method' \in Methods
      /\ uri' \in Uris \cup {NoUri}
  BY <1>2, SscanfTypes
<1>4. \A k \in DOMAIN backlog : backlog[k] # Loop /\ backlog[k] # client_sock
  BY <1>1 DEF Queued, NoDescriptorLeak
<1>5. CASE Forwarded(method', uri')
  <2>1. pc' = "connect" /\ UNCHANGED <<open, closed>>
    BY <1>5
  <2>2. TypeOK'
    BY <1>2, <1>3, <2>1 DEF TypeOK
  <2>3. Parsed'
    BY <1>5, <2>1 DEF Parsed, Sscanf, LineRead
  <2>4. QED
    BY <1>1, <1>4, <2>1, <2>2, <2>3
       DEF NoDescriptorLeak, Serving, Queued, Silent, OwnAnswer
<1>6. CASE ~Forwarded(method', uri')
  <2>1. CloseClient
    BY <1>6
  <2>2. TypeOK'
    BY <1>1, <1>2, <1>3, <2>1 DEF TypeOK, CloseClient
  <2>3. QED
    BY <1>1, <1>4, <2>1, <2>2
       DEF CloseClient, NoDescriptorLeak, Serving, Queued, Parsed, Silent, OwnAnswer
<1>7. QED
  BY <1>5, <1>6

\* The connection to the server, or to the proxy itself.
LEMMA OpenClientfdIInv == IInv /\ OpenClientfd => IInv'
<1> SUFFICES ASSUME IInv, OpenClientfd PROVE IInv'
  OBVIOUS
<1>0. /\ TypeOK /\ pc' = "request"
      /\ UNCHANGED <<line, gone, buffer, method, uri, client_sock, open, closed, got,
                     exitedIn>>
  BY DEF IInv, OpenClientfd, clientVars, requestVars
<1>1. ASSUME backlog' \in Seq(Conn), web_socks' \in Nat PROVE TypeOK'
  BY <1>0, <1>1 DEF TypeOK
<1> USE ProxyAssumption DEF IInv, OpenClientfd, clientVars, requestVars
<1>2. web_socks = 0 /\ web_socks' = 1
  BY DEF NoDescriptorLeak
<1>3. backlog' \in Seq(Conn) /\ Queued'
  <2>1. CASE Address(uri) # Own
    BY <2>1 DEF Queued, TypeOK, Address, ParseUri
  <2>2. CASE Address(uri) = Own
    <3>1. /\ backlog \in Seq(Conn) /\ Loop \in Conn
          /\ \A k \in DOMAIN backlog : backlog[k] # Loop
          /\ backlog' = Append(backlog, Loop)
      BY <2>2 DEF TypeOK, Queued, Conn
    <3>2. /\ backlog' \in Seq(Conn)
          /\ \A k, l \in DOMAIN backlog' : backlog'[k] = backlog'[l] => k = l
          /\ \A k \in DOMAIN backlog' :
                backlog'[k] = Loop \/ \E l \in DOMAIN backlog : backlog'[k] = backlog[l]
      BY <3>1, Joins DEF Queued
    <3>3. Loop \notin open \cup closed
      BY DEF TypeOK
    <3>4. Address(uri)' = Own
      BY <2>2 DEF Address, ParseUri
    <3>5. QED
      BY <3>2, <3>3, <3>4 DEF Queued
  <2>3. QED
    BY <2>1, <2>2
<1>4. TypeOK'
  BY <1>2, <1>3, <1>1
<1>5. Parsed'
  BY DEF Parsed, Forwarded, ParseUri
<1>6. QED
  BY <1>2, <1>3, <1>4, <1>5 DEF NoDescriptorLeak, Serving, Silent, OwnAnswer

\* The request line to the server.
LEMMA WriteRequestIInv == IInv /\ WriteRequest => IInv'
<1> SUFFICES ASSUME IInv, WriteRequest PROVE IInv'
  OBVIOUS
<1> USE DEF IInv, WriteRequest, clientVars, requestVars, socketVars
<1>1. Parsed' /\ Queued'
  BY DEF Parsed, Queued, Forwarded, Address, ParseUri
<1>2. QED
  BY <1>1 DEF TypeOK, NoDescriptorLeak, Serving, Silent, OwnAnswer

\* A line of the response.
LEMMA RelayLineIInv == IInv /\ RelayLine => IInv'
<1> SUFFICES ASSUME IInv, RelayLine PROVE IInv'
  OBVIOUS
<1> USE ProxyAssumption DEF IInv, RelayLine, clientVars, requestVars, socketVars
<1> DEFINE r == ResponseTo(uri)
<1>1. client_sock \in Clients /\ client_sock \in Conn /\ r \in Responses
  BY DEF Serving, TypeOK, Conn, Responses
<1>2. /\ got[client_sock] \in Seq(Responses)
      /\ got' = [got EXCEPT ![client_sock] = Append(got[client_sock], r)]
  BY <1>1 DEF TypeOK
<1> HIDE DEF r
<1>3. /\ Append(got[client_sock], r) \in Seq(Responses)
      /\ Len(Append(got[client_sock], r)) = Len(got[client_sock]) + 1
      /\ \A k \in 1 .. Len(got[client_sock]) :
            Append(got[client_sock], r)[k] = got[client_sock][k]
      /\ Append(got[client_sock], r)[Len(got[client_sock]) + 1] = r
  BY <1>1, <1>2, AppendProperties
<1>4. got \in [Conn -> Seq(Responses)]
  BY DEF TypeOK
<1>5. got' \in [Conn -> Seq(Responses)]
  BY <1>1, <1>2, <1>3, <1>4
<1>6. TypeOK'
  BY <1>5 DEF TypeOK
<1>7. /\ got'[client_sock] = Append(got[client_sock], r)
      /\ \A c \in Conn : c # client_sock => got'[c] = got[c]
  BY <1>1, <1>2, <1>4
<1>8. Parsed' /\ Queued'
  BY DEF Parsed, Queued, Forwarded, Address, ParseUri
<1>9. Silent'
  BY <1>7 DEF Silent
<1>10. OwnAnswer'
  <2>1. \A c \in Clients : c # client_sock => got'[c] = got[c]
    BY <1>7 DEF Conn
  <2>2. ASSUME line[client_sock] # NoLine, Len(line[client_sock]) = 2,
               NEW k \in DOMAIN got'[client_sock]
        PROVE  got'[client_sock][k] = ResponseTo(line[client_sock][2])
    <3>1. r = ResponseTo(line[client_sock][2])
      BY <2>2 DEF Parsed, r
    <3>2. /\ DOMAIN got[client_sock] = 1 .. Len(got[client_sock])
          /\ Len(got[client_sock]) \in Nat
      BY <1>2, LenProperties
    <3>3. DOMAIN got'[client_sock] = 1 .. Len(got[client_sock]) + 1
      BY <1>3, <1>7, LenProperties
    <3>4. CASE k = Len(got[client_sock]) + 1
      BY <3>1, <3>4, <1>3, <1>7
    <3>5. CASE k \in DOMAIN got[client_sock]
      <4>1. got[client_sock][k] = ResponseTo(line[client_sock][2])
        BY <3>5, <2>2, <1>1 DEF OwnAnswer
      <4>2. QED
        BY <4>1, <3>5, <3>2, <1>3, <1>7
    <3>6. QED
      BY <2>2, <3>2, <3>3, <3>4, <3>5
  <2>3. ASSUME line[client_sock] # NoLine, Len(line[client_sock]) >= 1
        PROVE  line[client_sock][1] = GET
    BY <2>3 DEF Parsed, Forwarded
  <2>4. QED
    BY <2>1, <2>2, <2>3 DEF OwnAnswer
<1>11. QED
  BY <1>6, <1>8, <1>9, <1>10 DEF NoDescriptorLeak, Serving

\* The end of the response.
LEMMA EndOfResponseIInv == IInv /\ EndOfResponse => IInv'
<1> SUFFICES ASSUME IInv, EndOfResponse PROVE IInv'
  OBVIOUS
<1>0. /\ TypeOK /\ pc' = "accept"
      /\ open' \subseteq open /\ closed' = closed \cup {client_sock}
      /\ UNCHANGED <<line, gone, backlog, buffer, method, uri, client_sock, got,
                     exitedIn>>
  BY DEF IInv, EndOfResponse, CloseClient, clientVars, requestVars
<1>1. ASSUME client_sock \in Clients, web_socks' \in Nat PROVE TypeOK'
  BY <1>0, <1>1 DEF TypeOK
<1> USE ProxyAssumption DEF IInv, EndOfResponse, clientVars, requestVars, CloseClient
<1>2. client_sock \in Clients /\ client_sock \notin closed
  BY DEF Serving
<1>3. web_socks' = 0
  BY DEF NoDescriptorLeak
<1>4. \A k \in DOMAIN backlog : backlog[k] # Loop /\ backlog[k] # client_sock
  BY DEF Queued, NoDescriptorLeak
<1>5. TypeOK'
  BY <1>2, <1>3, <1>1
<1>6. QED
  BY <1>2, <1>3, <1>4, <1>5
     DEF NoDescriptorLeak, Serving, Queued, Parsed, Silent, OwnAnswer

\* The invariant is inductive.
LEMMA NextIInv == IInv /\ [Next]_vars => IInv'
<1> SUFFICES ASSUME IInv, [Next]_vars PROVE IInv'
  OBVIOUS
<1>1. CASE Serve
  BY <1>1, AcceptIInv, ReadRequestIInv, OpenClientfdIInv, WriteRequestIInv,
     RelayLineIInv, EndOfResponseIInv DEF Serve
<1>2. CASE Error
  BY <1>2, ExitIInv DEF Error, AcceptError, ReadError, OpenClientfdError,
     WriteRequestError, RelayReadError, RelayWriteError
<1>3. ASSUME NEW c \in Clients, Client(c) PROVE IInv'
  BY <1>3, ConnectIInv, SendIInv, LeaveIInv DEF Client
<1>4. CASE UNCHANGED vars
  <2> USE <1>4 DEF vars, clientVars, requestVars, socketVars
  <2>1. TypeOK'
    BY DEF IInv, TypeOK
  <2>2. NoDescriptorLeak' /\ Serving' /\ Silent' /\ OwnAnswer'
    BY DEF IInv, NoDescriptorLeak, Serving, Silent, OwnAnswer
  <2>3. Queued' /\ Parsed'
    BY DEF IInv, Queued, Parsed, Forwarded, Address, ParseUri
  <2>4. QED
    BY <2>1, <2>2, <2>3 DEF IInv
<1>5. QED
  BY <1>1, <1>2, <1>3, <1>4 DEF Next

\* The invariant holds in every reachable state.
THEOREM Invariance == Spec => []IInv
  BY InitIInv, NextIInv, PTL DEF Spec

\* The variables of the proxy keep their types.
THEOREM TypeCorrect == Spec => []TypeOK
<1>1. IInv => TypeOK
  BY DEF IInv
<1>2. QED
  BY Invariance, <1>1, PTL

\* The proxy is back at Accept with both sockets of the last connection closed.
THEOREM NoLeak == Spec => []NoDescriptorLeak
<1>1. IInv => NoDescriptorLeak
  BY DEF IInv
<1>2. QED
  BY Invariance, <1>1, PTL

\* A client that sends a complete request line hears no other client's answer.
THEOREM OwnAnswers == Spec => []OwnAnswer
<1>1. IInv => OwnAnswer
  BY DEF IInv
<1>2. QED
  BY Invariance, <1>1, PTL

-----------------------------------------------------------------------------
(* Proxy implements IterativeServer. *)

\* Every step of the proxy and of its clients is a step of an iterative server or
\* cannot be seen there.
LEMMA StepRefines == IInv /\ [Next]_vars => [Server!Next]_(Server!serverVars)
<1> SUFFICES ASSUME IInv, [Next]_vars PROVE [Server!Next]_(Server!serverVars)
  OBVIOUS
<1> USE ProxyAssumption
    DEF Server!serverVars, clientVars, requestVars, socketVars
<1>0. Nobody \notin Clients /\ Serving /\ Queued /\ NoDescriptorLeak /\ TypeOK
  BY DEF IInv
<1>1. CASE Accept
  <2>1. Server!Accept
    BY <1>1 DEF Accept, Server!Accept
  <2>2. QED
    BY <2>1 DEF Server!Next
<1>2. CASE ReadRequest
  <2>1. CASE Forwarded(method', uri')
    BY <1>2, <2>1 DEF ReadRequest, Readable
  <2>2. CASE ~Forwarded(method', uri')
    <3>1. Server!Close
      BY <1>0, <1>2, <2>2 DEF ReadRequest, Readable, CloseClient, Serving, Server!Close
    <3>2. QED
      BY <3>1 DEF Server!Next
  <2>3. QED
    BY <2>1, <2>2
<1>3. CASE OpenClientfd
  <2>1. CASE Address(uri) = Own
    <3>1. /\ Loop \notin closed /\ Loop # client_sock
          /\ \A k \in DOMAIN backlog : backlog[k] # Loop
      BY <1>0, <1>3 DEF OpenClientfd, TypeOK, Serving, Queued
    <3>2. Server!Arrive(Loop)
      BY <1>3, <2>1, <3>1 DEF OpenClientfd, Server!Arrive
    <3>3. QED
      BY <3>2 DEF Server!Next, Conn
  <2>2. CASE Address(uri) # Own
    BY <1>3, <2>2 DEF OpenClientfd
  <2>3. QED
    BY <2>1, <2>2
<1>4. CASE WriteRequest
  BY <1>4 DEF WriteRequest
<1>5. CASE RelayLine
  <2>1. ResponseTo(uri) \in Responses
    BY <1>0 DEF TypeOK, Responses
  <2>2. Server!Say
    BY <1>0, <1>5, <2>1 DEF RelayLine, Serving, Server!Say
  <2>3. QED
    BY <2>2 DEF Server!Next
<1>6. CASE EndOfResponse
  <2>1. Server!Close
    BY <1>0, <1>6 DEF EndOfResponse, CloseClient, Serving, Server!Close
  <2>2. QED
    BY <2>1 DEF Server!Next
<1>7. CASE Error
  <2>1. Server!End
    BY <1>7 DEF Error, AcceptError, ReadError, OpenClientfdError, WriteRequestError,
       RelayReadError, RelayWriteError, Exit, Server!End
  <2>2. QED
    BY <2>1 DEF Server!Next
<1>8. ASSUME NEW c \in Clients, Client(c) PROVE [Server!Next]_(Server!serverVars)
  <2>1. CASE Connect(c)
    <3>1. Server!Arrive(c)
      BY <1>0, <2>1 DEF Connect, Connected, NoDescriptorLeak, Server!Arrive
    <3>2. QED
      BY <3>1 DEF Server!Next, Conn
  <2>2. CASE Send(c) \/ Leave(c)
    BY <2>2 DEF Send, Leave
  <2>3. QED
    BY <1>8, <2>1, <2>2 DEF Client
<1>9. CASE UNCHANGED vars
  BY <1>9 DEF vars
<1>10. QED
  BY <1>1, <1>2, <1>3, <1>4, <1>5, <1>6, <1>7, <1>8, <1>9 DEF Next, Serve

\* The proxy is an iterative server, on every path through its loop.
THEOREM RefinesServer == Spec => ServerSpec
<1>1. Init => Server!Init
  BY DEF Init, Server!Init
<1>2. QED
  BY <1>1, Invariance, StepRefines, PTL DEF Spec, ServerSpec, Server!Spec
=============================================================================
