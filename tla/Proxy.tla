-------------------------------- MODULE Proxy --------------------------------
(***************************************************************************)
(* The web proxy of assignment 4 (proxy.c): the loop of main, its clients  *)
(* and the servers it connects to.                                         *)
(*                                                                         *)
(* The proxy is one process without threads.  It accepts a connection,     *)
(* reads one line from it, parses the line, connects to the server the URI *)
(* names, sends its own request line, copies the response (one action per  *)
(* line; the module Relay shows what is inside), closes both sockets and   *)
(* accepts the next.  The wrappers of csapp.c end the program when a       *)
(* system call fails, so the tests of main for a negative result are never *)
(* true.                                                                   *)
(*                                                                         *)
(* A text is a sequence of tokens: the first line of a request is its      *)
(* words, the text "a:8080" is <<"a", "8080">>.  A method or a URI is      *)
(* taken to fit in its array.  The third word, version, is never read.     *)
(***************************************************************************)
EXTENDS Integers, Sequences

CONSTANTS Clients,   (* the programs that connect to the proxy              *)
          Loop,      (* the connection the proxy makes to itself            *)
          Nobody,    (* no connection                                       *)
          NoLine,    (* nothing was sent yet                                *)
          GET,       (* the method the proxy implements                     *)
          Uris,      (* the URIs requests name                              *)
          Requests,  (* the lines clients send                              *)
          Port80,    (* the text "80"                                       *)
          Slash,     (* the text "/"                                        *)
          ZeroHosts, (* host names whose first character is the digit 0     *)
          Servers,   (* addresses that accept connections                   *)
          Own,       (* the address the proxy itself listens on             *)
          MaxLines   (* bound: lines of a response                          *)

\* No text: a part of the URI that is not there.
Empty == <<>>

\* uri before a line was read: "" has no "//" either.
NoUri == [slashes |-> FALSE, host |-> Empty, port |-> Empty, path |-> Empty]

ASSUME ProxyAssumption ==
    /\ Loop \notin Clients /\ Nobody \notin Clients /\ Loop # Nobody
    /\ NoLine \notin Requests
    /\ \A l \in Requests : Len(l) \in 0 .. 2 /\ (Len(l) = 2 => l[2] \in Uris)
    /\ Own \in Servers
    /\ MaxLines \in Nat

Conn == Clients \cup {Loop}

VARIABLES
    line,         \* what each client has sent
    gone,         \* the clients that have closed their end
    backlog,      \* connections the kernel has made, not accepted yet
    client_sock,  \* the connection accepted last
    buffer,       \* the line read last; main never clears it
    method, uri,  \*   nor these
    open,         \* accepted connections that are not closed
    web_socks,    \* how many sockets to servers are open
    closed,       \* connections the proxy has closed
    got,          \* what was written to each connection
    pc,           \* "accept", "read", "connect", "request", "relay", "exited"
    exitedIn      \* the wrapper that has ended the program, or ""

clientVars  == <<line, gone>>
requestVars == <<buffer, method, uri>>
socketVars  == <<client_sock, open, web_socks, closed>>
vars == <<clientVars, backlog, requestVars, socketVars, got, pc, exitedIn>>

-----------------------------------------------------------------------------
(* parse_uri: hostname, port and path start out empty.  A port is looked for
   in front of a slash only: without a slash all that follows "//" is the
   host name. *)

ParseUri(u) ==
    IF ~u.slashes
      THEN [host |-> Empty, port |-> Empty, path |-> Empty]
      ELSE [host |-> IF u.path = Empty THEN u.host \o u.port ELSE u.host,
            port |-> IF u.path = Empty \/ u.port = Empty THEN Port80 ELSE u.port,
            path |-> IF u.path = Empty THEN Slash ELSE u.path]

\* Where the proxy connects to for a URI.
Address(u) == [host |-> ParseUri(u).host, port |-> ParseUri(u).port]

\* What a client hears: a line of the response to one path on one server.
ResponseTo(u) == <<Address(u), ParseUri(u).path>>

Responses == {ResponseTo(u) : u \in Uris \cup {NoUri}}

\* What method can hold.
Methods == {Empty} \cup {l[1] : l \in {r \in Requests : r # Empty}}

\* The tests of lines 108 and 124.  The latter compares with the digit '0',
\* where '\0' is an empty text; a path never begins with the digit.
Forwarded(m, u) == m = GET /\ ParseUri(u).host \notin ZeroHosts

-----------------------------------------------------------------------------
\* buffer is not initialised: the first read may leave any line in it.
Init ==
    /\ line = [c \in Clients |-> NoLine]
    /\ gone = {}
    /\ backlog = <<>>
    /\ client_sock = Nobody
    /\ buffer \in Requests
    /\ method = Empty
    /\ uri = NoUri
    /\ open = {}
    /\ web_socks = 0
    /\ closed = {}
    /\ got = [c \in Conn |-> <<>>]
    /\ pc = "accept"
    /\ exitedIn = ""

(* The clients *)

Connected(c) == c \in open \cup closed \/ \E k \in DOMAIN backlog : backlog[k] = c

Connect(c) ==
    /\ pc # "exited"
    /\ ~Connected(c)
    /\ backlog' = Append(backlog, c)
    /\ UNCHANGED <<clientVars, requestVars, socketVars, got, pc, exitedIn>>

\* The first line of a request; the proxy does not read the rest.
Send(c) ==
    /\ Connected(c) /\ c \notin closed /\ c \notin gone
    /\ line[c] = NoLine
    /\ \E l \in Requests : line' = [line EXCEPT ![c] = l]
    /\ UNCHANGED <<gone, backlog, requestVars, socketVars, got, pc, exitedIn>>

\* A client closes its end, with or without having sent a line.
Leave(c) ==
    /\ Connected(c) /\ c \notin closed /\ c \notin gone
    /\ gone' = gone \cup {c}
    /\ UNCHANGED <<line, backlog, requestVars, socketVars, got, pc, exitedIn>>

(* The proxy *)

\* unix_error; the kernel closes every socket and resets the backlog.
Exit(wrapper) ==
    /\ pc' = "exited"
    /\ exitedIn' = wrapper
    /\ backlog' = <<>>
    /\ open' = {}
    /\ web_socks' = 0
    /\ UNCHANGED <<clientVars, requestVars, client_sock, closed, got>>

CloseClient ==
    /\ open' = open \ {client_sock}
    /\ closed' = closed \cup {client_sock}
    /\ pc' = "accept"

Accept ==
    /\ pc = "accept" /\ backlog # <<>>
    /\ client_sock' = Head(backlog)
    /\ backlog' = Tail(backlog)
    /\ open' = open \cup {Head(backlog)}
    /\ pc' = "read"
    /\ UNCHANGED <<clientVars, requestVars, web_socks, closed, got, exitedIn>>

AcceptError == pc = "accept" /\ backlog # <<>> /\ Exit("Accept")

\* sscanf stores the words that are there and leaves the other arrays alone.
Sscanf(l) ==
    /\ method' = IF Len(l) >= 1 THEN l[1] ELSE method
    /\ uri' = IF Len(l) >= 2 THEN l[2] ELSE uri

\* Rio_readlineb has something to return: a line, or 0 at the end of the input.
Readable == pc = "read" /\ (line[client_sock] # NoLine \/ client_sock \in gone)

\* At the end of the input buffer still holds the line of an earlier connection.
LineRead == IF line[client_sock] = NoLine THEN buffer ELSE line[client_sock]

\* Fault: the line is parsed before the new one is read.
ParseBeforeRead ==
    /\ Readable
    /\ buffer' = LineRead
    /\ Sscanf(buffer)
    /\ IF Forwarded(method', uri')
         THEN pc' = "connect" /\ UNCHANGED <<open, closed>>
         ELSE CloseClient
    /\ UNCHANGED <<clientVars, backlog, client_sock, web_socks, got, exitedIn>>

\* Fault: a request that is not forwarded leaves the client's socket open.
IgnoreKeepsOpen ==
    /\ Readable
    /\ buffer' = LineRead
    /\ Sscanf(LineRead)
    /\ pc' = IF Forwarded(method', uri') THEN "connect" ELSE "accept"
    /\ UNCHANGED <<clientVars, backlog, open, closed, client_sock, web_socks, got,
                   exitedIn>>

\* Read a line and parse it; a request that is not forwarded closes the client.
ReadRequest ==
    /\ Readable
    /\ buffer' = LineRead
    /\ Sscanf(LineRead)
    /\ IF Forwarded(method', uri')
         THEN pc' = "connect" /\ UNCHANGED <<open, closed>>
         ELSE CloseClient
    /\ UNCHANGED <<clientVars, backlog, client_sock, web_socks, got, exitedIn>>

\* The client has reset the connection.
ReadError == pc = "read" /\ client_sock \in gone /\ Exit("Rio_readlineb")

\* A connection to the proxy's own address joins its backlog.
OpenClientfd ==
    /\ pc = "connect"
    /\ Address(uri) \in Servers
    /\ web_socks' = web_socks + 1
    /\ backlog' = IF Address(uri) = Own THEN Append(backlog, Loop) ELSE backlog
    /\ pc' = "request"
    /\ UNCHANGED <<clientVars, requestVars, client_sock, open, closed, got, exitedIn>>

\* Fault: a connection that fails is tried again.
RetryConnect == pc = "connect" /\ UNCHANGED vars

\* No such host, or it refuses: any server may, at any time.
OpenClientfdError == pc = "connect" /\ Exit("Open_clientfd")

WriteRequest ==
    /\ pc = "request"
    /\ pc' = "relay"
    /\ UNCHANGED <<clientVars, backlog, requestVars, socketVars, got, exitedIn>>

WriteRequestError == pc = "request" /\ Exit("Rio_writen")

\* One turn of the relay loop.  Nobody answers on the connection to itself.
RelayLine ==
    /\ pc = "relay" /\ Address(uri) # Own
    /\ Len(got[client_sock]) < MaxLines
    /\ got' = [got EXCEPT ![client_sock] = Append(@, ResponseTo(uri))]
    /\ UNCHANGED <<clientVars, backlog, requestVars, socketVars, pc, exitedIn>>

\* The server resets its connection, or the client has left.
RelayReadError  == pc = "relay" /\ Address(uri) # Own /\ Exit("Rio_readlineb")
RelayWriteError == pc = "relay" /\ client_sock \in gone /\ Address(uri) # Own
                     /\ Exit("Rio_writen")

\* Fault: close(web_sock) is missing.
EndKeepsWebSock ==
    /\ pc = "relay" /\ Address(uri) # Own
    /\ CloseClient
    /\ UNCHANGED <<clientVars, backlog, requestVars, client_sock, web_socks, got,
                   exitedIn>>

\* Fault: close(web_sock) is there twice.
EndClosesTwice ==
    /\ pc = "relay" /\ Address(uri) # Own
    /\ web_socks' = web_socks - 2
    /\ CloseClient
    /\ UNCHANGED <<clientVars, backlog, requestVars, client_sock, got, exitedIn>>

\* The server has closed its end: close(web_sock), close(client_sock).
EndOfResponse ==
    /\ pc = "relay" /\ Address(uri) # Own
    /\ web_socks' = web_socks - 1
    /\ CloseClient
    /\ UNCHANGED <<clientVars, backlog, requestVars, client_sock, got, exitedIn>>

Error == AcceptError \/ ReadError \/ OpenClientfdError \/ WriteRequestError
           \/ RelayReadError \/ RelayWriteError
Serve == Accept \/ ReadRequest \/ OpenClientfd \/ WriteRequest \/ RelayLine
           \/ EndOfResponse
Client(c) == Connect(c) \/ Send(c) \/ Leave(c)

Next == Serve \/ Error \/ \E c \in Clients : Client(c)

Spec == Init /\ [][Next]_vars

\* A client that has connected sends a line or leaves; a server that has accepted
\* answers and closes; the proxy runs.  Nobody has to connect, and no client has
\* to leave once it has sent its line.
FairSpec ==
    /\ Spec
    /\ WF_vars(Serve \/ Error)
    /\ WF_vars(EndOfResponse)
    /\ \A c \in Clients : WF_vars(line[c] = NoLine /\ (Send(c) \/ Leave(c)))

-----------------------------------------------------------------------------
(* Properties. *)

TypeOK ==
    /\ line \in [Clients -> Requests \cup {NoLine}]
    /\ gone \subseteq Clients
    /\ backlog \in Seq(Conn)
    /\ client_sock \in Clients \cup {Nobody}
    /\ buffer \in Requests
    /\ method \in Methods
    /\ uri \in Uris \cup {NoUri}
    /\ open \subseteq Clients
    /\ web_socks \in Nat
    /\ closed \subseteq Clients
    /\ got \in [Conn -> Seq(Responses)]
    /\ pc \in {"accept", "read", "connect", "request", "relay", "exited"}
    /\ exitedIn \in {"", "Accept", "Rio_readlineb", "Open_clientfd", "Rio_writen"}

\* No path through the loop leaks a descriptor: whenever the proxy is back at
\* Accept both sockets of the last connection are closed, and it never has more
\* than these two.
NoDescriptorLeak ==
    /\ open = IF pc \in {"accept", "exited"} THEN {} ELSE {client_sock}
    /\ web_socks = IF pc \in {"request", "relay"} THEN 1 ELSE 0

\* method, uri and buffer outlive a connection.  All the same, a client that sends
\* a method and a URI hears the response to its own URI and nothing else, and one
\* that sends another method than GET hears nothing.  (One that sends less hears
\* what an earlier client asked for.)
OwnAnswer ==
    \A c \in Clients :
        /\ line[c] # NoLine /\ Len(line[c]) = 2 =>
              \A k \in DOMAIN got[c] : got[c][k] = ResponseTo(line[c][2])
        /\ line[c] # NoLine /\ Len(line[c]) >= 1 /\ got[c] # <<>> => line[c][1] = GET

\* The proxy is an iterative server.
Server == INSTANCE IterativeServer WITH
    Answer  <- Responses,
    queue   <- backlog,
    serving <- IF pc \in {"accept", "exited"} THEN Nobody ELSE client_sock,
    served  <- closed,
    heard   <- got,
    up      <- pc # "exited"

\* Clients are served one at a time, in the order in which they connect, on every
\* path through the loop, and each connection is closed once.
ServerSpec == Server!Spec

\* The proxy waits for a response from itself.
WaitsForItself == pc = "relay" /\ Address(uri) = Own

\* Everyone who connects is served or turned away, unless an error has ended the
\* proxy or a request has named the proxy itself.
EachServed ==
    \A c \in Clients :
        Connected(c) ~> (c \in closed \/ pc = "exited" \/ WaitsForItself)

\* A request line without an absolute URI does not end the proxy.
MalformedSurvived == exitedIn = "Open_clientfd" => uri.slashes
=============================================================================
