-------------------------------- MODULE Tiny --------------------------------
(***************************************************************************)
(* The Tiny web server of assignment 4 (tiny/tiny.c, tiny/csapp.c), its    *)
(* clients, the files it serves and the CGI programs it runs.              *)
(*                                                                         *)
(* The server is one process without threads.  For a CGI program it forks; *)
(* the child has the client's socket as its standard output while the      *)
(* parent waits.  The wrappers of csapp.c end the process that calls them  *)
(* when a system call fails.  Clients may leave at any time.               *)
(*                                                                         *)
(* The files belong to others and change while the server runs: what stat, *)
(* open or execve finds behind a name is any file, whatever an earlier     *)
(* call has found.                                                         *)
(*                                                                         *)
(* What is written with one Rio_writen is one item of an answer; the body  *)
(* of an error page, five writes, is one item too.                         *)
(***************************************************************************)
EXTENDS Integers, Sequences

CONSTANTS Conn,      (* connections                                        *)
          Nobody,    (* no connection                                      *)
          Pages,     (* file names without "cgi-bin"                       *)
          Programs,  (* file names with it                                 *)
          Uris,      (* the URIs that occur                                *)
          NoWord,    (* a word the request line does not have              *)
          Requests,  (* request lines: a method and a URI                  *)
          Header,    (* a header line                                      *)
          Blank,     (* the line that ends the headers                     *)
          MaxLines,  (* bound: lines a client sends                        *)
          MaxSize    (* bound: bytes of a page                             *)

Paths == Pages \cup Programs
Methods == {"GET", "POST"}

\* pair: whether the text behind "?" has the "&" that the CGI program looks for.
ASSUME TinyAssumption ==
    /\ Nobody \notin Conn
    /\ Pages \cap Programs = {}
    /\ Uris \subseteq [path : Paths, pair : BOOLEAN]
    /\ Requests \subseteq [method : Methods, uri : Uris \cup {NoWord}]
                             \cup {[method |-> NoWord, uri |-> NoWord]}
    /\ Header # Blank
    /\ MaxLines \in Nat /\ MaxSize \in Nat

Item == {<<"status", code>> : code \in {200, 403, 404, 501}}
           \cup {<<"server">>, <<"type">>, <<"page">>, <<"output">>, <<"log">>}
           \cup {<<"length", n>> : n \in 0 .. MaxSize}
           \cup {<<"body", n>> : n \in 0 .. MaxSize}

VARIABLES
    sent,     \* the lines each client has sent
    gone,     \* clients that have closed their end
    queue,    \* connections the kernel has made, not accepted yet
    serving,  \* connfd
    at,       \* how many lines of it were read
    uri,      \* the URI of the request
    line,     \* buf of read_requesthdrs
    size,     \* filesize of serve_static
    out,      \* what the current function has yet to write
    then,     \* where it goes on after that
    child,    \* the child process
    served,   \* connections the server has closed
    heard,    \* what was written to each connection
    pc        \* the server

clientVars == <<sent, gone>>
requestVars == <<at, uri, line, size, out, then>>
vars == <<clientVars, queue, serving, requestVars, child, served, heard, pc>>

Init ==
    /\ sent = [c \in Conn |-> <<>>]
    /\ gone = {}
    /\ queue = <<>>
    /\ serving = Nobody
    /\ at = 0
    /\ uri = NoWord
    /\ line = Blank
    /\ size = 0
    /\ out = <<>>
    /\ then = "close"
    /\ child = "none"
    /\ served = {}
    /\ heard = [c \in Conn |-> <<>>]
    /\ pc = "listen"

-----------------------------------------------------------------------------
(* Clients. *)

Queued(c) == \E k \in DOMAIN queue : queue[k] = c
Connected(c) == Queued(c) \/ serving = c

Connect(c) ==
    /\ pc \notin {"listen", "ended"}
    /\ ~Connected(c) /\ c \notin served
    /\ queue' = Append(queue, c)
    /\ UNCHANGED <<clientVars, serving, requestVars, child, served, heard, pc>>

\* A request line, then header lines, then the blank one.
Send(c) ==
    /\ Connected(c) /\ c \notin gone
    /\ \E l \in IF sent[c] = <<>> THEN Requests ELSE {Header, Blank} :
          /\ sent[c] # <<>> => sent[c][Len(sent[c])] # Blank
          /\ Len(sent[c]) + 1 < MaxLines \/ l = Blank
          /\ sent' = [sent EXCEPT ![c] = Append(@, l)]
    /\ UNCHANGED <<gone, queue, serving, requestVars, child, served, heard, pc>>

Leave(c) ==
    /\ Connected(c) /\ c \notin gone
    /\ gone' = gone \cup {c}
    /\ UNCHANGED <<sent, queue, serving, requestVars, child, served, heard, pc>>

-----------------------------------------------------------------------------
(* main *)

\* doit has returned, or the process has ended: its locals are gone.
Forget ==
    /\ at' = 0
    /\ uri' = NoWord
    /\ line' = Blank
    /\ size' = 0
    /\ out' = <<>>
    /\ then' = "close"

\* exit, or the signal of a write to a closed connection.
Exit ==
    /\ pc' = "ended"
    /\ queue' = <<>>
    /\ serving' = Nobody
    /\ child' = "none"
    /\ Forget
    /\ UNCHANGED <<clientVars, served, heard>>

Listen ==
    /\ pc = "listen"
    /\ pc' = "accept"
    /\ UNCHANGED <<clientVars, queue, serving, requestVars, child, served, heard>>

ListenError == pc = "listen" /\ Exit

Accept ==
    /\ pc = "accept" /\ queue # <<>>
    /\ serving' = Head(queue)
    /\ queue' = Tail(queue)
    /\ pc' = "name"
    /\ UNCHANGED <<clientVars, requestVars, child, served, heard>>

AcceptError == pc = "accept" /\ queue # <<>> /\ Exit

Getnameinfo ==
    /\ pc = "name"
    /\ pc' = "request"
    /\ UNCHANGED <<clientVars, queue, serving, requestVars, child, served, heard>>

GetnameinfoError == pc = "name" /\ Exit

Close ==
    /\ pc = "close"
    /\ served' = served \cup {serving}
    /\ serving' = Nobody
    /\ pc' = "accept"
    /\ Forget
    /\ UNCHANGED <<clientVars, queue, child, heard>>

CloseError == pc = "close" /\ Exit

-----------------------------------------------------------------------------
(* Reading the request. *)

Arrived == at < Len(sent[serving])
NextLine == sent[serving][at + 1]
AtEnd == ~Arrived /\ serving \in gone

\* The answer is to be written, then the server goes on at pc next.
Reply(items, next) ==
    /\ out' = items
    /\ then' = next
    /\ pc' = "write"

\* clienterror
ErrorPage(code) == << <<"status", code>>, <<"type">>, <<"page">> >>
ClientError(code) == Reply(ErrorPage(code), "close")

\* What an array of doit holds after sscanf: a word the line does not have leaves it
\* uninitialised.
Scanned(word, texts) == IF word = NoWord THEN texts ELSE {word}

\* The request line.  The buffer of read_requesthdrs is not initialised either.
ReadRequest ==
    /\ pc = "request" /\ Arrived
    /\ at' = at + 1
    /\ \E method \in Scanned(NextLine.method, Methods) :
          \/ /\ method # "GET"
             /\ ClientError(501)
             /\ UNCHANGED <<uri, line>>
          \/ /\ method = "GET"
             /\ uri' \in Scanned(NextLine.uri, Uris)
             /\ line' \in {Header, Blank}
             /\ pc' = "headers"
             /\ UNCHANGED <<out, then>>
    /\ UNCHANGED <<clientVars, queue, serving, size, child, served, heard>>

\* Fault: back to accept without closing the connection.
FaultReadNothing ==
    /\ pc = "request" /\ AtEnd
    /\ pc' = "accept"
    /\ UNCHANGED <<clientVars, queue, serving, requestVars, child, served, heard>>

ReadNothing ==
    /\ pc = "request" /\ AtEnd
    /\ pc' = "close"
    /\ UNCHANGED <<clientVars, queue, serving, requestVars, child, served, heard>>

ReadError == pc \in {"request", "headers"} /\ AtEnd /\ Exit

\* Fault: the line read before is read again.
FaultReadHeader ==
    /\ pc = "headers" /\ Arrived
    /\ at' = at + 1
    /\ line' = sent[serving][at]
    /\ pc' = IF NextLine = Blank THEN "stat" ELSE "headers"
    /\ UNCHANGED <<clientVars, queue, serving, uri, size, out, then, child, served, heard>>

\* Fault: the blank line is not recognised.
FaultBlankLine ==
    /\ pc = "headers" /\ Arrived
    /\ at' = at + 1
    /\ line' = NextLine
    /\ UNCHANGED <<clientVars, queue, serving, uri, size, out, then, child, served, heard, pc>>

ReadHeader ==
    /\ pc = "headers" /\ Arrived
    /\ at' = at + 1
    /\ line' = NextLine
    /\ pc' = IF NextLine = Blank THEN "stat" ELSE "headers"
    /\ UNCHANGED <<clientVars, queue, serving, uri, size, out, then, child, served, heard>>

\* At the end of the file Rio_readlineb leaves the buffer as it is and the loop goes
\* on for ever, unless the buffer happened to hold the blank line from the start.
HeadersEnd ==
    /\ pc = "headers" /\ AtEnd /\ line = Blank
    /\ pc' = "stat"
    /\ UNCHANGED <<clientVars, queue, serving, requestVars, child, served, heard>>

-----------------------------------------------------------------------------
(* Answering it. *)

StaticHead(n) ==
    << <<"status", 200>>, <<"server">>, <<"length", n>>, <<"type">> >>
DynamicHead == << <<"status", 200>>, <<"server">> >>

\* Fault: parse_uri does not look for "cgi-bin".
FaultStat ==
    /\ pc = "stat"
    /\ \/ ClientError(404) /\ UNCHANGED size
       \/ ClientError(403) /\ UNCHANGED size
       \/ \E n \in 0 .. MaxSize : size' = n /\ Reply(StaticHead(n), "open")
    /\ UNCHANGED <<clientVars, queue, serving, at, uri, line, child, served, heard>>

\* There is no such file, or it is not a regular one that its owner may use, or it is.
Stat ==
    /\ pc = "stat"
    /\ \/ ClientError(404) /\ UNCHANGED size
       \/ ClientError(403) /\ UNCHANGED size
       \/ /\ uri.path \in Pages
          /\ \E n \in 0 .. MaxSize : size' = n /\ Reply(StaticHead(n), "open")
       \/ /\ uri.path \in Programs
          /\ Reply(DynamicHead, "fork")
          /\ UNCHANGED size
    /\ UNCHANGED <<clientVars, queue, serving, at, uri, line, child, served, heard>>

\* What is written to a client that has left is lost.
Say(item) ==
    IF serving \in gone THEN UNCHANGED heard
    ELSE heard' = [heard EXCEPT ![serving] = Append(@, item)]

Write ==
    /\ pc = "write"
    /\ Say(Head(out))
    /\ out' = Tail(out)
    /\ pc' = IF Tail(out) = <<>> THEN then ELSE "write"
    /\ UNCHANGED <<clientVars, queue, serving, at, uri, line, size, then, child, served>>

WriteError == pc = "write" /\ serving \in gone /\ Exit

(* serve_static: the file, then the body. *)

Open ==
    /\ pc = "open"
    /\ pc' = "mmap"
    /\ UNCHANGED <<clientVars, queue, serving, requestVars, child, served, heard>>

OpenError == pc = "open" /\ Exit

\* No length of zero is mapped.
Mmap ==
    /\ pc = "mmap" /\ size > 0
    /\ pc' = "body"
    /\ UNCHANGED <<clientVars, queue, serving, requestVars, child, served, heard>>

MmapError == pc = "mmap" /\ Exit

\* As many bytes as stat has seen.
Body ==
    /\ pc = "body"
    /\ Say(<<"body", size>>)
    /\ pc' = "close"
    /\ UNCHANGED <<clientVars, queue, serving, requestVars, child, served>>

\* The client has left, or the file has become shorter.
BodyError == pc = "body" /\ Exit

(* serve_dynamic: the parent and its child. *)

\* Fault: the parent does not wait.
FaultFork ==
    /\ pc = "fork"
    /\ child' = "forked"
    /\ pc' = "close"
    /\ UNCHANGED <<clientVars, queue, serving, requestVars, served, heard>>

Fork ==
    /\ pc = "fork"
    /\ child' = "forked"
    /\ pc' = "wait"
    /\ UNCHANGED <<clientVars, queue, serving, requestVars, served, heard>>

ForkError == pc = "fork" /\ Exit

\* What the child does changes nothing of the server's.
ChildStep(from, to) ==
    /\ child = from
    /\ child' = to
    /\ UNCHANGED <<clientVars, queue, serving, requestVars, served, pc>>

Dup2 == ChildStep("forked", "exec") /\ UNCHANGED heard

Dup2Error == ChildStep("forked", "zombie") /\ UNCHANGED heard

Execve == ChildStep("exec", "running") /\ UNCHANGED heard

\* No program is found.  exit flushes what printf has buffered in the parent, and
\* that to the client.
ExecveError ==
    /\ ChildStep("exec", "zombie")
    /\ UNCHANGED heard \/ Say(<<"log">>)

\* cgi-bin/adder: its output is one write; without a "&" it dereferences NULL.
Adder ==
    /\ ChildStep("running", "zombie")
    /\ IF uri.pair THEN Say(<<"output">>) ELSE UNCHANGED heard

Wait ==
    /\ pc = "wait" /\ child = "zombie"
    /\ child' = "none"
    /\ pc' = "close"
    /\ UNCHANGED <<clientVars, queue, serving, requestVars, served, heard>>

-----------------------------------------------------------------------------
Child == Dup2 \/ Dup2Error \/ Execve \/ ExecveError \/ Adder

\* The steps of the server and its child; an accept that fails is not due.
Serve ==
    \/ Listen \/ Accept \/ Getnameinfo \/ Close
    \/ ReadRequest \/ ReadNothing \/ ReadHeader \/ HeadersEnd
    \/ Stat \/ Write \/ Open \/ Mmap \/ MmapError \/ Body
    \/ Fork \/ Wait \/ Child

Error ==
    \/ ListenError \/ AcceptError \/ GetnameinfoError \/ CloseError
    \/ ReadError \/ WriteError \/ OpenError \/ BodyError \/ ForkError

Next ==
    \/ Serve \/ Error
    \/ \E c \in Conn : Connect(c) \/ Send(c) \/ Leave(c)

Spec == Init /\ [][Next]_vars

\* The server runs, and a client that stays sends its request.
FairSpec == Spec /\ WF_vars(Serve) /\ \A c \in Conn : WF_vars(Send(c))

-----------------------------------------------------------------------------
(* Properties. *)

Lines == Requests \cup {Header, Blank}

TypeOK ==
    /\ sent \in [Conn -> Seq(Lines)]
    /\ gone \subseteq Conn
    /\ queue \in Seq(Conn)
    /\ serving \in Conn \cup {Nobody}
    /\ at \in Nat
    /\ uri \in Uris \cup {NoWord}
    /\ line \in {Header, Blank}
    /\ size \in 0 .. MaxSize
    /\ out \in Seq(Item)
    /\ then \in {"open", "fork", "close"}
    /\ child \in {"none", "forked", "exec", "running", "zombie"}
    /\ served \subseteq Conn
    /\ heard \in [Conn -> Seq(Item)]
    /\ pc \in {"listen", "accept", "name", "request", "headers", "stat", "write", "open",
               "mmap", "body", "fork", "wait", "close", "ended"}

\* A child lives only while the server waits for it and holds its client's socket:
\* none is left as a zombie, none writes into the answer of the next client.
ChildReaped ==
    child # "none" => pc = "wait" /\ serving # Nobody

\* What a client with a method and a URI may have heard when the server closes its
\* connection.
ErrorPages == {ErrorPage(code) : code \in {403, 404}}
CompletePages == {Append(StaticHead(n), <<"body", n>>) : n \in 1 .. MaxSize}
CgiAnswers(u) ==
    {DynamicHead, Append(DynamicHead, <<"log">>)}
        \cup (IF u.pair THEN {Append(DynamicHead, <<"output">>)} ELSE {})

Answers(r) ==
    IF r.method # "GET" THEN {ErrorPage(501)}
    ELSE ErrorPages \cup (IF r.uri.path \in Pages THEN CompletePages ELSE CgiAnswers(r.uri))

\* h answers the request of c, if that has its words.
Complete(c, h) ==
    LET r == sent[c][1]
    IN  r.method # NoWord /\ (r.method = "GET" => r.uri # NoWord) => h \in Answers(r)

\* A client that stays until its connection is closed has heard one answer, to its
\* own request, and of a page as many bytes as its header announced, whatever
\* happened to the file after stat.
OwnAnswerComplete == \A c \in served \ gone : Complete(c, heard[c])

Server == INSTANCE IterativeServer WITH Answer <- Item, up <- pc # "ended"

\* Tiny serves its clients in turn and one at a time, the output of the CGI programs
\* included.
ServerSpec == Server!Spec

\* The loop that reads the headers has met the end of the file.
Spins == pc = "headers" /\ AtEnd /\ line # Blank

\* Everyone who connects is served, unless the server has ended or spins on a client
\* that left before its blank line.
EachServed == \A c \in Conn : Queued(c) ~> (c \in served \/ pc = "ended" \/ Spins)
=============================================================================
