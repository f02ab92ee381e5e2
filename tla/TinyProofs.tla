----------------------------- MODULE TinyProofs -----------------------------
(***************************************************************************)
(* Theorems about Tiny, for any number of clients, any requests and files  *)
(* of any size: every CGI child is reaped before the next client is        *)
(* accepted, a client that stays hears one complete answer to its own      *)
(* request, and the server is an iterative one.                            *)
(***************************************************************************)
EXTENDS Tiny, QueueLemmas, TLAPS

\* Between accept and close there is a client, and it was not served before.
Busy == {"name", "request", "headers", "stat", "write", "open", "mmap", "body", "fork",
         "wait", "close"}

InTurn ==
    /\ pc \in Busy <=> serving \in Conn
    /\ serving \notin served
    /\ \A k \in DOMAIN queue : queue[k] # serving /\ queue[k] \notin served
    /\ \A k, l \in DOMAIN queue : queue[k] = queue[l] => k = l

\* A request line, then headers.
Framed ==
    \A c \in Conn : \A k \in DOMAIN sent[c] :
        sent[c][k] \in IF k = 1 THEN Requests ELSE {Header, Blank}

\* How far the request was read.
Read ==
    /\ pc \in {"listen", "accept", "name", "request"} => at = 0
    /\ pc = "headers" => at >= 1

\* From the headers on, method and URI are those the client has sent.
Asking == {"headers", "stat", "open", "mmap", "body", "fork", "wait"}
Asked ==
    pc \in Asking \/ (pc = "write" /\ then # "close") =>
        /\ sent[serving] # <<>>
        /\ sent[serving][1].method # NoWord => sent[serving][1].method = "GET"
        /\ sent[serving][1].uri # NoWord => uri = sent[serving][1].uri

\* What is served, and how.
Stage ==
    /\ pc \in {"open", "mmap", "body"} \/ (pc = "write" /\ then = "open")
          => uri.path \in Pages
    /\ pc \in {"fork", "wait"} \/ (pc = "write" /\ then = "fork")
          => uri.path \in Programs
    /\ pc = "body" => size > 0
    /\ pc = "write" => out # <<>>
    /\ child # "none" <=> pc = "wait"

\* What the client being served has heard, if it is still there.
SoFar ==
    serving \in Conn \ gone =>
        LET h == heard[serving]
        IN  /\ pc \in {"name", "request", "headers", "stat"} => h = <<>>
            /\ pc \in {"write", "close"} => sent[serving] # <<>>
            /\ pc = "write" =>
                  /\ then = "close" => Complete(serving, h \o out)
                  /\ then = "open" => h \o out = StaticHead(size)
                  /\ then = "fork" => h \o out = DynamicHead
            /\ pc \in {"open", "mmap", "body"} => h = StaticHead(size)
            /\ pc = "fork" => h = DynamicHead
            /\ pc = "wait" =>
                  IF child = "zombie" THEN h \in CgiAnswers(uri) ELSE h = DynamicHead
            /\ pc = "close" => Complete(serving, h)

\* The others have heard nothing.
Silent ==
    \A c \in Conn : c = serving \/ c \in served \/ pc = "ended" \/ heard[c] = <<>>

IInv ==
    /\ TypeOK
    /\ InTurn
    /\ Framed
    /\ Read
    /\ Asked
    /\ Stage
    /\ SoFar
    /\ Silent
    /\ OwnAnswerComplete

-----------------------------------------------------------------------------
(* Answers. *)

\* What the server writes are sequences of items, and none of them is empty.
LEMMA Texts ==
    /\ \A code \in {403, 404, 501} :
          ErrorPage(code) \in Seq(Item) /\ ErrorPage(code) # <<>>
    /\ \A n \in 0 .. MaxSize : StaticHead(n) \in Seq(Item) /\ StaticHead(n) # <<>>
    /\ DynamicHead \in Seq(Item) /\ DynamicHead # <<>>
<1> USE DEF Item
<1>1. ASSUME NEW code \in {403, 404, 501}
      PROVE  ErrorPage(code) \in Seq(Item) /\ ErrorPage(code) # <<>>
  BY <1>1 DEF ErrorPage
<1>2. ASSUME NEW n \in 0 .. MaxSize
      PROVE  StaticHead(n) \in Seq(Item) /\ StaticHead(n) # <<>>
  BY <1>2 DEF StaticHead
<1>3. DynamicHead \in Seq(Item) /\ DynamicHead # <<>>
  BY DEF DynamicHead
<1>4. QED
  BY <1>1, <1>2, <1>3

\* An error page before the headers are read is the answer to another method than
\* GET, and any other error page an answer to GET.
LEMMA ErrorCompletes ==
    ASSUME NEW c \in Conn, NEW code \in {403, 404, 501},
           sent[c][1].method # NoWord =>
              (sent[c][1].method = "GET" <=> code # 501)
    PROVE  Complete(c, ErrorPage(code))
  BY DEF Complete, Answers, ErrorPages

\* Writing the first item of what is left changes nothing of the whole.
LEMMA OneMore ==
    ASSUME NEW h \in Seq(Item), NEW o \in Seq(Item), o # <<>>
    PROVE  /\ Append(h, Head(o)) \in Seq(Item)
           /\ Tail(o) \in Seq(Item)
           /\ Append(h, Head(o)) \o Tail(o) = h \o o
           /\ Tail(o) = <<>> => Append(h, Head(o)) = h \o o
<1>1. /\ Head(o) \in Item /\ Head(o) = o[1]
      /\ Tail(o) \in Seq(Item)
      /\ Len(Tail(o)) = Len(o) - 1
      /\ \A i \in 1 .. Len(Tail(o)) : Tail(o)[i] = o[i + 1]
  BY HeadTailProperties
<1>2. /\ Append(h, Head(o)) \in Seq(Item)
      /\ Len(Append(h, Head(o))) = Len(h) + 1
      /\ \A i \in 1 .. Len(h) : Append(h, Head(o))[i] = h[i]
      /\ Append(h, Head(o))[Len(h) + 1] = Head(o)
  BY <1>1, AppendProperties
<1>3. Len(h) \in Nat /\ Len(o) \in Nat /\ Len(o) > 0 /\ Len(Tail(o)) \in Nat
  BY <1>1, LenProperties, EmptySeq
<1> DEFINE a == Append(h, Head(o))
           s == a \o Tail(o)
           t == h \o o
<1>4. /\ s \in Seq(Item) /\ Len(s) = Len(a) + Len(Tail(o))
      /\ \A i \in 1 .. Len(a) + Len(Tail(o)) :
            s[i] = IF i <= Len(a) THEN a[i] ELSE Tail(o)[i - Len(a)]
  BY <1>1, <1>2, ConcatProperties
<1>5. /\ t \in Seq(Item) /\ Len(t) = Len(h) + Len(o)
      /\ \A i \in 1 .. Len(h) + Len(o) :
            t[i] = IF i <= Len(h) THEN h[i] ELSE o[i - Len(h)]
  BY ConcatProperties
<1> HIDE DEF s, t
<1>6. Len(s) = Len(t)
  BY <1>1, <1>2, <1>3, <1>4, <1>5
<1>7. ASSUME NEW i \in 1 .. Len(s) PROVE s[i] = t[i]
  <2>0. i \in Nat /\ i >= 1 /\ i <= Len(h) + Len(o) /\ Len(a) = Len(h) + 1
    BY <1>1, <1>2, <1>3, <1>4
  <2>1. CASE i <= Len(h)
    BY <2>0, <2>1, <1>2, <1>3, <1>4, <1>5, <1>6
  <2>2. CASE i = Len(h) + 1
    <3>1. s[i] = a[Len(h) + 1]
      BY <2>0, <2>2, <1>4, <1>6, <1>3
    <3>2. t[i] = o[1]
      BY <2>0, <2>2, <1>5, <1>6, <1>3
    <3>3. QED
      BY <3>1, <3>2, <1>1, <1>2
  <2>3. CASE i > Len(h) + 1
    <3>1. s[i] = Tail(o)[i - (Len(h) + 1)]
      BY <2>0, <2>3, <1>4, <1>6, <1>3
    <3>2. t[i] = o[i - Len(h)]
      BY <2>0, <2>3, <1>5, <1>6, <1>3
    <3>3. i - (Len(h) + 1) \in 1 .. Len(Tail(o))
      BY <2>0, <2>3, <1>1, <1>3
    <3>4. Tail(o)[i - (Len(h) + 1)] = o[(i - (Len(h) + 1)) + 1]
      BY <3>3, <1>1
    <3>5. (i - (Len(h) + 1)) + 1 = i - Len(h)
      BY <2>0, <1>3
    <3>6. QED
      BY <3>1, <3>2, <3>4, <3>5
  <2>4. QED
    BY <2>0, <2>1, <2>2, <2>3, <1>3
<1>8. s = t
  BY <1>4, <1>5, <1>6, <1>7, SeqEqual
<1>9. Tail(o) = <<>> => s = a
  BY <1>2, <1>4, ConcatEmptySeq DEF s
<1>10. QED
  BY <1>1, <1>2, <1>8, <1>9 DEF s, t

-----------------------------------------------------------------------------
(* The invariant is inductive. *)

\* An empty sequence has no index.
LEMMA NoIndex == \A k \in DOMAIN <<>> : FALSE
<1>1. <<>> \in Seq({}) /\ Len(<<>>) = 0
  BY EmptySeq
<1>2. DOMAIN <<>> = 1 .. 0
  BY <1>1, LenProperties
<1>3. ASSUME NEW k \in Int, 1 <= k, k <= 0 PROVE FALSE
  BY <1>3
<1>4. QED
  BY <1>2, <1>3

\* The initial states satisfy the invariant.
LEMMA InitIInv == Init => IInv
<1> SUFFICES ASSUME Init PROVE IInv
  OBVIOUS
<1> USE TinyAssumption DEF Init
<1>1. /\ \A S : <<>> \in Seq(S)
      /\ \A k \in DOMAIN <<>> : FALSE
  BY EmptySeq, NoIndex
<1>2. TypeOK
  BY <1>1 DEF TypeOK
<1>3. InTurn
  <2>1. pc \notin Busy /\ serving \notin Conn
    BY DEF Busy
  <2>2. \A k \in DOMAIN queue : FALSE
    BY <1>1
  <2>3. QED
    BY <2>1, <2>2 DEF InTurn
<1>4. Framed
  <2>1. \A c \in Conn : sent[c] = <<>>
    OBVIOUS
  <2>2. QED
    BY <2>1, <1>1 DEF Framed
<1>5. QED
  BY <1>2, <1>3, <1>4
     DEF IInv, Read, Asked, Asking, Stage, SoFar, Silent, OwnAnswerComplete

\* A new connection.
LEMMA ConnectIInv == ASSUME NEW c \in Conn PROVE IInv /\ Connect(c) => IInv'
<1> SUFFICES ASSUME IInv, Connect(c) PROVE IInv'
  OBVIOUS
<1> USE TinyAssumption DEF Connect, clientVars, requestVars
<1>1. /\ queue \in Seq(Conn) /\ serving # c /\ c \notin served
      /\ \A k \in DOMAIN queue : queue[k] # c
  BY DEF IInv, TypeOK, Connected, Queued
<1>2. /\ queue' \in Seq(Conn)
      /\ \A k, l \in DOMAIN queue' : queue'[k] = queue'[l] => k = l
      /\ \A k \in DOMAIN queue' :
            queue'[k] = c \/ \E l \in DOMAIN queue : queue'[k] = queue[l]
  BY <1>1, Joins DEF IInv, InTurn
<1>3. TypeOK'
  BY <1>2 DEF IInv, TypeOK
<1>4. InTurn'
  BY <1>1, <1>2 DEF IInv, InTurn
<1>5. Framed' /\ Read' /\ Asked' /\ Stage' /\ Silent'
  BY DEF IInv, Framed, Read, Asked, Stage, Silent
<1>6. SoFar' /\ OwnAnswerComplete'
  BY DEF IInv, SoFar, OwnAnswerComplete, Complete
<1>7. QED
  BY <1>3, <1>4, <1>5, <1>6 DEF IInv

\* A line from a client: what it has asked for stays the same.
LEMMA SendIInv == ASSUME NEW c \in Conn PROVE IInv /\ Send(c) => IInv'
<1> SUFFICES ASSUME IInv, Send(c) PROVE IInv'
  OBVIOUS
<1> USE TinyAssumption DEF clientVars, requestVars
<1>1. PICK l \in IF sent[c] = <<>> THEN Requests ELSE {Header, Blank} :
          sent' = [sent EXCEPT ![c] = Append(@, l)]
  BY DEF Send
<1>2. /\ UNCHANGED <<gone, queue, serving, requestVars, child, served, heard, pc>>
      /\ Connected(c) /\ c \notin gone
      /\ sent \in [Conn -> Seq(Lines)]
  BY DEF Send, IInv, TypeOK
<1>3. sent[c] \in Seq(Lines) /\ l \in Lines
  BY <1>1, <1>2 DEF Lines
<1>4. /\ Append(sent[c], l) \in Seq(Lines)
      /\ Append(sent[c], l) # <<>>
      /\ Len(Append(sent[c], l)) = Len(sent[c]) + 1
      /\ \A k \in 1 .. Len(sent[c]) : Append(sent[c], l)[k] = sent[c][k]
      /\ Append(sent[c], l)[Len(sent[c]) + 1] = l
  BY <1>3, AppendProperties
<1>5. /\ sent' \in [Conn -> Seq(Lines)]
      /\ sent'[c] = Append(sent[c], l)
      /\ \A d \in Conn : d # c => sent'[d] = sent[d]
  BY <1>1, <1>2, <1>4
<1>6. /\ DOMAIN sent[c] = 1 .. Len(sent[c]) /\ Len(sent[c]) \in Nat
      /\ DOMAIN sent'[c] = 1 .. Len(sent[c]) + 1
      /\ sent[c] # <<>> => Len(sent[c]) >= 1
      /\ sent[c] = <<>> => Len(sent[c]) = 0
  BY <1>3, <1>4, <1>5, LenProperties, EmptySeq
<1>7. \A d \in Conn : sent[d] # <<>> => sent'[d] # <<>> /\ sent'[d][1] = sent[d][1]
  BY <1>4, <1>5, <1>6
<1>8. TypeOK'
  BY <1>2, <1>5 DEF IInv, TypeOK
<1>9. Framed'
  <2>1. ASSUME NEW k \in DOMAIN sent'[c]
        PROVE  sent'[c][k] \in IF k = 1 THEN Requests ELSE {Header, Blank}
    <3>1. CASE k \in DOMAIN sent[c]
      <4>1. sent'[c][k] = sent[c][k]
        BY <3>1, <1>4, <1>5, <1>6
      <4>2. QED
        BY <3>1, <4>1 DEF IInv, Framed
    <3>2. CASE k = Len(sent[c]) + 1
      <4>1. sent'[c][k] = l
        BY <3>2, <1>4, <1>5
      <4>2. k = 1 <=> sent[c] = <<>>
        BY <3>2, <1>6
      <4>3. QED
        BY <1>1, <4>1, <4>2
    <3>3. QED
      BY <2>1, <3>1, <3>2, <1>6
  <2>2. QED
    BY <2>1, <1>5 DEF IInv, Framed
<1>10. c \notin served
  BY <1>2 DEF Connected, Queued, IInv, InTurn
<1>11. \A d \in served \ gone : d \in Conn /\ sent'[d] = sent[d]
  BY <1>2, <1>5, <1>10 DEF IInv, TypeOK
<1>12. OwnAnswerComplete'
  BY <1>2, <1>11 DEF IInv, OwnAnswerComplete, Complete
<1>13. pc \in Busy => serving \in Conn
  BY DEF IInv, InTurn
<1>14. Asked'
  BY <1>2, <1>7, <1>13 DEF IInv, Asked, Asking, Busy
<1>15. SoFar'
  BY <1>2, <1>7 DEF IInv, SoFar, Complete
<1>16. InTurn' /\ Read' /\ Stage' /\ Silent'
  BY <1>2 DEF IInv, InTurn, Read, Stage, Silent
<1>17. QED
  BY <1>8, <1>9, <1>12, <1>14, <1>15, <1>16 DEF IInv

\* A client closes its end.
LEMMA LeaveIInv == ASSUME NEW c \in Conn PROVE IInv /\ Leave(c) => IInv'
<1> SUFFICES ASSUME IInv, Leave(c) PROVE IInv'
  OBVIOUS
<1> USE DEF Leave, requestVars
<1>1. TypeOK' /\ InTurn' /\ Framed' /\ Read' /\ Asked' /\ Stage' /\ Silent'
  BY DEF IInv, TypeOK, InTurn, Framed, Read, Asked, Stage, Silent
<1>2. SoFar' /\ OwnAnswerComplete'
  BY DEF IInv, SoFar, OwnAnswerComplete, Complete
<1>3. QED
  BY <1>1, <1>2 DEF IInv

\* The end of the program.
LEMMA ExitIInv == IInv /\ Exit => IInv'
<1> SUFFICES ASSUME IInv, Exit PROVE IInv'
  OBVIOUS
<1> USE TinyAssumption DEF Exit, Forget, clientVars
<1>1. <<>> \in Seq(Conn) /\ <<>> \in Seq(Item) /\ \A k \in DOMAIN <<>> : FALSE
  <2>1. \A S : <<>> \in Seq(S)
    BY EmptySeq
  <2>2. \A k \in DOMAIN <<>> : FALSE
    BY NoIndex
  <2>3. QED
    BY <2>1, <2>2
<1>2. TypeOK'
  BY <1>1 DEF IInv, TypeOK
<1>3. InTurn'
  BY <1>1 DEF IInv, TypeOK, InTurn, Busy
<1>4. Framed' /\ Read' /\ Asked' /\ Stage' /\ SoFar' /\ Silent'
  BY DEF IInv, Framed, Read, Asked, Asking, Stage, SoFar, Silent
<1>5. OwnAnswerComplete'
  BY DEF IInv, OwnAnswerComplete, Complete
<1>6. QED
  BY <1>2, <1>3, <1>4, <1>5 DEF IInv

\* The next connection.
LEMMA AcceptIInv == IInv /\ Accept => IInv'
<1> SUFFICES ASSUME IInv, Accept PROVE IInv'
  OBVIOUS
<1> USE TinyAssumption DEF Accept, clientVars, requestVars
<1>1. /\ Tail(queue) \in Seq(Conn)
      /\ Head(queue) = queue[1] /\ 1 \in DOMAIN queue
      /\ \A k, l \in DOMAIN Tail(queue) : Tail(queue)[k] = Tail(queue)[l] => k = l
      /\ \A k \in DOMAIN Tail(queue) :
            /\ Tail(queue)[k] # Head(queue)
            /\ \E l \in DOMAIN queue : Tail(queue)[k] = queue[l]
  BY LeavesQueue DEF IInv, TypeOK, InTurn
<1>2. Head(queue) \in Conn
  BY HeadTailProperties DEF IInv, TypeOK
<1>3. Head(queue) \notin served /\ Head(queue) # serving
  BY <1>1 DEF IInv, InTurn
<1>4. heard[Head(queue)] = <<>> /\ serving \notin Conn /\ at = 0
  BY <1>2, <1>3 DEF IInv, Silent, InTurn, Busy, Read
<1>5. TypeOK'
  BY <1>1, <1>2 DEF IInv, TypeOK
<1>6. InTurn'
  BY <1>1, <1>2, <1>3 DEF IInv, InTurn, Busy
<1>7. Framed' /\ Read' /\ Asked' /\ Stage'
  BY <1>4 DEF IInv, Framed, Read, Asked, Asking, Stage
<1>8. SoFar'
  BY <1>2, <1>4 DEF SoFar
<1>9. Silent'
  BY <1>4 DEF IInv, Silent
<1>10. OwnAnswerComplete'
  BY DEF IInv, OwnAnswerComplete, Complete
<1>11. QED
  BY <1>5, <1>6, <1>7, <1>8, <1>9, <1>10 DEF IInv

\* The connection of the client that is served is closed.
LEMMA CloseIInv == IInv /\ Close => IInv'
<1> SUFFICES ASSUME IInv, Close PROVE IInv'
  OBVIOUS
<1> USE TinyAssumption DEF Close, Forget, clientVars
<1>1. serving \in Conn /\ serving \notin served /\ child = "none"
  BY DEF IInv, InTurn, Busy, Stage
<1>2. TypeOK'
  BY <1>1, EmptySeq DEF IInv, TypeOK
<1>3. InTurn'
  <2>1. \A k \in DOMAIN queue : queue[k] # serving /\ queue[k] \in Conn
    BY HeadTailProperties DEF IInv, InTurn, TypeOK
  <2>2. QED
    BY <1>1, <2>1 DEF IInv, InTurn, Busy, TypeOK
<1>4. Framed' /\ Read' /\ Asked' /\ Stage' /\ SoFar' /\ Silent'
  BY <1>1 DEF IInv, Framed, Read, Asked, Asking, Stage, SoFar, Silent
<1>5. OwnAnswerComplete'
  <2>1. serving \notin gone => Complete(serving, heard[serving])
    BY <1>1 DEF IInv, SoFar
  <2>2. QED
    BY <2>1 DEF IInv, OwnAnswerComplete, Complete
<1>6. QED
  BY <1>2, <1>3, <1>4, <1>5 DEF IInv

\* A step between accept and close touches nobody but the client being served.
LEMMA WithinIInv ==
    ASSUME IInv, pc \in Busy, pc' \in Busy,
           UNCHANGED <<clientVars, queue, serving, served>>,
           \A c \in Conn : c # serving => heard'[c] = heard[c]
    PROVE  InTurn' /\ Framed' /\ Silent' /\ OwnAnswerComplete'
<1> USE DEF clientVars
<1>1. InTurn' /\ Framed'
  BY DEF IInv, InTurn, Framed
<1>2. pc # "ended" /\ pc' # "ended"
  BY DEF Busy
<1>3. Silent'
  BY <1>2 DEF IInv, Silent
<1>4. \A c \in served \ gone : c \in Conn /\ c # serving
  BY DEF IInv, InTurn, TypeOK
<1>5. OwnAnswerComplete'
  BY <1>4 DEF IInv, OwnAnswerComplete, Complete
<1>6. QED
  BY <1>1, <1>3, <1>5

\* The name of the client.
LEMMA GetnameinfoIInv == IInv /\ Getnameinfo => IInv'
<1> SUFFICES ASSUME IInv, Getnameinfo PROVE IInv'
  OBVIOUS
<1> USE DEF Getnameinfo, clientVars, requestVars
<1>1. InTurn' /\ Framed' /\ Silent' /\ OwnAnswerComplete'
  BY WithinIInv DEF Busy
<1>2. TypeOK' /\ Read' /\ Asked' /\ Stage' /\ SoFar'
  BY DEF IInv, TypeOK, Read, Asked, Asking, Stage, SoFar
<1>3. QED
  BY <1>1, <1>2 DEF IInv

\* The request line: an error page answers every method but GET, and what the rest
\* goes on with is what the line says.
LEMMA ReadRequestIInv == IInv /\ ReadRequest => IInv'
<1> SUFFICES ASSUME IInv, ReadRequest PROVE IInv'
  OBVIOUS
<1> USE TinyAssumption DEF ReadRequest, Arrived, NextLine, clientVars
<1> DEFINE s == sent[serving]
<1>1. serving \in Conn /\ s \in Seq(Lines) /\ at = 0 /\ 0 < Len(s)
  BY DEF IInv, InTurn, Busy, TypeOK, Read
<1>2. DOMAIN s = 1 .. Len(s) /\ Len(s) \in Nat
  BY <1>1, LenProperties
<1>3. s # <<>> /\ 1 \in DOMAIN s
  BY <1>1, <1>2, EmptySeq
<1>4. s[1] \in Requests
  BY <1>1, <1>3 DEF IInv, Framed
<1>5. PICK method \in Scanned(s[1].method, Methods) :
          \/ /\ method # "GET"
             /\ ClientError(501)
             /\ UNCHANGED <<uri, line>>
          \/ /\ method = "GET"
             /\ uri' \in Scanned(s[1].uri, Uris)
             /\ line' \in {Header, Blank}
             /\ pc' = "headers"
             /\ UNCHANGED <<out, then>>
  BY <1>1
<1>6. s[1].method # NoWord => method = s[1].method
  BY <1>5 DEF Scanned
<1>7. CASE method # "GET"
  <2>1. ClientError(501) /\ UNCHANGED <<uri, line>>
    BY <1>5, <1>7
  <2>2. /\ pc' = "write" /\ then' = "close" /\ out' = ErrorPage(501)
        /\ out' \in Seq(Item) /\ out' # <<>>
    BY <2>1, Texts DEF ClientError, Reply
  <2>3. TypeOK' /\ Read' /\ Asked' /\ Stage'
    BY <1>1, <2>1, <2>2 DEF IInv, TypeOK, Read, Asked, Asking, Stage
  <2>4. SoFar'
    <3>1. ASSUME serving \notin gone PROVE Complete(serving, heard[serving] \o out')
      <4>1. heard[serving] = <<>>
        BY <1>1, <3>1 DEF IInv, SoFar
      <4>2. <<>> \o out' = out'
        BY <2>2, ConcatEmptySeq
      <4>3. Complete(serving, ErrorPage(501))
        BY <1>1, <1>6, <1>7, ErrorCompletes
      <4>4. QED
        BY <2>2, <4>1, <4>2, <4>3
    <3>2. QED
      BY <1>3, <2>2, <3>1 DEF SoFar, Complete
  <2>5. InTurn' /\ Framed' /\ Silent' /\ OwnAnswerComplete'
    BY <2>2, WithinIInv DEF Busy
  <2>6. QED
    BY <2>3, <2>4, <2>5 DEF IInv
<1>8. CASE method = "GET"
  <2>1. /\ uri' \in Scanned(s[1].uri, Uris) /\ line' \in {Header, Blank}
        /\ pc' = "headers" /\ UNCHANGED <<out, then>>
    BY <1>5, <1>8
  <2>2. uri' \in Uris \cup {NoWord} /\ (s[1].uri # NoWord => uri' = s[1].uri)
    <3>1. s[1].uri \in Uris \cup {NoWord}
      BY <1>4
    <3>2. QED
      BY <2>1, <3>1 DEF Scanned
  <2>3. TypeOK' /\ Read' /\ Stage' /\ SoFar'
    BY <1>1, <2>1, <2>2 DEF IInv, TypeOK, Read, Stage, SoFar
  <2>4. Asked'
    BY <1>3, <1>6, <1>8, <2>1, <2>2 DEF Asked
  <2>5. InTurn' /\ Framed' /\ Silent' /\ OwnAnswerComplete'
    BY <2>1, WithinIInv DEF Busy
  <2>6. QED
    BY <2>3, <2>4, <2>5 DEF IInv
<1>9. QED
  BY <1>7, <1>8

\* The client has left without a request.
LEMMA ReadNothingIInv == IInv /\ ReadNothing => IInv'
<1> SUFFICES ASSUME IInv, ReadNothing PROVE IInv'
  OBVIOUS
<1> USE DEF ReadNothing, clientVars, requestVars
<1>1. InTurn' /\ Framed' /\ Silent' /\ OwnAnswerComplete'
  BY WithinIInv DEF Busy
<1>2. TypeOK' /\ Read' /\ Asked' /\ Stage' /\ SoFar'
  BY DEF IInv, TypeOK, Read, Asked, Asking, Stage, SoFar, AtEnd
<1>3. QED
  BY <1>1, <1>2 DEF IInv

\* A header.
LEMMA ReadHeaderIInv == IInv /\ ReadHeader => IInv'
<1> SUFFICES ASSUME IInv, ReadHeader PROVE IInv'
  OBVIOUS
<1> USE DEF ReadHeader, Arrived, NextLine, clientVars, requestVars
<1> DEFINE s == sent[serving]
<1>1. serving \in Conn /\ s \in Seq(Lines) /\ at \in Nat /\ at >= 1 /\ at < Len(s)
  BY DEF IInv, InTurn, Busy, TypeOK, Read
<1>2. DOMAIN s = 1 .. Len(s) /\ Len(s) \in Nat
  BY <1>1, LenProperties
<1>3. at + 1 \in DOMAIN s /\ at + 1 # 1
  BY <1>1, <1>2
<1>4. s[at + 1] \in {Header, Blank}
  BY <1>1, <1>3 DEF IInv, Framed
<1>5. pc' \in {"headers", "stat"} /\ line' \in {Header, Blank} /\ at' = at + 1
  BY <1>4
<1>6. InTurn' /\ Framed' /\ Silent' /\ OwnAnswerComplete'
  BY <1>5, WithinIInv DEF Busy
<1>7. TypeOK' /\ Read' /\ Asked' /\ Stage' /\ SoFar'
  BY <1>1, <1>5 DEF IInv, TypeOK, Read, Asked, Asking, Stage, SoFar
<1>8. QED
  BY <1>6, <1>7 DEF IInv

\* The end of the file in place of the blank line.
LEMMA HeadersEndIInv == IInv /\ HeadersEnd => IInv'
<1> SUFFICES ASSUME IInv, HeadersEnd PROVE IInv'
  OBVIOUS
<1> USE DEF HeadersEnd, clientVars, requestVars
<1>1. InTurn' /\ Framed' /\ Silent' /\ OwnAnswerComplete'
  BY WithinIInv DEF Busy
<1>2. TypeOK' /\ Read' /\ Asked' /\ Stage' /\ SoFar'
  BY DEF IInv, TypeOK, Read, Asked, Asking, Stage, SoFar
<1>3. QED
  BY <1>1, <1>2 DEF IInv

\* What follows the headers: an error page, the header of a page or that of a
\* program.
LEMMA StatIInv == IInv /\ Stat => IInv'
<1> SUFFICES ASSUME IInv, Stat PROVE IInv'
  OBVIOUS
<1> USE TinyAssumption DEF Stat, clientVars
<1>1. serving \in Conn /\ pc = "stat" /\ sent[serving] # <<>>
  BY DEF IInv, InTurn, Busy, Asked, Asking
<1>2. ASSUME pc' = "write",
             out' \in Seq(Item), out' # <<>>, then' \in {"open", "fork", "close"},
             size' \in 0 .. MaxSize,
             then' = "open" => uri.path \in Pages /\ out' = StaticHead(size'),
             then' = "fork" => uri.path \in Programs /\ out' = DynamicHead,
             then' = "close" => Complete(serving, out')
      PROVE  IInv'
  <2>1. InTurn' /\ Framed' /\ Silent' /\ OwnAnswerComplete'
    BY <1>2, WithinIInv DEF Busy
  <2>2. TypeOK' /\ Read' /\ Asked' /\ Stage'
    BY <1>2 DEF IInv, TypeOK, Read, Asked, Asking, Stage
  <2>3. SoFar'
    <3>1. ASSUME serving \notin gone PROVE heard[serving] \o out' = out'
      <4>1. heard[serving] = <<>>
        BY <1>1, <3>1 DEF IInv, SoFar
      <4>2. <<>> \o out' = out'
        BY <1>2, ConcatEmptySeq
      <4>3. QED
        BY <4>1, <4>2
    <3>2. QED
      BY <1>1, <1>2, <3>1 DEF SoFar, Complete
  <2>4. QED
    BY <2>1, <2>2, <2>3 DEF IInv
<1>3. ASSUME NEW code \in {403, 404}, ClientError(code), UNCHANGED size PROVE IInv'
  <2>1. Complete(serving, ErrorPage(code))
    BY <1>1, ErrorCompletes DEF IInv, Asked, Asking
  <2>2. size \in 0 .. MaxSize
    BY DEF IInv, TypeOK
  <2>3. QED
    BY <1>2, <1>3, <2>1, <2>2, Texts DEF ClientError, Reply
<1>4. ASSUME uri.path \in Pages, NEW n \in 0 .. MaxSize, size' = n,
             Reply(StaticHead(n), "open")
      PROVE  IInv'
  BY <1>2, <1>4, Texts DEF Reply
<1>5. ASSUME uri.path \in Programs, Reply(DynamicHead, "fork"), UNCHANGED size
      PROVE  IInv'
  BY <1>2, <1>5, Texts DEF Reply, IInv, TypeOK
<1>6. QED
  BY <1>3, <1>4, <1>5

\* What is written is heard by the client being served, if it is still there, and by
\* nobody else.
LEMMA SayHeard ==
    ASSUME TypeOK, serving \in Conn, NEW item \in Item, Say(item)
    PROVE  /\ heard' \in [Conn -> Seq(Item)]
           /\ \A c \in Conn : c # serving => heard'[c] = heard[c]
           /\ serving \notin gone => heard'[serving] = Append(heard[serving], item)
<1>1. heard \in [Conn -> Seq(Item)] /\ heard[serving] \in Seq(Item)
  BY DEF TypeOK
<1>2. Append(heard[serving], item) \in Seq(Item)
  BY <1>1, AppendProperties
<1>3. QED
  BY <1>1, <1>2 DEF Say

\* One item of an answer.
LEMMA WriteIInv == IInv /\ Write => IInv'
<1> SUFFICES ASSUME IInv, Write PROVE IInv'
  OBVIOUS
<1> USE DEF Write, clientVars
<1>1. /\ serving \in Conn /\ out \in Seq(Item) /\ out # <<>>
      /\ heard[serving] \in Seq(Item) /\ then \in {"open", "fork", "close"}
  BY DEF IInv, InTurn, Busy, TypeOK, Stage
<1>2. /\ Tail(out) \in Seq(Item)
      /\ Append(heard[serving], Head(out)) \o Tail(out) = heard[serving] \o out
      /\ Tail(out) = <<>> =>
            Append(heard[serving], Head(out)) = heard[serving] \o out
  BY <1>1, OneMore
<1>3. Head(out) \in Item
  BY <1>1, HeadTailProperties
<1>4. /\ heard' \in [Conn -> Seq(Item)]
      /\ \A c \in Conn : c # serving => heard'[c] = heard[c]
      /\ serving \notin gone => heard'[serving] = Append(heard[serving], Head(out))
  BY <1>1, <1>3, SayHeard DEF IInv
<1>5. /\ pc' \in {"write", "open", "fork", "close"}
      /\ pc' = "write" => Tail(out) # <<>>
      /\ pc' # "write" => pc' = then /\ Tail(out) = <<>>
  BY <1>1
<1>6. InTurn' /\ Framed' /\ Silent' /\ OwnAnswerComplete'
  BY <1>4, <1>5, WithinIInv DEF Busy
<1>7. TypeOK' /\ Read' /\ Asked' /\ Stage'
  BY <1>2, <1>4, <1>5 DEF IInv, TypeOK, Read, Asked, Asking, Stage
<1>8. SoFar'
  <2>1. ASSUME serving \notin gone
        PROVE  /\ heard'[serving] \o out' = heard[serving] \o out
               /\ pc' # "write" => heard'[serving] = heard[serving] \o out
    BY <1>2, <1>4, <1>5, <2>1
  <2>2. ASSUME serving \notin gone
        PROVE  /\ sent[serving] # <<>>
               /\ then = "close" => Complete(serving, heard[serving] \o out)
               /\ then = "open" => heard[serving] \o out = StaticHead(size)
               /\ then = "fork" => heard[serving] \o out = DynamicHead
    BY <1>1, <2>2 DEF IInv, SoFar
  <2>3. QED
    BY <1>5, <2>1, <2>2 DEF SoFar, Complete
<1>9. QED
  BY <1>6, <1>7, <1>8 DEF IInv

\* The file is opened and mapped.
LEMMA OpenIInv == IInv /\ (Open \/ Mmap) => IInv'
<1> SUFFICES ASSUME IInv, Open \/ Mmap PROVE IInv'
  OBVIOUS
<1> USE DEF Open, Mmap, clientVars, requestVars
<1>1. InTurn' /\ Framed' /\ Silent' /\ OwnAnswerComplete'
  BY WithinIInv DEF Busy
<1>2. TypeOK' /\ Read' /\ Asked' /\ Stage' /\ SoFar'
  BY DEF IInv, TypeOK, Read, Asked, Asking, Stage, SoFar
<1>3. QED
  BY <1>1, <1>2 DEF IInv

\* The body: as many bytes as the header has announced.
LEMMA BodyIInv == IInv /\ Body => IInv'
<1> SUFFICES ASSUME IInv, Body PROVE IInv'
  OBVIOUS
<1> USE TinyAssumption DEF Body, clientVars, requestVars
<1>1. /\ serving \in Conn /\ size \in 1 .. MaxSize /\ uri.path \in Pages
      /\ sent[serving] # <<>>
      /\ sent[serving][1].method # NoWord => sent[serving][1].method = "GET"
      /\ sent[serving][1].uri # NoWord => uri = sent[serving][1].uri
  BY DEF IInv, InTurn, Busy, TypeOK, Stage, Asked, Asking
<1>2. <<"body", size>> \in Item
  BY <1>1 DEF Item
<1>3. /\ heard' \in [Conn -> Seq(Item)]
      /\ \A c \in Conn : c # serving => heard'[c] = heard[c]
      /\ serving \notin gone =>
            heard'[serving] = Append(heard[serving], <<"body", size>>)
  BY <1>1, <1>2, SayHeard DEF IInv
<1>4. InTurn' /\ Framed' /\ Silent' /\ OwnAnswerComplete'
  BY <1>3, WithinIInv DEF Busy
<1>5. TypeOK' /\ Read' /\ Asked' /\ Stage'
  BY <1>3 DEF IInv, TypeOK, Read, Asked, Asking, Stage
<1>6. SoFar'
  <2>1. ASSUME serving \notin gone PROVE Complete(serving, heard'[serving])
    <3>1. heard[serving] = StaticHead(size)
      BY <1>1, <2>1 DEF IInv, SoFar
    <3>2. heard'[serving] \in CompletePages
      BY <1>1, <1>3, <2>1, <3>1 DEF CompletePages
    <3>3. QED
      BY <1>1, <3>2 DEF Complete, Answers
  <2>2. QED
    BY <1>1, <2>1 DEF SoFar, Complete
<1>7. QED
  BY <1>4, <1>5, <1>6 DEF IInv

\* The child process is made.
LEMMA ForkIInv == IInv /\ Fork => IInv'
<1> SUFFICES ASSUME IInv, Fork PROVE IInv'
  OBVIOUS
<1> USE DEF Fork, clientVars, requestVars
<1>1. InTurn' /\ Framed' /\ Silent' /\ OwnAnswerComplete'
  BY WithinIInv DEF Busy
<1>2. TypeOK' /\ Read' /\ Asked' /\ Stage' /\ SoFar'
  BY DEF IInv, TypeOK, Read, Asked, Asking, Stage, SoFar
<1>3. QED
  BY <1>1, <1>2 DEF IInv

\* A step of the child, which says at most one item before it ends.
LEMMA ChildIInv == IInv /\ Child => IInv'
<1> SUFFICES ASSUME IInv, Child PROVE IInv'
  OBVIOUS
<1>1. /\ UNCHANGED <<clientVars, queue, serving, requestVars, served, pc>>
      /\ child \in {"forked", "exec", "running"}
      /\ child' \in {"exec", "running", "zombie"}
  BY DEF Child, Dup2, Dup2Error, Execve, ExecveError, Adder, ChildStep
<1>2. pc = "wait" /\ serving \in Conn
  BY <1>1 DEF IInv, Stage, InTurn, Busy
<1>3. /\ heard' \in [Conn -> Seq(Item)]
      /\ \A c \in Conn : c # serving => heard'[c] = heard[c]
      /\ serving \notin gone =>
            \/ heard'[serving] = heard[serving]
            \/ /\ child' = "zombie"
               /\ \/ heard'[serving] = Append(heard[serving], <<"log">>)
                  \/ /\ uri.pair
                     /\ heard'[serving] = Append(heard[serving], <<"output">>)
  <2>1. CASE UNCHANGED heard
    BY <2>1 DEF IInv, TypeOK
  <2>2. CASE child' = "zombie" /\ Say(<<"log">>)
    <3>1. <<"log">> \in Item
      BY DEF Item
    <3>2. QED
      BY <1>2, <2>2, <3>1, SayHeard DEF IInv
  <2>3. CASE child' = "zombie" /\ uri.pair /\ Say(<<"output">>)
    <3>1. <<"output">> \in Item
      BY DEF Item
    <3>2. QED
      BY <1>2, <2>3, <3>1, SayHeard DEF IInv
  <2>4. QED
    BY <2>1, <2>2, <2>3
       DEF Child, Dup2, Dup2Error, Execve, ExecveError, Adder, ChildStep
<1> USE DEF clientVars, requestVars
<1>4. InTurn' /\ Framed' /\ Silent' /\ OwnAnswerComplete'
  BY <1>1, <1>2, <1>3, WithinIInv DEF Busy
<1>5. TypeOK' /\ Read' /\ Asked' /\ Stage'
  BY <1>1, <1>2, <1>3 DEF IInv, TypeOK, Read, Asked, Asking, Stage
<1>6. SoFar'
  <2>1. ASSUME serving \notin gone
        PROVE  IF child' = "zombie" THEN heard'[serving] \in CgiAnswers(uri)
               ELSE heard'[serving] = DynamicHead
    <3>1. heard[serving] = DynamicHead
      BY <1>1, <1>2, <2>1 DEF IInv, SoFar
    <3>2. QED
      BY <1>1, <1>3, <2>1, <3>1 DEF CgiAnswers
  <2>2. QED
    BY <1>1, <1>2, <2>1 DEF SoFar
<1>7. QED
  BY <1>4, <1>5, <1>6 DEF IInv

\* The child has ended, and the answer with it.
LEMMA WaitIInv == IInv /\ Wait => IInv'
<1> SUFFICES ASSUME IInv, Wait PROVE IInv'
  OBVIOUS
<1> USE TinyAssumption DEF Wait, clientVars, requestVars
<1>1. InTurn' /\ Framed' /\ Silent' /\ OwnAnswerComplete'
  BY WithinIInv DEF Busy
<1>2. TypeOK' /\ Read' /\ Asked' /\ Stage'
  BY DEF IInv, TypeOK, Read, Asked, Asking, Stage
<1>3. /\ serving \in Conn /\ uri.path \in Programs
      /\ sent[serving] # <<>>
      /\ sent[serving][1].method # NoWord => sent[serving][1].method = "GET"
      /\ sent[serving][1].uri # NoWord => uri = sent[serving][1].uri
  BY DEF IInv, InTurn, Busy, Stage, Asked, Asking
<1>4. ASSUME serving \notin gone PROVE Complete(serving, heard[serving])
  <2>1. heard[serving] \in CgiAnswers(uri)
    BY <1>3, <1>4 DEF IInv, SoFar
  <2>2. uri.path \notin Pages
    BY <1>3
  <2>3. QED
    BY <1>3, <2>1, <2>2 DEF Complete, Answers
<1>5. SoFar'
  BY <1>3, <1>4 DEF SoFar, Complete
<1>6. QED
  BY <1>1, <1>2, <1>5 DEF IInv

\* The invariant is inductive.
LEMMA NextIInv == IInv /\ [Next]_vars => IInv'
<1> SUFFICES ASSUME IInv, [Next]_vars PROVE IInv'
  OBVIOUS
<1>1. CASE Listen
  <2> USE <1>1 DEF Listen, clientVars, requestVars
  <2>1. TypeOK' /\ InTurn' /\ Framed' /\ Read' /\ Asked' /\ Stage' /\ SoFar' /\ Silent'
    BY DEF IInv, TypeOK, InTurn, Busy, Framed, Read, Asked, Asking, Stage, SoFar, Silent
  <2>2. OwnAnswerComplete'
    BY DEF IInv, OwnAnswerComplete, Complete
  <2>3. QED
    BY <2>1, <2>2 DEF IInv
<1>2. CASE Serve
  BY <1>1, <1>2, AcceptIInv, GetnameinfoIInv, CloseIInv, ReadRequestIInv,
     ReadNothingIInv, ReadHeaderIInv, HeadersEndIInv, StatIInv, WriteIInv, OpenIInv,
     ExitIInv, BodyIInv, ForkIInv, WaitIInv, ChildIInv DEF Serve, MmapError
<1>3. CASE Error
  BY <1>3, ExitIInv DEF Error, ListenError, AcceptError, GetnameinfoError, CloseError,
     ReadError, WriteError, OpenError, BodyError, ForkError
<1>4. ASSUME NEW c \in Conn, Connect(c) \/ Send(c) \/ Leave(c) PROVE IInv'
  BY <1>4, ConnectIInv, SendIInv, LeaveIInv
<1>5. CASE UNCHANGED vars
  <2> USE <1>5 DEF vars, clientVars, requestVars
  <2>1. TypeOK' /\ InTurn' /\ Framed' /\ Read' /\ Asked' /\ Stage' /\ Silent'
    BY DEF IInv, TypeOK, InTurn, Framed, Read, Asked, Stage, Silent
  <2>2. SoFar' /\ OwnAnswerComplete'
    BY DEF IInv, SoFar, OwnAnswerComplete, Complete
  <2>3. QED
    BY <2>1, <2>2 DEF IInv
<1>6. QED
  BY <1>2, <1>3, <1>4, <1>5 DEF Next

\* The invariant holds in every reachable state.
THEOREM Invariance == Spec => []IInv
  BY InitIInv, NextIInv, PTL DEF Spec

\* The variables of the server and its clients keep their types.
THEOREM TypeCorrect == Spec => []TypeOK
<1>1. IInv => TypeOK
  BY DEF IInv
<1>2. QED
  BY Invariance, <1>1, PTL

\* No CGI child outlives the answer it belongs to: the parent reaps it before it
\* closes the connection.
THEOREM ChildrenReaped == Spec => []ChildReaped
<1>1. IInv => ChildReaped
  BY TinyAssumption DEF IInv, ChildReaped, Stage, InTurn, Busy
<1>2. QED
  BY Invariance, <1>1, PTL

\* A client that stays hears one answer, a complete one, to its own request.
THEOREM OwnAnswersComplete == Spec => []OwnAnswerComplete
<1>1. IInv => OwnAnswerComplete
  BY DEF IInv
<1>2. QED
  BY Invariance, <1>1, PTL

-----------------------------------------------------------------------------
(* Tiny implements IterativeServer. *)

\* What is written before the server or its child goes on is one step of the
\* abstract server, or lost.
LEMMA SayRefines ==
    ASSUME IInv, NEW item \in Item, Say(item), serving \in Conn, pc # "ended",
           UNCHANGED <<queue, serving, served>>, pc' # "ended"
    PROVE  [Server!Next]_(Server!serverVars)
<1>1. CASE serving \in gone
  BY <1>1 DEF Say, Server!serverVars
<1>2. CASE serving \notin gone
  <2>1. Server!Say
    BY <1>2, TinyAssumption DEF Say, Server!Say
  <2>2. QED
    BY <2>1 DEF Server!Next
<1>3. QED
  BY <1>1, <1>2

\* Every step of Tiny, its children and its clients is a step of an iterative server
\* or cannot be seen there.
LEMMA StepRefines == IInv /\ [Next]_vars => [Server!Next]_(Server!serverVars)
<1> SUFFICES ASSUME IInv, [Next]_vars PROVE [Server!Next]_(Server!serverVars)
  OBVIOUS
<1> USE TinyAssumption DEF Server!serverVars, clientVars, requestVars
<1>0. pc \in Busy => serving \in Conn
  BY DEF IInv, InTurn
<1>1. CASE Accept
  <2>1. serving = Nobody
    BY <1>1 DEF Accept, IInv, InTurn, Busy, TypeOK
  <2>2. Server!Accept
    BY <1>1, <2>1 DEF Accept, Server!Accept
  <2>3. QED
    BY <2>2 DEF Server!Next
<1>2. CASE Listen \/ Getnameinfo \/ ReadNothing \/ ReadHeader \/ HeadersEnd
             \/ Open \/ Mmap \/ Fork \/ Wait
  BY <1>2 DEF Listen, Getnameinfo, ReadNothing, ReadHeader, HeadersEnd, Open, Mmap, Fork,
     Wait
<1>3. CASE ReadRequest \/ Stat
  BY <1>3 DEF ReadRequest, Stat, ClientError, Reply
<1>4. CASE Write
  <2>1. Head(out) \in Item
    BY <1>4, HeadTailProperties DEF Write, IInv, TypeOK, Stage
  <2>2. pc' # "ended"
    BY <1>4 DEF Write, IInv, TypeOK
  <2>3. QED
    BY <1>0, <1>4, <2>1, <2>2, SayRefines DEF Write, Busy
<1>5. CASE Body
  <2>1. <<"body", size>> \in Item
    BY DEF Item, IInv, TypeOK
  <2>2. QED
    BY <1>0, <1>5, <2>1, SayRefines DEF Body, Busy
<1>6. CASE Child
  <2>1. <<"log">> \in Item /\ <<"output">> \in Item
    BY DEF Item
  <2>2. UNCHANGED <<queue, serving, served, pc>> /\ child # "none"
    BY <1>6 DEF Child, Dup2, Dup2Error, Execve, ExecveError, Adder, ChildStep
  <2>3. pc = "wait" /\ serving \in Conn
    BY <1>0, <2>2 DEF IInv, Stage, Busy
  <2>4. CASE UNCHANGED heard
    BY <2>2, <2>4
  <2>5. CASE Say(<<"log">>) \/ Say(<<"output">>)
    BY <2>1, <2>2, <2>3, <2>5, SayRefines
  <2>6. QED
    BY <1>6, <2>4, <2>5 DEF Child, Dup2, Dup2Error, Execve, ExecveError, Adder
<1>7. CASE Close
  <2>1. Server!Close
    BY <1>0, <1>7 DEF Close, Busy, Server!Close
  <2>2. QED
    BY <2>1 DEF Server!Next
<1>8. CASE Error \/ MmapError
  <2>1. Exit /\ pc # "ended"
    BY <1>8 DEF Error, MmapError, ListenError, AcceptError, GetnameinfoError, CloseError,
       ReadError, WriteError, OpenError, BodyError, ForkError
  <2>2. Server!End
    BY <2>1 DEF Exit, Server!End
  <2>3. QED
    BY <2>2 DEF Server!Next
<1>9. ASSUME NEW c \in Conn, Connect(c) \/ Send(c) \/ Leave(c)
      PROVE  [Server!Next]_(Server!serverVars)
  <2>1. CASE Connect(c)
    <3>1. Server!Arrive(c)
      BY <2>1 DEF Connect, Connected, Queued, Server!Arrive
    <3>2. QED
      BY <3>1 DEF Server!Next
  <2>2. CASE Send(c) \/ Leave(c)
    BY <2>2 DEF Send, Leave
  <2>3. QED
    BY <1>9, <2>1, <2>2
<1>10. CASE UNCHANGED vars
  BY <1>10 DEF vars
<1>11. QED
  BY <1>1, <1>2, <1>3, <1>4, <1>5, <1>6, <1>7, <1>8, <1>9, <1>10 DEF Next, Serve

\* Tiny is an iterative server, and what its CGI programs write is part of that.
THEOREM RefinesServer == Spec => ServerSpec
<1>1. Init => Server!Init
  BY DEF Init, Server!Init
<1>2. QED
  BY <1>1, Invariance, StepRefines, PTL DEF Spec, ServerSpec, Server!Spec
=============================================================================
