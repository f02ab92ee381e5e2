----------------------------- MODULE RelayProofs -----------------------------
(***************************************************************************)
(* Theorems about Relay, for every response and every size of the two      *)
(* buffers: the relay is transparent, and it implements LineCopy.          *)
(***************************************************************************)
EXTENDS Relay, SequenceTheorems, TLAPS

\* How many bytes of the input are in rio_buf.
Buffered == IF rio_cnt > 0 THEN rio_cnt ELSE 0

\* How many bytes have been taken from rio_buf and not been written.
Pending == IF pc = "read" THEN n - 1 ELSE IF pc = "write" THEN nleft ELSE 0

\* Where they start in response.
From == IF pc = "write" THEN bufp ELSE 0

\* The unread part of rio_buf is the input just before the descriptor's offset.
BufferHolds ==
    /\ rio_bufptr + Buffered <= RIO_BUFSIZE
    /\ \A j \in 0 .. RIO_BUFSIZE - 1 :
          j < Buffered => rio_buf[rio_bufptr + j] = input[at - Buffered + j + 1]

\* Every byte read is in the output, in response or in rio_buf, in that order.
Accounted ==
    /\ pc \in {"read", "write"} => Len(output) + Pending + Buffered = at
    /\ Len(output) + Pending + Buffered <= at
    /\ From + Pending <= BUFFER_SIZE - 1
    /\ \A j \in 0 .. BUFFER_SIZE - 1 :
          j < Pending => response[From + j] = input[Len(output) + j + 1]

\* The line under construction has no newline yet.
NoNewlineYet ==
    pc = "read" => \A j \in 1 .. n - 1 : input[Len(output) + j] # NL

IInv ==
    /\ TypeOK
    /\ BufferHolds
    /\ Accounted
    /\ NoNewlineYet
    /\ Transparent

-----------------------------------------------------------------------------
\* The initial states satisfy the invariant.
LEMMA InitIInv == Init => IInv
<1> SUFFICES ASSUME Init PROVE IInv
  OBVIOUS
<1> USE RelayAssumption DEF Init
<1>1. input \in Seq(Byte) /\ Len(input) \in Nat
  <2>1. PICK k \in 0 .. MaxInput : input \in [1 .. k -> Byte]
    OBVIOUS
  <2>2. QED
    BY <2>1
<1>2. TypeOK
  BY <1>1 DEF TypeOK
<1>3. BufferHolds /\ Accounted /\ NoNewlineYet /\ Transparent
  BY <1>1 DEF BufferHolds, Accounted, NoNewlineYet, Transparent, Buffered, Pending, From
<1>4. QED
  BY <1>2, <1>3 DEF IInv

\* The values the arithmetic below is about.
Counts ==
    /\ at \in Nat /\ n \in Nat /\ n >= 1 /\ nleft \in Nat /\ bufp \in Nat
    /\ Len(input) \in Nat /\ Len(output) \in Nat
    /\ rio_cnt \in Int /\ rio_bufptr \in Nat
    /\ Buffered \in Nat /\ Pending \in Nat /\ From \in Nat

\* They are numbers.
LEMMA Numbers == TypeOK => Counts
<1> SUFFICES ASSUME TypeOK PROVE Counts
  OBVIOUS
<1> USE RelayAssumption
<1>1. /\ at \in Nat /\ n \in Nat /\ n >= 1 /\ nleft \in Nat /\ bufp \in Nat
      /\ Len(input) \in Nat /\ Len(output) \in Nat
      /\ rio_cnt \in Int /\ rio_bufptr \in Nat
  BY DEF TypeOK
<1>2. Buffered \in Nat /\ Pending \in Nat /\ From \in Nat
  BY <1>1 DEF Buffered, Pending, From
<1>3. QED
  BY <1>1, <1>2 DEF Counts

\* A successful read().
LEMMA RefillIInv == IInv /\ Refill => IInv'
<1> SUFFICES ASSUME IInv, Refill PROVE IInv'
  OBVIOUS
<1> USE RelayAssumption DEF IInv, Refill, Refilling
<1>0. Counts
  BY Numbers DEF Counts
<1> USE <1>0 DEF Counts
<1>1. PICK k \in 1 .. RIO_BUFSIZE :
         /\ at + k <= Len(input)
         /\ rio_buf' = [j \in 0 .. RIO_BUFSIZE - 1 |->
                            IF j < k THEN input[at + j + 1] ELSE rio_buf[j]]
         /\ rio_cnt' = k
         /\ at' = at + k
  OBVIOUS
<1>2. \A j \in 0 .. RIO_BUFSIZE - 1 : j < k => input[at + j + 1] \in Byte
  BY <1>1 DEF TypeOK
<1>3. rio_buf' \in [0 .. RIO_BUFSIZE - 1 -> Byte]
  BY <1>1, <1>2 DEF TypeOK
<1>4. TypeOK'
  BY <1>1, <1>3 DEF TypeOK
<1>5. Buffered = 0 /\ Buffered' = k /\ rio_bufptr' = 0
  BY <1>1 DEF Buffered
<1>6. BufferHolds'
  <2>1. ASSUME NEW j \in 0 .. RIO_BUFSIZE - 1, j < k
        PROVE  rio_buf'[j] = input[at + j + 1]
    BY <1>1, <2>1
  <2>2. at' - k = at /\ input' = input
    BY <1>1
  <2>3. QED
    BY <1>5, <2>1, <2>2 DEF BufferHolds
<1>7. Accounted'
  BY <1>1, <1>5 DEF Accounted, Pending, From
<1>8. NoNewlineYet' /\ Transparent'
  BY DEF NoNewlineYet, Transparent
<1>9. QED
  BY <1>4, <1>6, <1>7, <1>8

\* A read() that fails, or is interrupted.
LEMMA RefillFailsIInv == IInv /\ (RefillInterrupted \/ RefillError) => IInv'
<1> SUFFICES ASSUME IInv, RefillInterrupted \/ RefillError PROVE IInv'
  OBVIOUS
<1> USE RelayAssumption DEF IInv, RefillInterrupted, RefillError, Refilling
<1>0. Counts
  BY Numbers DEF Counts
<1> USE <1>0 DEF Counts
<1>1. TypeOK'
  BY DEF TypeOK
<1>2. BufferHolds'
  BY DEF BufferHolds, Buffered, TypeOK
<1>3. Accounted'
  <2>1. Buffered = 0 /\ Buffered' = 0
    BY DEF Buffered
  <2>2. CASE RefillInterrupted
    BY <2>1, <2>2 DEF Accounted, Pending, From
  <2>3. CASE RefillError
    <3>1. Pending' = 0 /\ From' = 0 /\ Len(output) + Pending = at
      BY <2>1, <2>3 DEF Accounted, Pending, From
    <3>2. QED
      BY <2>1, <2>3, <3>1 DEF Accounted
  <2>4. QED
    BY <2>2, <2>3
<1>4. NoNewlineYet' /\ Transparent'
  BY DEF NoNewlineYet, Transparent
<1>5. QED
  BY <1>1, <1>2, <1>3, <1>4

\* The end of the input.
LEMMA RefillEofIInv == IInv /\ RefillEof => IInv'
<1> SUFFICES ASSUME IInv, RefillEof PROVE IInv'
  OBVIOUS
<1> USE RelayAssumption DEF IInv, RefillEof, Refilling, ReturnEof, ReturnLine
<1>0. Counts
  BY Numbers DEF Counts
<1> USE <1>0 DEF Counts
<1>1. TypeOK'
  BY DEF TypeOK
<1>2. BufferHolds'
  BY DEF BufferHolds, Buffered, TypeOK
<1>3. Accounted'
  <2>1. CASE n = 1
    BY <2>1 DEF Accounted, Pending, From, Buffered
  <2>2. CASE n # 1
    <3>1. /\ Pending' = n - 1 /\ Pending = n - 1 /\ From' = 0 /\ From = 0
          /\ Buffered' = Buffered
      BY <2>2 DEF Pending, From, Buffered
    <3>2. \A j \in 0 .. BUFFER_SIZE - 1 : j < n - 1 => response'[j] = response[j]
      BY <2>2 DEF TypeOK
    <3>3. QED
      BY <2>2, <3>1, <3>2 DEF Accounted
  <2>3. QED
    BY <2>1, <2>2
<1>4. NoNewlineYet'
  BY DEF NoNewlineYet
<1>5. Transparent'
  BY DEF Transparent, Accounted, Pending, Buffered
<1>6. QED
  BY <1>1, <1>2, <1>3, <1>4, <1>5

\* A byte moves from rio_buf to response.
LEMMA TakeByteIInv == IInv /\ TakeByte => IInv'
<1> SUFFICES ASSUME IInv, TakeByte PROVE IInv'
  OBVIOUS
<1> USE RelayAssumption
<1> DEFINE c == rio_buf[rio_bufptr]
<1>0. Counts /\ TypeOK /\ BufferHolds /\ Accounted /\ NoNewlineYet /\ Transparent
  BY Numbers DEF IInv
<1> USE <1>0 DEF Counts
<1>1. /\ pc = "read" /\ n < BUFFER_SIZE /\ rio_cnt > 0
      /\ rio_bufptr' = rio_bufptr + 1 /\ rio_cnt' = rio_cnt - 1
      /\ UNCHANGED <<input, at, rio_buf, output>>
  BY DEF TakeByte, Unread
<1>2. Buffered = rio_cnt /\ Buffered' = rio_cnt - 1 /\ Pending = n - 1 /\ From = 0
  BY <1>1 DEF Buffered, Pending, From
<1>3. rio_bufptr + rio_cnt <= RIO_BUFSIZE /\ rio_bufptr \in 0 .. RIO_BUFSIZE - 1
  BY <1>1, <1>2 DEF BufferHolds
<1>4. c \in Byte
  BY <1>3 DEF TypeOK
<1>5. c = input[at - rio_cnt + 1]
  <2>1. 0 \in 0 .. RIO_BUFSIZE - 1 /\ 0 < Buffered
    BY <1>1, <1>2
  <2>2. rio_buf[rio_bufptr + 0] = input[at - Buffered + 0 + 1]
    BY <2>1 DEF BufferHolds
  <2>3. QED
    BY <2>2, <1>2
<1>6. c = input[Len(output) + n]
  <2>1. Len(output) + (n - 1) + rio_cnt = at
    BY <1>1, <1>2 DEF Accounted
  <2>2. at - rio_cnt + 1 = Len(output) + n
    BY <2>1
  <2>3. QED
    BY <2>2, <1>5
<1>7. \/ /\ c = NL
         /\ response' = [response EXCEPT ![n - 1] = c, ![n] = NUL]
         /\ nleft' = n /\ bufp' = 0 /\ pc' = "write" /\ n' = n
      \/ /\ c # NL
         /\ response' = [response EXCEPT ![n - 1] = c]
         /\ n' = n + 1 /\ UNCHANGED <<nleft, bufp, pc>>
  BY DEF TakeByte, ReturnLine
<1>8. TypeOK'
  BY <1>1, <1>3, <1>4, <1>7 DEF TypeOK
<1>9. BufferHolds'
  <2>1. rio_bufptr' + Buffered' <= RIO_BUFSIZE
    BY <1>1, <1>2, <1>3
  <2>2. ASSUME NEW j \in 0 .. RIO_BUFSIZE - 1, j < Buffered'
        PROVE  rio_buf'[rio_bufptr' + j] = input'[at' - Buffered' + j + 1]
    <3>1. j + 1 \in 0 .. RIO_BUFSIZE - 1 /\ j + 1 < Buffered
      BY <1>2, <1>3, <2>2
    <3>2. rio_buf[rio_bufptr + (j + 1)] = input[at - Buffered + (j + 1) + 1]
      BY <3>1 DEF BufferHolds
    <3>3. /\ rio_bufptr + (j + 1) = rio_bufptr' + j
          /\ at - Buffered + (j + 1) + 1 = at' - Buffered' + j + 1
      BY <1>1, <1>2
    <3>4. QED
      BY <3>2, <3>3, <1>1
  <2>3. QED
    BY <2>1, <2>2 DEF BufferHolds
<1>10. Accounted'
  <2>1. Pending' = n /\ From' = 0
    BY <1>1, <1>7 DEF Pending, From
  <2>2. response'[n - 1] = c /\ \A j \in 0 .. n - 2 : response'[j] = response[j]
    BY <1>1, <1>7 DEF TypeOK
  <2>3. ASSUME NEW j \in 0 .. n - 2 PROVE response[j] = input[Len(output) + j + 1]
    <3>1. j \in 0 .. BUFFER_SIZE - 1 /\ j < Pending
      BY <1>1, <1>2
    <3>2. response[From + j] = input[Len(output) + j + 1]
      BY <3>1 DEF Accounted
    <3>3. QED
      BY <3>2, <1>2
  <2>4. ASSUME NEW j \in 0 .. BUFFER_SIZE - 1, j < n
        PROVE  response'[j] = input[Len(output) + j + 1]
    <3>1. CASE j = n - 1
      BY <3>1, <2>2, <1>6
    <3>2. CASE j \in 0 .. n - 2
      BY <3>2, <2>2, <2>3
    <3>3. QED
      BY <2>4, <3>1, <3>2
  <2>5. Len(output) + n + (rio_cnt - 1) = at
    BY <1>1, <1>2 DEF Accounted
  <2>6. QED
    BY <1>1, <1>2, <2>1, <2>4, <2>5 DEF Accounted
<1>11. NoNewlineYet'
  <2>1. CASE c = NL
    BY <2>1, <1>7 DEF NoNewlineYet
  <2>2. CASE c # NL
    <3>1. n' = n + 1 /\ output' = output /\ input' = input /\ pc' = "read"
      BY <2>2, <1>1, <1>7
    <3>2. \A j \in 1 .. n - 1 : input[Len(output) + j] # NL
      BY <1>1 DEF NoNewlineYet
    <3>3. \A j \in 1 .. n : j = n \/ j \in 1 .. n - 1
      OBVIOUS
    <3>4. \A j \in 1 .. n : input[Len(output) + j] # NL
      BY <2>2, <3>2, <3>3, <1>6
    <3>5. n' - 1 = n
      BY <3>1
    <3>6. QED
      BY <3>1, <3>4, <3>5 DEF NoNewlineYet
  <2>3. QED
    BY <2>1, <2>2
<1>12. Transparent'
  BY <1>1, <1>7 DEF Transparent
<1>13. QED
  BY <1>8, <1>9, <1>10, <1>11, <1>12 DEF IInv

\* A line that fills response.
LEMMA LineFullIInv == IInv /\ LineFull => IInv'
<1> SUFFICES ASSUME IInv, LineFull PROVE IInv'
  OBVIOUS
<1> USE RelayAssumption DEF IInv, LineFull, ReturnLine, rio
<1>0. Counts
  BY Numbers DEF Counts
<1> USE <1>0 DEF Counts
<1>1. TypeOK'
  BY DEF TypeOK
<1>2. BufferHolds'
  BY DEF BufferHolds, Buffered
<1>3. Accounted'
  <2>1. /\ Pending' = n - 1 /\ Pending = n - 1 /\ From' = 0 /\ From = 0
        /\ Buffered' = Buffered
    BY DEF Pending, From, Buffered
  <2>2. \A j \in 0 .. BUFFER_SIZE - 1 : j < n - 1 => response'[j] = response[j]
    BY DEF TypeOK
  <2>3. QED
    BY <2>1, <2>2 DEF Accounted
<1>4. NoNewlineYet' /\ Transparent'
  BY DEF NoNewlineYet, Transparent
<1>5. QED
  BY <1>1, <1>2, <1>3, <1>4

\* A write() that takes some of the line.
LEMMA WriteSomeIInv == IInv /\ WriteSome => IInv'
<1> SUFFICES ASSUME IInv, WriteSome PROVE IInv'
  OBVIOUS
<1> USE RelayAssumption
<1>0. Counts /\ TypeOK /\ BufferHolds /\ Accounted /\ NoNewlineYet /\ Transparent
  BY Numbers DEF IInv
<1> USE <1>0 DEF Counts
<1>1. /\ pc = "write" /\ pc' = "write"
      /\ UNCHANGED <<input, at, rio_buf, rio_cnt, rio_bufptr, response, n>>
  BY DEF WriteSome, rio
<1>2. PICK k \in 1 .. nleft :
         /\ output' = output \o [j \in 1 .. k |-> response[bufp + j - 1]]
         /\ nleft' = nleft - k
         /\ bufp' = bufp + k
  BY DEF WriteSome
<1> DEFINE chunk == [j \in 1 .. k |-> response[bufp + j - 1]]
<1>3. /\ Pending = nleft /\ Pending' = nleft - k /\ From = bufp /\ From' = bufp + k
      /\ Buffered' = Buffered
  BY <1>1, <1>2 DEF Pending, From, Buffered
<1>4. /\ bufp + nleft <= BUFFER_SIZE - 1 /\ Len(output) + nleft + Buffered = at
      /\ k \in Nat /\ k <= nleft
  BY <1>1, <1>3 DEF Accounted
<1>5. ASSUME NEW j \in 0 .. nleft - 1
      PROVE  /\ response[bufp + j] \in Byte
             /\ response[bufp + j] = input[Len(output) + j + 1]
  <2>1. j \in 0 .. BUFFER_SIZE - 1 /\ j < Pending /\ bufp + j \in 0 .. BUFFER_SIZE - 1
    BY <1>3, <1>4
  <2>2. response[From + j] = input[Len(output) + j + 1]
    BY <2>1 DEF Accounted
  <2>3. QED
    BY <2>1, <2>2, <1>3 DEF TypeOK
<1>6. chunk \in Seq(Byte) /\ Len(chunk) = k
  <2>1. ASSUME NEW j \in 1 .. k PROVE response[bufp + j - 1] \in Byte
    <3>1. j - 1 \in 0 .. nleft - 1 /\ bufp + (j - 1) = bufp + j - 1
      BY <1>4
    <3>2. QED
      BY <3>1, <1>5
  <2>2. QED
    BY <2>1, <1>4
<1>7. \A j \in 1 .. k : chunk[j] = input[Len(output) + j]
  <2>1. SUFFICES ASSUME NEW j \in 1 .. k
                 PROVE  response[bufp + j - 1] = input[Len(output) + j]
    OBVIOUS
  <2>2. /\ j - 1 \in 0 .. nleft - 1 /\ bufp + (j - 1) = bufp + j - 1
        /\ Len(output) + (j - 1) + 1 = Len(output) + j
    BY <1>4
  <2>3. response[bufp + (j - 1)] = input[Len(output) + (j - 1) + 1]
    BY <2>2, <1>5
  <2>4. QED
    BY <2>2, <2>3
<1>8. output \in Seq(Byte) /\ output' = output \o chunk
  BY <1>2 DEF TypeOK
<1> HIDE DEF chunk
<1>9. /\ output' \in Seq(Byte) /\ Len(output') = Len(output) + k
      /\ \A j \in 1 .. Len(output') :
            output'[j] = IF j <= Len(output) THEN output[j] ELSE chunk[j - Len(output)]
  BY <1>6, <1>8, ConcatProperties
<1>10. TypeOK'
  BY <1>1, <1>2, <1>4, <1>9 DEF TypeOK
<1>11. BufferHolds'
  BY <1>1, <1>3 DEF BufferHolds
<1>12. Accounted'
  <2>1. /\ Len(output') + Pending' + Buffered' = at'
        /\ From' + Pending' <= BUFFER_SIZE - 1
    BY <1>1, <1>3, <1>4, <1>9
  <2>2. ASSUME NEW j \in 0 .. BUFFER_SIZE - 1, j < Pending'
        PROVE  response'[From' + j] = input'[Len(output') + j + 1]
    <3>1. j + k \in 0 .. nleft - 1
      BY <1>3, <1>4, <2>2
    <3>2. response[bufp + (j + k)] = input[Len(output) + (j + k) + 1]
      BY <3>1, <1>5
    <3>3. /\ bufp + (j + k) = From' + j
          /\ Len(output) + (j + k) + 1 = Len(output') + j + 1
      BY <1>3, <1>4, <1>9
    <3>4. QED
      BY <3>2, <3>3, <1>1
  <2>3. Len(output') + Pending' + Buffered' <= at'
    BY <2>1, <1>1
  <2>4. QED
    BY <2>1, <2>2, <2>3 DEF Accounted
<1>13. NoNewlineYet'
  BY <1>1 DEF NoNewlineYet
<1>14. Transparent'
  <2>1. Len(output') <= Len(input')
    <3>1. at <= Len(input)
      BY DEF TypeOK
    <3>2. QED
      BY <3>1, <1>1, <1>4, <1>9
  <2>2. ASSUME NEW j \in 1 .. Len(output') PROVE output'[j] = input'[j]
    <3>1. CASE j <= Len(output)
      BY <3>1, <1>1, <1>9 DEF Transparent
    <3>2. CASE j > Len(output)
      <4>1. /\ j - Len(output) \in 1 .. k
            /\ Len(output) + (j - Len(output)) = j
        BY <3>2, <1>4, <1>9
      <4>2. chunk[j - Len(output)] = input[j]
        BY <4>1, <1>7
      <4>3. output'[j] = chunk[j - Len(output)]
        BY <3>2, <1>9
      <4>4. QED
        BY <4>2, <4>3, <1>1
    <3>3. QED
      BY <3>1, <3>2, <1>9
  <2>3. QED
    BY <2>1, <2>2, <1>1 DEF Transparent
<1>15. QED
  BY <1>10, <1>11, <1>12, <1>13, <1>14 DEF IInv

\* The end of a write loop.
LEMMA WriteEndsIInv == IInv /\ (WriteDone \/ WriteError) => IInv'
<1> SUFFICES ASSUME IInv, WriteDone \/ WriteError PROVE IInv'
  OBVIOUS
<1> USE RelayAssumption DEF IInv, WriteDone, WriteError, rio
<1>0. Counts
  BY Numbers
<1> USE <1>0 DEF Counts
<1>1. TypeOK'
  BY DEF TypeOK
<1>2. BufferHolds'
  BY DEF BufferHolds, Buffered
<1>3. Accounted'
  <2>1. Pending = nleft /\ Pending' = 0 /\ From' = 0 /\ Buffered' = Buffered
    BY DEF Pending, From, Buffered
  <2>2. Len(output) + nleft + Buffered = at
    BY <2>1 DEF Accounted
  <2>3. CASE WriteDone
    BY <2>1, <2>2, <2>3 DEF Accounted
  <2>4. CASE WriteError
    BY <2>1, <2>2, <2>4 DEF Accounted
  <2>5. QED
    BY <2>3, <2>4
<1>4. NoNewlineYet' /\ Transparent'
  BY DEF NoNewlineYet, Transparent
<1>5. QED
  BY <1>1, <1>2, <1>3, <1>4

\* Every step preserves the invariant.
LEMMA NextIInv == IInv /\ [Next]_vars => IInv'
<1>1. IInv /\ UNCHANGED vars => IInv'
  BY DEF IInv, vars, rio, TypeOK, BufferHolds, Accounted, NoNewlineYet, Transparent,
         Buffered, Pending, From
<1>2. QED
  BY <1>1, RefillIInv, RefillFailsIInv, RefillEofIInv, TakeByteIInv, LineFullIInv,
     WriteSomeIInv, WriteEndsIInv DEF Next, Progress

\* Every reachable state satisfies the invariant.
THEOREM Invariance == Spec => []IInv
  BY InitIInv, NextIInv, PTL DEF Spec

\* Type correctness: no index leaves its array.
THEOREM TypeCorrect == Spec => []TypeOK
<1>1. IInv => TypeOK
  BY DEF IInv
<1>2. QED
  BY Invariance, <1>1, PTL

\* The client receives the origin's bytes, whatever the buffers and the counts.
THEOREM Transparency == Spec => []Transparent
<1>1. IInv => Transparent
  BY DEF IInv
<1>2. QED
  BY Invariance, <1>1, PTL

-----------------------------------------------------------------------------
(* Relay implements LineCopy. *)

\* A line rio_readlineb returns is a line of the input.
LEMMA ReturnsALine ==
    ASSUME IInv, pc = "read", NEW count \in 1 .. BUFFER_SIZE - 1,
           UNCHANGED <<input, output>>, ReturnLine(count), Lines!IsLine(Len(output), count),
           \A j \in 0 .. count - 1 : response'[j] = input[Len(output) + j + 1]
    PROVE  Lines!GetLine
<1> USE RelayAssumption
<1>1. Line = <<>> /\ Status = "open" /\ Status' = "open"
  BY DEF Line, Status, ReturnLine
<1>2. Line' = [j \in 1 .. count |-> response'[j - 1]]
  BY DEF Line, ReturnLine
<1>3. Line' = [j \in 1 .. count |-> input[Len(output) + j]]
  <2>1. ASSUME NEW j \in 1 .. count PROVE response'[j - 1] = input[Len(output) + j]
    <3>1. j - 1 \in 0 .. count - 1 /\ Len(output) + (j - 1) + 1 = Len(output) + j
      BY Numbers DEF IInv, Counts
    <3>2. QED
      BY <3>1
  <2>2. QED
    BY <1>2, <2>1
<1>4. QED
  BY <1>1, <1>3 DEF Lines!GetLine

\* The line under construction, from the invariant.
LEMMA SoFar ==
    ASSUME IInv, pc = "read"
    PROVE  /\ Len(output) + (n - 1) + Buffered = at
           /\ \A j \in 0 .. n - 2 : response[j] = input[Len(output) + j + 1]
           /\ \A j \in 1 .. n - 1 : input[Len(output) + j] # NL
<1> USE RelayAssumption
<1>0. Counts /\ TypeOK /\ Accounted /\ NoNewlineYet
  BY Numbers DEF IInv
<1> USE <1>0 DEF Counts
<1>1. Pending = n - 1 /\ From = 0
  BY DEF Pending, From
<1>2. ASSUME NEW j \in 0 .. n - 2 PROVE response[j] = input[Len(output) + j + 1]
  <2>1. j \in 0 .. BUFFER_SIZE - 1 /\ j < Pending
    BY <1>1 DEF TypeOK
  <2>2. response[From + j] = input[Len(output) + j + 1]
    BY <2>1 DEF Accounted
  <2>3. QED
    BY <2>2, <1>1
<1>3. QED
  BY <1>1, <1>2 DEF Accounted, NoNewlineYet

(* The three ways rio_readlineb can return a line. *)

\* The end of the input.
LEMMA EofGetsLine == IInv /\ RefillEof /\ n # 1 => Lines!GetLine
<1> SUFFICES ASSUME IInv, RefillEof, n # 1 PROVE Lines!GetLine
  OBVIOUS
<1> USE RelayAssumption
<1>1. Counts /\ TypeOK
  BY Numbers DEF IInv
<1>2. /\ pc = "read" /\ n < BUFFER_SIZE /\ rio_cnt <= 0 /\ at = Len(input)
      /\ ReturnLine(n - 1) /\ response' = [response EXCEPT ![n - 1] = NUL]
      /\ UNCHANGED <<input, output>>
  BY DEF RefillEof, Refilling
<1>3. Len(output) + (n - 1) = Len(input) /\ n - 1 \in 1 .. BUFFER_SIZE - 1
  BY <1>1, <1>2, SoFar DEF Buffered, Counts
<1>4. Lines!IsLine(Len(output), n - 1)
  <2>1. ASSUME NEW j \in 1 .. (n - 1) - 1 PROVE input[Len(output) + j] # NL
    <3>1. j \in 1 .. n - 1
      BY <1>1 DEF Counts
    <3>2. QED
      BY <3>1, <1>2, SoFar
  <2>2. QED
    BY <1>3, <2>1 DEF Lines!IsLine
<1>5. \A j \in 0 .. (n - 1) - 1 : response'[j] = input[Len(output) + j + 1]
  <2>1. \A j \in 0 .. n - 2 : response'[j] = response[j]
    BY <1>1, <1>2 DEF TypeOK, Counts
  <2>2. QED
    BY <1>1, <1>2, <2>1, SoFar DEF Counts
<1>6. QED
  BY <1>2, <1>3, <1>4, <1>5, ReturnsALine

\* A newline.
LEMMA NewlineGetsLine ==
    IInv /\ TakeByte /\ rio_buf[rio_bufptr] = NL => Lines!GetLine
<1> SUFFICES ASSUME IInv, TakeByte, rio_buf[rio_bufptr] = NL PROVE Lines!GetLine
  OBVIOUS
<1> USE RelayAssumption
<1>1. Counts /\ TypeOK /\ BufferHolds
  BY Numbers DEF IInv
<1>2. /\ pc = "read" /\ n < BUFFER_SIZE /\ rio_cnt > 0
      /\ response' = [response EXCEPT ![n - 1] = NL, ![n] = NUL]
      /\ ReturnLine(n) /\ UNCHANGED <<input, output>>
  BY DEF TakeByte, Unread
<1>3. /\ Buffered = rio_cnt /\ Len(output) + n = at - rio_cnt + 1
      /\ n \in 1 .. BUFFER_SIZE - 1
  BY <1>1, <1>2, SoFar DEF Buffered, Counts
<1>4. input[Len(output) + n] = NL
  <2>1. 0 \in 0 .. RIO_BUFSIZE - 1 /\ 0 < Buffered
    BY <1>2, <1>3
  <2>2. rio_buf[rio_bufptr + 0] = input[at - Buffered + 0 + 1]
    BY <1>1, <2>1 DEF BufferHolds
  <2>3. QED
    BY <1>1, <1>3, <2>2 DEF Counts
<1>5. Len(output) + n <= Len(input)
  BY <1>1, <1>2, <1>3 DEF TypeOK, Counts
<1>6. Lines!IsLine(Len(output), n)
  BY <1>1, <1>2, <1>3, <1>4, <1>5, SoFar DEF Lines!IsLine
<1>7. \A j \in 0 .. n - 1 : response'[j] = input[Len(output) + j + 1]
  <2>1. response'[n - 1] = NL /\ \A j \in 0 .. n - 2 : response'[j] = response[j]
    BY <1>1, <1>2 DEF TypeOK, Counts
  <2>2. ASSUME NEW j \in 0 .. n - 1 PROVE response'[j] = input[Len(output) + j + 1]
    <3>1. CASE j = n - 1
      BY <3>1, <2>1, <1>1, <1>4 DEF Counts
    <3>2. CASE j \in 0 .. n - 2
      BY <3>2, <2>1, <1>2, SoFar
    <3>3. QED
      BY <3>1, <3>2, <1>1 DEF Counts
  <2>3. QED
    BY <2>2
<1>8. QED
  BY <1>2, <1>3, <1>6, <1>7, ReturnsALine

\* A full buffer.
LEMMA FullGetsLine == IInv /\ LineFull => Lines!GetLine
<1> SUFFICES ASSUME IInv, LineFull PROVE Lines!GetLine
  OBVIOUS
<1> USE RelayAssumption
<1>1. Counts /\ TypeOK
  BY Numbers DEF IInv
<1>2. /\ pc = "read" /\ n = BUFFER_SIZE
      /\ response' = [response EXCEPT ![n - 1] = NUL]
      /\ ReturnLine(n - 1) /\ UNCHANGED <<input, output>>
  BY DEF LineFull
<1>3. Len(output) + (n - 1) <= Len(input) /\ n - 1 \in 1 .. BUFFER_SIZE - 1
  BY <1>1, <1>2, SoFar DEF TypeOK, Counts
<1>4. Lines!IsLine(Len(output), n - 1)
  <2>1. ASSUME NEW j \in 1 .. (n - 1) - 1 PROVE input[Len(output) + j] # NL
    <3>1. j \in 1 .. n - 1
      BY <1>1 DEF Counts
    <3>2. QED
      BY <3>1, <1>2, SoFar
  <2>2. n - 1 = BUFFER_SIZE - 1
    BY <1>2
  <2>3. QED
    BY <1>3, <2>1, <2>2 DEF Lines!IsLine
<1>5. \A j \in 0 .. (n - 1) - 1 : response'[j] = input[Len(output) + j + 1]
  <2>1. \A j \in 0 .. n - 2 : response'[j] = response[j]
    BY <1>1, <1>2 DEF TypeOK, Counts
  <2>2. QED
    BY <1>1, <1>2, <2>1, SoFar DEF Counts
<1>6. QED
  BY <1>2, <1>3, <1>4, <1>5, ReturnsALine

(* The other steps that LineCopy can see. *)

\* The end of the response.
LEMMA EofCloses == IInv /\ RefillEof /\ n = 1 => Lines!Close
<1> SUFFICES ASSUME IInv, RefillEof, n = 1 PROVE Lines!Close
  OBVIOUS
<1>1. IInv'
  BY RefillEofIInv
<1>2. /\ pc = "read" /\ pc' = "closed" /\ UNCHANGED <<input, output>>
  BY DEF RefillEof, Refilling, ReturnEof
<1>3. output = input
  <2>1. Len(output) = Len(input) /\ \A j \in 1 .. Len(output) : output[j] = input[j]
    BY <1>1, <1>2 DEF IInv, Transparent
  <2>2. output \in Seq(Byte) /\ input \in Seq(Byte)
    BY DEF IInv, TypeOK
  <2>3. QED
    BY <2>1, <2>2, SeqEqual
<1>4. Line = <<>> /\ Line' = <<>> /\ Status = "open" /\ Status' = "closed"
  BY <1>2 DEF Line, Status
<1>5. QED
  BY <1>2, <1>3, <1>4 DEF Lines!Close

\* A write().
LEMMA WritePutsSome == IInv /\ WriteSome => Lines!PutSome
<1> SUFFICES ASSUME IInv, WriteSome PROVE Lines!PutSome
  OBVIOUS
<1>0. Counts
  BY Numbers DEF IInv
<1>1. PICK k \in 1 .. nleft :
         /\ output' = output \o [j \in 1 .. k |-> response[bufp + j - 1]]
         /\ nleft' = nleft - k
         /\ bufp' = bufp + k
  BY DEF WriteSome
<1>2. pc = "write" /\ pc' = "write" /\ UNCHANGED <<input, response>>
  BY DEF WriteSome
<1>3. Status = "open" /\ Status' = "open"
  BY <1>2 DEF Status
<1>4. /\ Line = [j \in 1 .. nleft |-> response[bufp + j - 1]]
      /\ Line' = [j \in 1 .. nleft - k |-> response[bufp + k + j - 1]]
  BY <1>1, <1>2 DEF Line
<1>5. Len(Line) = nleft /\ k \in 1 .. Len(Line)
  BY <1>0, <1>4 DEF Counts
<1>6. output' = output \o [j \in 1 .. k |-> Line[j]]
  <2>1. ASSUME NEW j \in 1 .. k PROVE Line[j] = response[bufp + j - 1]
    BY <1>0, <1>4 DEF Counts
  <2>2. [j \in 1 .. k |-> Line[j]] = [j \in 1 .. k |-> response[bufp + j - 1]]
    BY <2>1
  <2>3. QED
    BY <2>2, <1>1
<1>7. Line' = [j \in 1 .. Len(Line) - k |-> Line[k + j]]
  <2>1. ASSUME NEW j \in 1 .. nleft - k PROVE Line[k + j] = response[bufp + k + j - 1]
    <3>1. k + j \in 1 .. nleft /\ bufp + (k + j) - 1 = bufp + k + j - 1
      BY <1>0 DEF Counts
    <3>2. QED
      BY <3>1, <1>4
  <2>2. QED
    BY <2>1, <1>4, <1>5
<1>8. QED
  BY <1>2, <1>3, <1>5, <1>6, <1>7 DEF Lines!PutSome

\* Every step of the relay is a step of LineCopy or cannot be seen there.
LEMMA StepRefines == IInv /\ [Next]_vars => [Lines!Next]_(Lines!lineCopyVars)
<1> SUFFICES ASSUME IInv, [Next]_vars PROVE [Lines!Next]_(Lines!lineCopyVars)
  OBVIOUS
<1> USE DEF Lines!lineCopyVars
<1>1. CASE Refill \/ RefillInterrupted
  BY <1>1 DEF Refill, RefillInterrupted, Refilling, Line, Status
<1>2. CASE RefillEof
  BY <1>2, EofGetsLine, EofCloses DEF Lines!Next
<1>3. CASE TakeByte
  <2>1. CASE rio_buf[rio_bufptr] = NL
    BY <1>3, <2>1, NewlineGetsLine DEF Lines!Next
  <2>2. CASE rio_buf[rio_bufptr] # NL
    BY <1>3, <2>2 DEF TakeByte, Unread, Line, Status
  <2>3. QED
    BY <2>1, <2>2
<1>4. CASE LineFull
  BY <1>4, FullGetsLine DEF Lines!Next
<1>5. CASE WriteSome
  BY <1>5, WritePutsSome DEF Lines!Next
<1>6. CASE WriteDone
  <2>1. Line = <<>> /\ Line' = <<>>
    BY <1>6 DEF WriteDone, Line
  <2>2. QED
    BY <1>6, <2>1 DEF WriteDone, Status
<1>7. CASE RefillError \/ WriteError
  BY <1>7 DEF RefillError, WriteError, Refilling, Line, Status, Lines!Next, Lines!Break
<1>8. CASE UNCHANGED vars
  BY <1>8 DEF vars, Line, Status
<1>9. QED
  BY <1>1, <1>2, <1>3, <1>4, <1>5, <1>6, <1>7, <1>8 DEF Next, Progress

\* The relay implements LineCopy: the origin's bytes reach the client line by
\* line, whatever the buffers, the counts and the interruptions.
THEOREM RefinesLines == Spec => LinesSpec
<1>1. Init => Lines!Init
  BY InitIInv DEF IInv, TypeOK, Init, Line, Status, Lines!Init
<1>2. QED
  BY <1>1, Invariance, StepRefines, PTL DEF Spec, LinesSpec, Lines!Spec
=============================================================================
