-------------------------------- MODULE Relay --------------------------------
(***************************************************************************)
(* The loop in which the proxy copies a response to its client (proxy.c,   *)
(* lines 145 to 151), down to the system calls of the Rio package          *)
(* (csapp.c): rio_readlineb and rio_read on the origin's socket,           *)
(* rio_writen on the client's.                                             *)
(*                                                                         *)
(* read() returns any part of what is there, write() takes any part of     *)
(* what it is given, either may be interrupted by a signal or fail.  One   *)
(* action is one system call, or one byte taken from the buffer.           *)
(***************************************************************************)
EXTENDS Integers, Sequences

CONSTANTS Byte,         (* what a byte can be                               *)
          NL,           (* the newline                                      *)
          NUL,          (* the byte 0                                       *)
          RIO_BUFSIZE,  (* size of rio_buf                                  *)
          BUFFER_SIZE,  (* size of response                                 *)
          MaxInput      (* bound: the length of the origin's response       *)

ASSUME RelayAssumption ==
    /\ NL \in Byte /\ NUL \in Byte /\ NL # NUL
    /\ RIO_BUFSIZE \in Nat /\ RIO_BUFSIZE > 0
    /\ BUFFER_SIZE \in Nat /\ BUFFER_SIZE > 1
    /\ MaxInput \in Nat

VARIABLES
    input,       \* what the origin sends before it closes its end
    at,          \* how many bytes of it read() has returned
    rio_buf,     \* web_rio: the buffer,
    rio_cnt,     \*   the number of unread bytes in it,
    rio_bufptr,  \*   and the index of the first of them
    response,    \* char response[BUFFER_SIZE]
    n,           \* the loop variable of rio_readlineb
    nleft,       \* rio_writen: how much is left to write,
    bufp,        \*   and where it starts in response
    output,      \* what the client has received
    pc           \* "read", "write", "closed"; "exited" after unix_error

rio  == <<rio_buf, rio_cnt, rio_bufptr>>
vars == <<input, at, rio, response, n, nleft, bufp, output, pc>>

-----------------------------------------------------------------------------
Init ==
    /\ input \in UNION {[1 .. k -> Byte] : k \in 0 .. MaxInput}
    /\ at = 0
    /\ rio_buf = [k \in 0 .. RIO_BUFSIZE - 1 |-> NUL]
    /\ rio_cnt = 0
    /\ rio_bufptr = 0
    /\ response = [k \in 0 .. BUFFER_SIZE - 1 |-> NUL]
    /\ n = 1
    /\ nleft = 0
    /\ bufp = 0
    /\ output = <<>>
    /\ pc = "read"

(* rio_readlineb returns: a count above 0 goes to rio_writen, 0 closes both
   sockets. *)

ReturnLine(count) ==
    /\ nleft' = count
    /\ bufp' = 0
    /\ pc' = "write"

ReturnEof ==
    /\ pc' = "closed"
    /\ UNCHANGED <<nleft, bufp>>

(* rio_read: refill the buffer when it is empty. *)

\* rio_readlineb wants a byte and the buffer has none.
Refilling == pc = "read" /\ n < BUFFER_SIZE /\ rio_cnt <= 0

Refill ==
    /\ Refilling
    /\ at < Len(input)
    /\ \E k \in 1 .. RIO_BUFSIZE :
          /\ at + k <= Len(input)
          /\ rio_buf' = [j \in 0 .. RIO_BUFSIZE - 1 |->
                            IF j < k THEN input[at + j + 1] ELSE rio_buf[j]]
          /\ rio_cnt' = k
          /\ at' = at + k
    /\ rio_bufptr' = 0
    /\ UNCHANGED <<input, response, n, nleft, bufp, output, pc>>

\* EINTR: rio_cnt is -1 and the loop goes round again.
RefillInterrupted ==
    /\ Refilling
    /\ rio_cnt' = -1
    /\ UNCHANGED <<input, at, rio_buf, rio_bufptr, response, n, nleft, bufp, output, pc>>

\* Rio_readlineb does not return from an error.
RefillError ==
    /\ Refilling
    /\ rio_cnt' = -1
    /\ pc' = "exited"
    /\ UNCHANGED <<input, at, rio_buf, rio_bufptr, response, n, nleft, bufp, output>>

\* Fault: the end of the file is taken for an interrupted call.
RefillEofRetried ==
    /\ Refilling
    /\ at = Len(input)
    /\ rio_cnt' = -1
    /\ UNCHANGED <<input, at, rio_buf, rio_bufptr, response, n, nleft, bufp, output, pc>>

\* End of file: with nothing read response is left as it is.
RefillEof ==
    /\ Refilling
    /\ at = Len(input)
    /\ rio_cnt' = 0
    /\ IF n = 1
         THEN ReturnEof /\ UNCHANGED response
         ELSE ReturnLine(n - 1) /\ response' = [response EXCEPT ![n - 1] = NUL]
    /\ UNCHANGED <<input, at, rio_buf, rio_bufptr, n, output>>

(* rio_readlineb: one byte of a buffer that is not empty. *)

Unread == pc = "read" /\ n < BUFFER_SIZE /\ rio_cnt > 0

\* Fault: the loop does not look for the newline.
TakeAnyByte ==
    /\ Unread
    /\ rio_bufptr' = rio_bufptr + 1
    /\ rio_cnt' = rio_cnt - 1
    /\ response' = [response EXCEPT ![n - 1] = rio_buf[rio_bufptr]]
    /\ n' = n + 1
    /\ UNCHANGED <<input, at, rio_buf, nleft, bufp, output, pc>>

TakeByte ==
    LET c == rio_buf[rio_bufptr]
    IN  /\ Unread
        /\ rio_bufptr' = rio_bufptr + 1
        /\ rio_cnt' = rio_cnt - 1
        /\ IF c = NL
             THEN /\ response' = [response EXCEPT ![n - 1] = c, ![n] = NUL]
                  /\ ReturnLine(n)
                  /\ UNCHANGED n
             ELSE /\ response' = [response EXCEPT ![n - 1] = c]
                  /\ n' = n + 1
                  /\ UNCHANGED <<nleft, bufp, pc>>
        /\ UNCHANGED <<input, at, rio_buf, output>>

\* Fault: the terminating NUL is not counted.
LineFullNoNul ==
    /\ pc = "read"
    /\ n = BUFFER_SIZE
    /\ ReturnLine(n)
    /\ UNCHANGED <<input, at, rio, response, n, output>>

\* The line is longer than response: what fits is returned as a line.
LineFull ==
    /\ pc = "read"
    /\ n = BUFFER_SIZE
    /\ response' = [response EXCEPT ![n - 1] = NUL]
    /\ ReturnLine(n - 1)
    /\ UNCHANGED <<input, at, rio, n, output>>

(* rio_writen: an interrupted write() changes nothing. *)

\* Fault: after a short count the buffer is written from its beginning again.
WriteSomeAgain ==
    /\ pc = "write"
    /\ \E k \in 1 .. nleft :
          /\ output' = output \o [j \in 1 .. k |-> response[bufp + j - 1]]
          /\ nleft' = nleft - k
    /\ UNCHANGED <<input, at, rio, response, n, bufp, pc>>

WriteSome ==
    /\ pc = "write"
    /\ \E k \in 1 .. nleft :
          /\ output' = output \o [j \in 1 .. k |-> response[bufp + j - 1]]
          /\ nleft' = nleft - k
          /\ bufp' = bufp + k
    /\ UNCHANGED <<input, at, rio, response, n, pc>>

\* Rio_writen does not return from an error either.
WriteError ==
    /\ pc = "write" /\ nleft > 0
    /\ pc' = "exited"
    /\ UNCHANGED <<input, at, rio, response, n, nleft, bufp, output>>

\* Everything is written: the next call of Rio_readlineb.
WriteDone ==
    /\ pc = "write" /\ nleft = 0
    /\ pc' = "read"
    /\ n' = 1
    /\ UNCHANGED <<input, at, rio, response, nleft, bufp, output>>

Progress ==
    \/ Refill
    \/ RefillEof
    \/ TakeByte
    \/ LineFull
    \/ WriteSome
    \/ WriteDone

Next ==
    \/ Progress
    \/ RefillInterrupted
    \/ RefillError
    \/ WriteError

Spec == Init /\ [][Next]_vars

\* The origin sends its response and closes, the client reads, and a system call
\* is not interrupted for ever.
FairSpec == Spec /\ WF_vars(Progress)

-----------------------------------------------------------------------------
(* Properties. *)

TypeOK ==
    /\ input \in Seq(Byte)
    /\ at \in 0 .. Len(input)
    /\ rio_buf \in [0 .. RIO_BUFSIZE - 1 -> Byte]
    /\ rio_cnt \in -1 .. RIO_BUFSIZE
    /\ rio_bufptr \in 0 .. RIO_BUFSIZE
    /\ response \in [0 .. BUFFER_SIZE - 1 -> Byte]
    /\ n \in 1 .. BUFFER_SIZE
    /\ nleft \in 0 .. BUFFER_SIZE - 1
    /\ bufp \in 0 .. BUFFER_SIZE - 1
    /\ output \in Seq(Byte)
    /\ pc \in {"read", "write", "closed", "exited"}

\* However the bytes are split up on the way in and on the way out, and whatever
\* they are, the client receives the origin's bytes: a prefix of them at any time,
\* all of them when the proxy closes the connection.
Transparent ==
    /\ Len(output) <= Len(input)
    /\ \A j \in 1 .. Len(output) : output[j] = input[j]
    /\ pc = "closed" => Len(output) = Len(input)

\* What is left to write of the line rio_readlineb has returned.
Line == IF pc = "write" THEN [j \in 1 .. nleft |-> response[bufp + j - 1]] ELSE <<>>

Status ==
    CASE pc \in {"read", "write"} -> "open"
      [] pc = "closed" -> "closed"
      [] pc = "exited" -> "broken"

Lines == INSTANCE LineCopy WITH line <- Line, status <- Status

\* The loop copies line by line: a line is never split, joined to the next or
\* dropped, except where the buffer is full.
LinesSpec == Lines!Spec

\* The response reaches its end, or an error ends the program.
Relayed == <>(pc \in {"closed", "exited"})
=============================================================================
