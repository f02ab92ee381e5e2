------------------------------ MODULE LineCopy ------------------------------
(***************************************************************************)
(* What the Rio package of csapp.c promises to a loop that reads lines from *)
(* one connection and writes them to another: every byte arrives, once and  *)
(* in order, and a line is handed over in one piece.  A line ends at a      *)
(* newline; a longer one is cut where the buffer is full, the last one      *)
(* where the input ends.  Buffering, short counts and interrupted system    *)
(* calls cannot be seen.                                                    *)
(***************************************************************************)
EXTENDS Integers, Sequences

CONSTANTS Byte,        (* what a byte can be                                *)
          NL,          (* the newline                                       *)
          BUFFER_SIZE  (* a line and its terminating NUL fit in it          *)

VARIABLES input,   \* everything the origin sends
          line,    \* what is left to write of the line read last
          output,  \* what the client has received
          status   \* "open", "closed" at the end of the input, or "broken"

lineCopyVars == <<input, line, output, status>>

\* k bytes from position p on are what one call of rio_readlineb returns.
IsLine(p, k) ==
    /\ k \in 1 .. BUFFER_SIZE - 1
    /\ p + k <= Len(input)
    /\ \A j \in 1 .. k - 1 : input[p + j] # NL
    /\ input[p + k] = NL \/ k = BUFFER_SIZE - 1 \/ p + k = Len(input)

Init ==
    /\ input \in Seq(Byte)
    /\ line = <<>>
    /\ output = <<>>
    /\ status = "open"

GetLine ==
    /\ status = "open" /\ line = <<>>
    /\ \E k \in 1 .. BUFFER_SIZE - 1 :
          /\ IsLine(Len(output), k)
          /\ line' = [j \in 1 .. k |-> input[Len(output) + j]]
    /\ UNCHANGED <<input, output, status>>

PutSome ==
    /\ status = "open"
    /\ \E k \in 1 .. Len(line) :
          /\ output' = output \o [j \in 1 .. k |-> line[j]]
          /\ line' = [j \in 1 .. Len(line) - k |-> line[k + j]]
    /\ UNCHANGED <<input, status>>

Close ==
    /\ status = "open" /\ output = input
    /\ status' = "closed"
    /\ UNCHANGED <<input, line, output>>

Break ==
    /\ status = "open"
    /\ status' = "broken"
    /\ line' = <<>>
    /\ UNCHANGED <<input, output>>

Next == GetLine \/ PutSome \/ Close \/ Break

Spec == Init /\ [][Next]_lineCopyVars
=============================================================================
