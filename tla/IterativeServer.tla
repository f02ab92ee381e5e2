--------------------------- MODULE IterativeServer ---------------------------
(***************************************************************************)
(* What a server that handles one connection at a time promises to its     *)
(* clients: connections are accepted in the order in which they were made, *)
(* the next one only when the last has been closed, nobody but the client  *)
(* that is being served hears anything, and a connection that was closed   *)
(* stays closed.  The server may end at any time; what was open is lost.   *)
(***************************************************************************)
EXTENDS Sequences

CONSTANTS Conn,    (* connections                                          *)
          Answer,  (* what a client can hear                               *)
          Nobody   (* no connection                                        *)

VARIABLES queue,    \* connections made and not accepted yet
          serving,  \* the connection accepted last, or Nobody
          served,   \* connections the server has closed
          heard,    \* what was written to each connection
          up        \* the server has not ended

serverVars == <<queue, serving, served, heard, up>>

Init ==
    /\ queue = <<>>
    /\ serving = Nobody
    /\ served = {}
    /\ heard = [c \in Conn |-> <<>>]
    /\ up = TRUE

Arrive(c) ==
    /\ up
    /\ c \notin served /\ c # serving
    /\ \A k \in DOMAIN queue : queue[k] # c
    /\ queue' = Append(queue, c)
    /\ UNCHANGED <<serving, served, heard, up>>

Accept ==
    /\ up /\ serving = Nobody /\ queue # <<>>
    /\ serving' = Head(queue)
    /\ queue' = Tail(queue)
    /\ UNCHANGED <<served, heard, up>>

Say ==
    /\ up /\ serving # Nobody
    /\ \E a \in Answer : heard' = [heard EXCEPT ![serving] = Append(@, a)]
    /\ UNCHANGED <<queue, serving, served, up>>

Close ==
    /\ up /\ serving # Nobody
    /\ served' = served \cup {serving}
    /\ serving' = Nobody
    /\ UNCHANGED <<queue, heard, up>>

End ==
    /\ up
    /\ up' = FALSE
    /\ queue' = <<>>
    /\ serving' = Nobody
    /\ UNCHANGED <<served, heard>>

Next == (\E c \in Conn : Arrive(c)) \/ Accept \/ Say \/ Close \/ End

Spec == Init /\ [][Next]_serverVars
=============================================================================
