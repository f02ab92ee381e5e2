-------------------------------- MODULE MCTiny --------------------------------
(* Tiny for TLC: the URIs and the request lines of its clients.                *)
EXTENDS Tiny

\* Every page, and every program with and without its two arguments.
MCUris == [path : Pages, pair : {FALSE}] \cup [path : Programs, pair : BOOLEAN]

\* GET of each URI, GET without one, another method, and an empty line.
MCRequests ==
    [method : {"GET"}, uri : MCUris \cup {NoWord}]
        \cup [method : {"POST", NoWord}, uri : {NoWord}]
===============================================================================
