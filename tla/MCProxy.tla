------------------------------- MODULE MCProxy -------------------------------
(* Proxy for TLC: the URIs and the lines its clients send.                     *)
EXTENDS Proxy

Uri(s, h, po, pa) == [slashes |-> s, host |-> h, port |-> po, path |-> pa]

\* http://a/x, http://a:8080/x, http://a:8080, /x, http://0/x, and the proxy itself.
MCPlain    == Uri(TRUE, <<"a">>, <<>>, <<"/x">>)
MCPort     == Uri(TRUE, <<"a">>, <<"8080">>, <<"/x">>)
MCPortOnly == Uri(TRUE, <<"a">>, <<"8080">>, <<>>)
MCRelative == Uri(FALSE, <<>>, <<>>, <<"/x">>)
MCZero     == Uri(TRUE, <<"0">>, <<>>, <<"/x">>)
MCOwnUri   == Uri(TRUE, <<"proxy">>, <<"23361">>, <<"/x">>)

MCUris == {MCPlain, MCPort, MCPortOnly, MCRelative, MCZero, MCOwnUri}

\* An empty line, a lone method, another method, and GET of each URI.
MCRequests == {<<>>, <<GET>>, <<"POST", MCPlain>>} \cup {<<GET, u>> : u \in MCUris}

MCPort80    == <<"80">>
MCSlash     == <<"/">>
MCZeroHosts == {<<"0">>}
MCOwn       == [host |-> <<"proxy">>, port |-> <<"23361">>]
MCServers   == {MCOwn} \cup {[host |-> <<"a">>, port |-> <<p>>] : p \in {"80", "8080"}}
=============================================================================
