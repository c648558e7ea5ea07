---------------------------- MODULE MCDnsResolver ----------------------------
(* A query alone under every configuration of servers; the lookup of one   *)
(* address family with another query for it; the two halves of a lookup.   *)
EXTENDS DnsResolver

MCScenarios ==
    ({"none"} \X {"main", "main, fallback", "only fallback", "policy", "rcode policy"} \X Resolvers)
    \cup {<<"LookupIPv4", "main, fallback", "default">>, <<"LookupIPv4", "main", "proxy">>,
          <<"LookupIP", "main", "default">>, <<"LookupIPPrimaryIPv4", "policy", "default">>}
=============================================================================
