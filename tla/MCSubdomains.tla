---------------------------- MODULE MCSubdomains ----------------------------
(***************************************************************************)
(* An instance of Subdomains for TLC.  "st" stands for the reserved        *)
(* "stats", "ts" for another reserved name; labels have at most 3          *)
(* characters; users ask for every word of up to 3 characters, and some    *)
(* of 4.                                                                   *)
(***************************************************************************)
EXTENDS Subdomains

CONSTANTS u1, u2

MCLower == <<"s", "t">>
MCUpper == <<"S", "T">>
MCStats == <<"s", "t">>
MCReserved == {MCStats, <<"t", "s">>}
MCGenerated == {<<"s", "0", "t">>, <<"0", "s", "s">>}
MCDomain == <<"t", "t", ".", "t">>

Alphabet == {"s", "S", "t", "T", "0", "-", "_", "|", "."}
MCChar == Alphabet \cup {"k"}
Words == UNION {[1..n -> Alphabet] : n \in 1..3}
Key   == <<"s">>
NoKey == <<"t">>
MCKeys == {Key, <<"k", "|", "0">>}
MCAsks ==
    [name : {Empty, <<"s">>, <<"S">>, <<"t", "|">>}, key : {Empty, NoKey} \cup MCKeys]
        \cup [name : Words, key : {Key}]
        \cup [name : {<<"s", "t", "s", "t">>, <<"s", "-", "-", "s">>}, key : {Key}]

(* LogTunnelCreated: "A mmar tunnel is now open on" the URL.               *)
OpenOnUrl == \A u \in Users : HasTunnel(u) => ServeHTTP(UrlHost(name[u])) = u
=============================================================================
