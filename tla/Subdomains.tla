----------------------------- MODULE Subdomains -----------------------------
(***************************************************************************)
(* The way of a name: from what a user asks for, through the data of       *)
(* CREATE_TUNNEL, the server's checks and ms.clients, to the URL the       *)
(* client prints and the tunnel, if any, that ServeHTTP finds for it.      *)
(* Strings are sequences of characters over a small alphabet; tunnels are  *)
(* created and closed in one step (TunnelRegistry has the steps).          *)
(***************************************************************************)
EXTENDS Naturals, Sequences, FiniteSets, SequencesExt

CONSTANTS
    Users,
    NoUser,
    Char,           \* characters a user may type
    Lower, Upper,   \* letters, each upper-case one at the place of its lower-case one
    Digit,
    Asks,           \* what users ask for: [name, key]
    Keys,           \* the keys of the server's file, {} without authentication
    MaxLength,      \* of a label: 63
    Reserved,       \* reservedSubdomains of isValidSubdomainName
    Stats,          \* "stats"
    GeneratedIds,   \* of GenerateRandomID
    Domain          \* TunnelHost: the labels of the server's domain

Hyphen == "-"
Bar    == "|"
Dot    == "."
Empty  == <<>>

Letters      == Range(Lower) \cup Range(Upper)
LowerChar(c) == IF c \in Range(Upper)
                THEN Lower[CHOOSE i \in DOMAIN Upper : Upper[i] = c] ELSE c
ToLower(s)   == [i \in DOMAIN s |-> LowerChar(s[i])]

(* What DNS allows a label to be: the reference isValidSubdomainName       *)
(* stands for.                                                             *)
IsLabel(s) ==
    /\ Len(s) \in 1..MaxLength
    /\ Range(s) \subseteq Letters \cup Digit \cup {Hyphen}
    /\ s[1] # Hyphen /\ s[Len(s)] # Hyphen

ASSUME SubdomainsAssumption ==
    /\ Len(Lower) = Len(Upper)
    /\ NoUser \notin Users
    /\ MaxLength \in Nat \ {0}
    /\ {Hyphen, Bar, Dot} \subseteq Char /\ Dot \notin Letters \cup Digit
    /\ Asks \subseteq [name : Seq(Char), key : Seq(Char)]
    /\ GeneratedIds \cup {Stats, Domain} \subseteq Seq(Char)
    /\ Stats \in Reserved /\ IsLabel(Stats)
    /\ \A s \in Reserved : ToLower(s) = s
    /\ \A s \in GeneratedIds : IsLabel(s) /\ ToLower(s) = s /\ s \notin Reserved
    /\ Empty \notin Keys
    /\ "stats" \notin Users \cup {NoUser}   \* of what ServeHTTP answers with

VARIABLES
    asked,   \* what the user's client was started with
    name,    \* the name the user was told, ct.Id, or Empty
    routed   \* users whose tunnel is the one ms.clients holds for its name

vars == <<asked, name, routed>>

NotAsked == [name |-> Empty, key |-> Empty]

Init ==
    /\ asked = [u \in Users |-> NotAsked]
    /\ name = [u \in Users |-> Empty]
    /\ routed = {}

-----------------------------------------------------------------------------
(* strings.Split(s, sep) up to its first parts, and strings.Join           *)
Places(s, sep)    == {i \in DOMAIN s : s[i] = sep}
First(places)     == CHOOSE i \in places : \A j \in places : i <= j
FirstPart(s, sep) ==
    IF Places(s, sep) = {} THEN s ELSE SubSeq(s, 1, First(Places(s, sep)) - 1)
AfterFirst(s, sep) ==
    IF Places(s, sep) = {} THEN Empty ELSE SubSeq(s, First(Places(s, sep)) + 1, Len(s))

(* client Run                                                              *)
CreateData(a) ==
    IF a.name = Empty /\ a.key = Empty THEN Empty ELSE a.name \o <<Bar>> \o a.key

\* mutant
ParseKeyFirst(data) ==
    [name |-> FirstPart(AfterFirst(data, Bar), Bar), key |-> FirstPart(data, Bar)]

(* processTunnelMessages                                                   *)
Parse(data) ==
    [name |-> FirstPart(data, Bar), key |-> FirstPart(AfterFirst(data, Bar), Bar)]

Authenticated(key) == IF Keys = {} THEN key = Empty ELSE key \in Keys

\* mutant
IsValidCaseSensitive(s) ==
    /\ s # Empty /\ s \notin Reserved
    /\ Len(s) <= MaxLength
    /\ \A i \in DOMAIN s : s[i] \in Letters \cup Digit \cup {Hyphen}
    /\ s[1] # Hyphen /\ s[Len(s)] # Hyphen

\* mutant
IsValidPrefixOnly(s) ==
    /\ s # Empty /\ ToLower(s) \notin Reserved
    /\ Len(s) <= MaxLength
    /\ \A i \in DOMAIN s : s[i] \in Letters \cup Digit \cup {Hyphen}
    /\ s[1] # Hyphen

IsValidSubdomainName(s) ==
    /\ s # Empty
    /\ ToLower(s) \notin Reserved
    /\ Len(s) <= MaxLength
    /\ \A i \in DOMAIN s : s[i] \in Letters \cup Digit \cup {Hyphen}
    /\ s[1] # Hyphen /\ s[Len(s)] # Hyphen

Taken(n) == \E u \in routed : name[u] = n

(* GenerateUniqueSubdomain looks ms.clients up for "" only: the name it    *)
(* returns may be taken.                                                   *)
NamesFor(n) ==
    IF n = Empty THEN GeneratedIds ELSE {s \in {n} : IsValidSubdomainName(s) /\ ~Taken(s)}

SameName(n) == {u \in Users : name[u] = n}

(* ms.clients[name] = tunnel: with a taken name, the other tunnel loses    *)
(* its entry.  A refused request leaves everything as it was: the client   *)
(* ends.                                                                   *)
CreateTunnel(u, a) ==
    /\ name[u] = Empty
    /\ LET request == Parse(CreateData(a)) IN
       /\ Authenticated(request.key)
       /\ \E n \in NamesFor(request.name) :
              /\ name' = [name EXCEPT ![u] = n]
              /\ routed' = (routed \ SameName(n)) \cup {u}
    /\ asked' = [asked EXCEPT ![u] = a]

(* delete(ms.clients, ct.Id), whoever has the entry.                       *)
CloseTunnel(u) ==
    /\ name[u] # Empty
    /\ routed' = routed \ SameName(name[u])
    /\ name' = [name EXCEPT ![u] = Empty]
    /\ asked' = [asked EXCEPT ![u] = NotAsked]

Next == \E u \in Users : (\E a \in Asks : CreateTunnel(u, a)) \/ CloseTunnel(u)
Spec == Init /\ [][Next]_vars

-----------------------------------------------------------------------------
(* LogTunnelCreated                                                        *)
UrlHost(n) == n \o <<Dot>> \o Domain

\* mutant
ExtractVerbatim(host) == FirstPart(host, Dot)

ExtractSubdomain(host) == ToLower(FirstPart(host, Dot))

(* ServeHTTP: the stats page, the user whose client gets the request, or   *)
(* the page that says that the tunnel is closed.                           *)
ServeHTTP(host) ==
    LET s == ExtractSubdomain(host) IN
    IF s = Stats THEN "stats"
    ELSE IF Taken(s) THEN CHOOSE u \in routed : name[u] = s
    ELSE NoUser

-----------------------------------------------------------------------------
(* Properties                                                              *)
HasTunnel(u) == name[u] # Empty
IsLower(s)   == ToLower(s) = s
HasBar(s)    == Places(s, Bar) # {}

(* Whatever users type, tunnels have names that are labels DNS can         *)
(* resolve, and a name GenerateRandomID cannot return is nobody else's.    *)
(* Two tunnels may have the same generated name.                           *)
LabelsOnly ==
    \A u \in Users : HasTunnel(u) =>
        /\ IsLabel(name[u])
        /\ name[u] \notin GeneratedIds => SameName(name[u]) = {u}

(* A user who asked for a name without a bar has that one; who asked for   *)
(* none has a generated one.                                               *)
AskedNameGiven ==
    \A u \in Users : HasTunnel(u) /\ ~HasBar(asked[u].name) =>
        IF asked[u].name = Empty THEN name[u] \in GeneratedIds
                                 ELSE name[u] = asked[u].name

(* The URL printed to a user leads to that user's tunnel exactly if the    *)
(* name is in lower case and the tunnel still has its entry, which only a  *)
(* tunnel with the same generated name can have taken or deleted.          *)
UrlReachesTunnel ==
    \A u \in Users : HasTunnel(u) =>
        /\ ServeHTTP(UrlHost(name[u])) = u <=> IsLower(name[u]) /\ u \in routed
        /\ name[u] \notin GeneratedIds => u \in routed

(* No tunnel is behind the stats page, in whatever case its name is, and   *)
(* none is in front of it.                                                 *)
StatsApart ==
    /\ \A u \in Users : HasTunnel(u) => ServeHTTP(UrlHost(name[u])) # "stats"
    /\ ServeHTTP(UrlHost(Stats)) = "stats"
=============================================================================
