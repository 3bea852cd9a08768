-------------------------- MODULE SubdomainsProofs --------------------------
(***************************************************************************)
(* What a user types, what ms.clients holds and where the printed URL      *)
(* leads, for every set of users, requests, reserved names and keys, and   *)
(* for strings of any length. The argument:                                *)
(*   - the first place of a separator exists (a well-ordering argument, no *)
(*     induction over the string), so strings.Split undoes strings.Join    *)
(*     when the first part is without the separator;                       *)
(*   - so the name the server parses is the name the user asked for,       *)
(*     unless that has a bar in it, and is validated or generated in any   *)
(*     case: names in ms.clients are labels, and not reserved ones         *)
(*     whatever their case (NamesInv);                                     *)
(*   - a label has no dot, so ExtractSubdomain gives its lower-case form   *)
(*     back from the URL, and ServeHTTP looks for that one.                *)
(***************************************************************************)
EXTENDS Subdomains, SequenceTheorems, WellFoundedInduction, TLAPS

(* Strings.                                                                *)
Text == Seq(Char)

(* A name ms.clients may hold. That its lower-case form is not reserved is *)
(* what the last theorem rests on: ExtractSubdomain lowers the case of a   *)
(* host before it is compared with "stats".                                *)
Named(n) == n \in Text /\ IsLabel(n) /\ ToLower(n) \notin Reserved

(* What ms.clients can be: one tunnel for a name, and every tunnel whose   *)
(* name GenerateRandomID cannot return.                                    *)
EntriesInv ==
    /\ routed \subseteq {u \in Users : HasTunnel(u)}
    /\ \A u, v \in routed : name[u] = name[v] => u = v
    /\ \A u \in Users : HasTunnel(u) /\ name[u] \notin GeneratedIds => u \in routed

(* The inductive invariant of CreateTunnel and CloseTunnel.                *)
NamesInv ==
    /\ asked \in [Users -> [name : Text, key : Text]]
    /\ name \in [Users -> Text]
    /\ \A u \in Users : HasTunnel(u) => Named(name[u])
    /\ LabelsOnly /\ AskedNameGiven
    /\ EntriesInv

-----------------------------------------------------------------------------
(* A nonempty set of places has a first one, and First is it.              *)
LEMMA LeastPlace ==
    ASSUME NEW P, P \subseteq Nat, P # {}
    PROVE  First(P) \in P /\ \A j \in P : First(P) <= j
<1> DEFINE Less == {ss \in Nat \X Nat : ss[1] < ss[2]}
<1>1. OpToRel(<, Nat) = Less
  BY Zenon DEF OpToRel
<1>2. IsWellFoundedOn(Less, Nat)
  BY <1>1, NatLessThanWellFounded, Zenon
<1> HIDE DEF Less
<1>3. PICK x \in P : \A y \in P : <<y, x>> \notin Less
  BY <1>2, WFMin
<1>4. ASSUME NEW y \in P PROVE x <= y
  <2>1. x \in Nat /\ y \in Nat
    OBVIOUS
  <2>2. <<y, x>> \in Less <=> y < x
    BY <2>1 DEF Less
  <2> QED BY <1>3, <2>1, <2>2
<1> QED BY <1>4 DEF First

(* The first part of a string is a string.                                 *)
LEMMA FirstPartType ==
    ASSUME NEW s \in Text, NEW sep
    PROVE  FirstPart(s, sep) \in Text
<1>1. CASE Places(s, sep) = {}
  BY <1>1 DEF FirstPart
<1>2. CASE Places(s, sep) # {}
  <2>1. Places(s, sep) \subseteq 1..Len(s)
    BY DEF Places, Text
  <2>2. First(Places(s, sep)) \in 1..Len(s)
    BY <1>2, <2>1, LeastPlace
  <2> DEFINE k == First(Places(s, sep)) - 1
  <2>3. SubSeq(s, 1, k) \in Text
    <3>1. k \in Int /\ k <= Len(s)
      BY <2>2 DEF Text
    <3> HIDE DEF k
    <3> QED BY <3>1, SubSeqProperties DEF Text
  <2> QED BY <1>2, <2>3 DEF FirstPart
<1> QED BY <1>1, <1>2

(* strings.Split undoes strings.Join: what comes before the separator is   *)
(* the first string that was joined, if that has no separator in it.       *)
LEMMA FirstPartJoin ==
    ASSUME NEW s \in Text, NEW t \in Text, NEW sep \in Char, Places(s, sep) = {}
    PROVE  FirstPart(s \o <<sep>> \o t, sep) = s
<1> DEFINE j == s \o <<sep>> \o t
           m == Len(s)
<1> USE DEF Text
<1>1. /\ s \o <<sep>> \in Seq(Char) /\ Len(s \o <<sep>>) = m + 1
      /\ (s \o <<sep>>)[m + 1] = sep
      /\ \A i \in 1..m : (s \o <<sep>>)[i] = s[i]
  <2>1. <<sep>> \in Seq(Char) /\ Len(<<sep>>) = 1 /\ <<sep>>[1] = sep
    OBVIOUS
  <2> QED BY <2>1, ConcatProperties
<1>2. /\ j \in Seq(Char) /\ Len(j) = m + 1 + Len(t)
      /\ j[m + 1] = sep /\ \A i \in 1..m : j[i] = s[i]
  BY <1>1, ConcatProperties
<1>3. m \in Nat /\ Len(t) \in Nat /\ DOMAIN s = 1..m
  OBVIOUS
<1>4. DOMAIN j = 1..(m + 1 + Len(t))
  BY <1>2
<1> HIDE DEF j, m, Text
<1>5. m + 1 \in Places(j, sep) /\ Places(j, sep) \subseteq Nat
  BY <1>2, <1>3, <1>4 DEF Places
<1>6. \A i \in Places(j, sep) : m + 1 <= i
  <2> SUFFICES ASSUME NEW i \in Places(j, sep), ~(m + 1 <= i) PROVE FALSE
    OBVIOUS
  <2>1. i \in 1..m /\ j[i] = sep
    BY <1>3, <1>4 DEF Places
  <2> QED BY <2>1, <1>2, <1>3 DEF Places
<1>7. First(Places(j, sep)) = m + 1
  <2>1. First(Places(j, sep)) \in Nat
        /\ m + 1 <= First(Places(j, sep)) /\ First(Places(j, sep)) <= m + 1
    BY <1>5, <1>6, LeastPlace
  <2> QED BY <2>1, <1>3
<1>8. SubSeq(j, 1, m) = s
  <2>1. SubSeq(j, 1, m) \in Seq(Char) /\ Len(SubSeq(j, 1, m)) = m
        /\ \A i \in 1..m : SubSeq(j, 1, m)[i] = j[i]
    BY <1>2, <1>3, SubSeqProperties
  <2> QED BY <2>1, <1>2, <1>3, SeqEqual DEF Text, m
<1>9. FirstPart(j, sep) = SubSeq(j, 1, (m + 1) - 1)
  <2>1. Places(j, sep) # {}
    BY <1>5
  <2>2. FirstPart(j, sep) = SubSeq(j, 1, First(Places(j, sep)) - 1)
    BY <2>1, Zenon DEF FirstPart
  <2> QED BY <2>2, <1>7, Zenon
<1> QED BY <1>3, <1>8, <1>9 DEF j

(* A string without the separator is its own first part.                   *)
LEMMA FirstPartAlone ==
    ASSUME NEW s, NEW sep, Places(s, sep) = {}
    PROVE  FirstPart(s, sep) = s
BY DEF FirstPart

(* The server reads from CREATE_TUNNEL the name the client was given, if   *)
(* that has no bar; a string in any case.                                  *)
LEMMA ParsedName ==
    ASSUME NEW a \in [name : Text, key : Text]
    PROVE  /\ Parse(CreateData(a)).name \in Text
           /\ ~HasBar(a.name) => Parse(CreateData(a)).name = a.name
<1>1. Bar \in Char
  BY SubdomainsAssumption
<1>2. Parse(CreateData(a)).name = FirstPart(CreateData(a), Bar)
  BY DEF Parse
<1>3. CASE a.name = Empty /\ a.key = Empty
  <2>1. CreateData(a) = Empty
    BY <1>3 DEF CreateData
  <2>2. Places(Empty, Bar) = {} /\ Empty \in Text
    BY DEF Places, Empty, Text
  <2> QED BY <1>2, <1>3, <2>1, <2>2, FirstPartAlone
<1>4. CASE ~(a.name = Empty /\ a.key = Empty)
  <2>1. CreateData(a) = a.name \o <<Bar>> \o a.key
    BY <1>4, Zenon DEF CreateData
  <2>2. a.name \in Text /\ a.key \in Text
    OBVIOUS
  <2>3. a.name \o <<Bar>> \o a.key \in Text
    BY <1>1, <2>2 DEF Text
  <2> QED BY <1>1, <1>2, <2>1, <2>2, <2>3, FirstPartType, FirstPartJoin DEF HasBar
<1> QED BY <1>3, <1>4

(* What isValidSubdomainName accepts is a label, and "stats" in no case.   *)
LEMMA ValidIsNamed ==
    ASSUME NEW s \in Text, IsValidSubdomainName(s)
    PROVE  Named(s) /\ s # Empty
<1>1. Len(s) \in 1..MaxLength
  BY SubdomainsAssumption DEF IsValidSubdomainName, Text, Empty
<1>2. Range(s) \subseteq Letters \cup Digit \cup {Hyphen}
  BY DEF IsValidSubdomainName, Range
<1> QED BY <1>1, <1>2 DEF IsValidSubdomainName, Named, IsLabel

(* The same of the names GenerateRandomID gives.                           *)
LEMMA GeneratedIsNamed ==
    ASSUME NEW s \in GeneratedIds
    PROVE  s \in Text /\ Named(s) /\ s # Empty
<1>1. s \in Text /\ IsLabel(s) /\ ToLower(s) = s /\ s \notin Reserved
  BY SubdomainsAssumption DEF Text
<1>2. s # Empty
  BY <1>1, SubdomainsAssumption DEF IsLabel, Empty
<1> QED BY <1>1, <1>2 DEF Named

(* A tunnel created for any request keeps the names in order:              *)
(* processTunnelMessages and newClientTunnel together.                     *)
LEMMA CreateKeepsNames ==
    ASSUME NamesInv, NEW u \in Users, NEW a \in Asks, CreateTunnel(u, a)
    PROVE  NamesInv'
<1> DEFINE asked_name == Parse(CreateData(a)).name
<1>1. a \in [name : Text, key : Text]
  BY SubdomainsAssumption DEF Text
<1>2. asked_name \in Text /\ (~HasBar(a.name) => asked_name = a.name)
  BY <1>1, ParsedName
<1>3. PICK n \in NamesFor(asked_name) :
          /\ name' = [name EXCEPT ![u] = n]
          /\ routed' = (routed \ SameName(n)) \cup {u}
  BY DEF CreateTunnel
<1> HIDE DEF asked_name
<1>4. /\ asked_name = Empty => n \in GeneratedIds
      /\ asked_name # Empty => n = asked_name /\ IsValidSubdomainName(n) /\ ~Taken(n)
  BY <1>3 DEF NamesFor
<1>5. n \in Text /\ Named(n) /\ n # Empty
  BY <1>2, <1>4, ValidIsNamed, GeneratedIsNamed
<1>6. asked' = [asked EXCEPT ![u] = a]
  BY DEF CreateTunnel
<1>7. \A v \in Users : HasTunnel(v)' => Named(name'[v])
  BY <1>3, <1>5 DEF NamesInv, HasTunnel
<1>8. n \notin GeneratedIds => SameName(n) = {}
  <2> SUFFICES ASSUME n \notin GeneratedIds, NEW v \in Users, name[v] = n PROVE FALSE
    BY DEF SameName
  <2>1. ~Taken(n) /\ HasTunnel(v)
    BY <1>4, <1>5 DEF HasTunnel
  <2> QED BY <2>1 DEF NamesInv, EntriesInv, Taken
<1>9. LabelsOnly'
  BY <1>3, <1>5, <1>8 DEF NamesInv, HasTunnel, LabelsOnly, SameName, Named
<1>10. EntriesInv'
  BY <1>3, <1>5, <1>8 DEF NamesInv, EntriesInv, HasTunnel, SameName
<1>11. AskedNameGiven'
  BY <1>1, <1>2, <1>3, <1>4, <1>5, <1>6 DEF NamesInv, HasTunnel, AskedNameGiven
<1>12. /\ asked' \in [Users -> [name : Text, key : Text]]
       /\ name' \in [Users -> Text]
  BY <1>1, <1>3, <1>5, <1>6 DEF NamesInv
<1> QED BY <1>7, <1>9, <1>10, <1>11, <1>12 DEF NamesInv

(* Before the first tunnel there is no name.                               *)
LEMMA NamesInit == Init => NamesInv
<1> SUFFICES ASSUME Init PROVE NamesInv
  OBVIOUS
<1>1. Empty \in Text
  BY DEF Empty, Text
<1> QED BY <1>1 DEF Init, NamesInv, EntriesInv, HasTunnel, LabelsOnly, AskedNameGiven, NotAsked

(* Creating and closing tunnels keeps the names in order.                  *)
LEMMA NamesStep == NamesInv /\ [Next]_vars => NamesInv'
<1> SUFFICES ASSUME NamesInv, [Next]_vars PROVE NamesInv'
  OBVIOUS
<1>1. ASSUME NEW u \in Users, NEW a \in Asks, CreateTunnel(u, a) PROVE NamesInv'
  BY <1>1, CreateKeepsNames
<1>2. ASSUME NEW u \in Users, CloseTunnel(u) PROVE NamesInv'
  <2>1. Empty \in Text
    BY DEF Empty, Text
  <2>2. /\ name[u] # Empty
        /\ name' = [name EXCEPT ![u] = Empty] /\ asked' = [asked EXCEPT ![u] = NotAsked]
        /\ routed' = routed \ SameName(name[u])
    BY <1>2 DEF CloseTunnel
  <2>3. LabelsOnly' /\ AskedNameGiven'
    BY <2>2 DEF NamesInv, HasTunnel, LabelsOnly, AskedNameGiven, SameName
  <2>4. EntriesInv'
    <3>1. \A v \in Users : HasTunnel(v) /\ name[v] \notin GeneratedIds
                              /\ name[v] = name[u] => v = u
      BY <2>2 DEF NamesInv, HasTunnel, LabelsOnly, SameName
    <3> QED BY <2>2, <3>1 DEF NamesInv, EntriesInv, HasTunnel, SameName
  <2> QED BY <2>1, <2>2, <2>3, <2>4 DEF NamesInv, HasTunnel, NotAsked
<1>3. CASE UNCHANGED vars
  BY <1>3 DEF vars, NamesInv, EntriesInv, HasTunnel, LabelsOnly, AskedNameGiven, SameName
<1> QED BY <1>1, <1>2, <1>3 DEF Next

(* The names are in order in every state.                                  *)
LEMMA NamesInvariant == Spec => []NamesInv
BY NamesInit, NamesStep, PTL DEF Spec

(* Every tunnel has a label DNS can resolve, and a name GenerateRandomID   *)
(* cannot return has one tunnel: isValidSubdomainName and the check of     *)
(* ms.clients in newClientTunnel, for strings of any length and whatever   *)
(* generated names collide.                                                *)
THEOREM NamesAreLabels == Spec => []LabelsOnly
<1>1. NamesInv => LabelsOnly
  BY DEF NamesInv
<1> QED BY <1>1, NamesInvariant, PTL

(* A user gets the name asked for, if it has no bar, and a generated one   *)
(* if none was asked for: the data of CREATE_TUNNEL from client Run        *)
(* through processTunnelMessages.                                          *)
THEOREM AskedNamesAreGiven == Spec => []AskedNameGiven
<1>1. NamesInv => AskedNameGiven
  BY DEF NamesInv
<1> QED BY <1>1, NamesInvariant, PTL

-----------------------------------------------------------------------------
(* ExtractSubdomain of the URL of a label is the label in lower case.      *)
LEMMA HostOfLabel ==
    ASSUME NEW n \in Text, IsLabel(n)
    PROVE  ExtractSubdomain(UrlHost(n)) = ToLower(n)
<1>1. Places(n, Dot) = {}
  <2> SUFFICES ASSUME NEW i \in DOMAIN n, n[i] = Dot PROVE FALSE
    BY DEF Places
  <2>1. Dot \in Letters \cup Digit \cup {Hyphen}
    BY DEF IsLabel, Range
  <2>2. Dot # Hyphen
    BY DEF Dot, Hyphen
  <2> QED BY <2>1, <2>2, SubdomainsAssumption
<1>2. Dot \in Char /\ Domain \in Text
  BY SubdomainsAssumption DEF Text
<1> QED BY <1>1, <1>2, FirstPartJoin DEF ExtractSubdomain, UrlHost

(* Where the URL of a tunnel leads: never to the stats page, and to the    *)
(* tunnel exactly if its name is in lower case and its entry still there.  *)
LEMMA NamedHost ==
    ASSUME NamesInv, NEW u \in Users, HasTunnel(u)
    PROVE  /\ ServeHTTP(UrlHost(name[u])) # "stats"
           /\ ServeHTTP(UrlHost(name[u])) = u <=> IsLower(name[u]) /\ u \in routed
<1> DEFINE n == name[u]
           low == ToLower(n)
<1>1. n \in Text /\ IsLabel(n) /\ low \notin Reserved /\ n # Empty
  BY DEF NamesInv, Named, HasTunnel
<1>2. low # Stats
  BY <1>1, SubdomainsAssumption
<1>3. ExtractSubdomain(UrlHost(n)) = low
  BY <1>1, HostOfLabel
<1>4. CASE Taken(low)
  <2> DEFINE w == ServeHTTP(UrlHost(n))
  <2>1. w \in routed /\ name[w] = low
    BY <1>2, <1>3, <1>4 DEF ServeHTTP, Taken
  <2>2. w \in Users
    BY <2>1 DEF NamesInv, EntriesInv
  <2>3. w = u <=> low = n /\ u \in routed
    BY <2>1 DEF NamesInv, EntriesInv
  <2> QED BY <2>2, <2>3, SubdomainsAssumption DEF IsLower
<1>5. CASE ~Taken(low)
  <2>1. ~(low = n /\ u \in routed)
    BY <1>5 DEF Taken
  <2>2. ServeHTTP(UrlHost(n)) = NoUser
    BY <1>2, <1>3, <1>5 DEF ServeHTTP
  <2> QED BY <2>1, <2>2, SubdomainsAssumption DEF IsLower
<1> QED BY <1>4, <1>5

(* The host of the stats page leads to the stats page.                     *)
LEMMA StatsHost == ServeHTTP(UrlHost(Stats)) = "stats"
<1>1. Stats \in Text /\ IsLabel(Stats) /\ ToLower(Stats) = Stats
  BY SubdomainsAssumption DEF Text
<1> QED BY <1>1, HostOfLabel DEF ServeHTTP

(* The URL LogTunnelCreated prints leads to the tunnel it was printed for  *)
(* exactly if the name is in lower case and the tunnel has its entry:      *)
(* ExtractSubdomain lowers the host, ms.clients has the name as it was     *)
(* asked for.  A tunnel whose name is not a generated one has its entry.   *)
THEOREM UrlsReachLowerCaseTunnels == Spec => []UrlReachesTunnel
<1>1. NamesInv => UrlReachesTunnel
  BY NamedHost DEF UrlReachesTunnel, NamesInv, EntriesInv
<1> QED BY <1>1, NamesInvariant, PTL

(* No tunnel stands behind the stats page or hides it: the check of the    *)
(* reserved names in isValidSubdomainName against the order of the checks  *)
(* in ServeHTTP.                                                           *)
THEOREM StatsPageApart == Spec => []StatsApart
<1>1. NamesInv => StatsApart
  BY NamedHost, StatsHost DEF StatsApart
<1> QED BY <1>1, NamesInvariant, PTL
=============================================================================
