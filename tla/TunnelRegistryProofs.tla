------------------------ MODULE TunnelRegistryProofs ------------------------
(***************************************************************************)
(* Proofs about TunnelRegistry, for every number of connections, addresses,*)
(* names and tokens.                                                       *)
(***************************************************************************)
EXTENDS TunnelRegistryInv, GoSliceTheorems

-----------------------------------------------------------------------------
(* The goroutines of a connection.                                         *)
LEMMA ProcFacts ==
    /\ \A c \in Conns : /\ Reader(c) \in Procs /\ Async(c) \in Procs
                        /\ ConnOf(Reader(c)) = c /\ ConnOf(Async(c)) = c
                        /\ Reader(c)[2] = "reader" /\ Async(c)[2] = "async"
    /\ \A c, d \in Conns : Reader(c) # Async(d)
    /\ \A c, d \in Conns : Reader(c) = Reader(d) => c = d
    /\ \A c, d \in Conns : Async(c) = Async(d) => c = d
    /\ \A p \in Procs : /\ ConnOf(p) \in Conns
                        /\ p = Reader(ConnOf(p)) \/ p = Async(ConnOf(p))
BY DEF Procs, Reader, Async, ConnOf

(* A step of the system is one of its actions; whatever panics is a Crash. *)
LEMMA StepCases ==
    [Next]_vars =>
        \/ \E why \in Reasons : Crash(why)
        \/ \E c \in Conns :
             \/ Accept(c) \/ (\E req \in Requests : ReceiveRequest(c, req)) \/ ReceiveClose(c)
             \/ Authenticate(c) \/ AcquireLock(c) \/ RefuseName(c) \/ TakeName(c)
             \/ CheckIP(c) \/ AddClient(c) \/ ReadIP(c) \/ AppendIP(c) \/ StoreIP(c)
             \/ AddKey(c) \/ Reply(c) \/ ReplyFails(c)
             \/ AsyncStarts(c) \/ AsyncEnds(c) \/ AsyncCloses(c) \/ AsyncClosesStray(c)
        \/ \E p \in Procs :
             \/ RemoveClient(p) \/ GetIP(p) \/ DeleteIP(p) \/ PutIP(p) \/ RemoveKey(p)
             \/ DrainChannels(p) \/ CloseConn(p)
        \/ Restart
        \/ UNCHANGED vars
<1> SUFFICES ASSUME [Next]_vars
             PROVE  StepCases!2
  OBVIOUS
<1>1. ASSUME NEW c \in Conns, Receive(c) PROVE StepCases!2
  <2>1. ASSUME NEW req \in Requests, ReclaimRegistered(c, req)
        PROVE  Crash("nilOnReclaim") \/ ReceiveClose(c)
    BY <2>1 DEF ReclaimRegistered, ReceiveClose
  <2>2. CASE \E req \in Requests : ReclaimRegistered(c, req)
    BY <2>1, <2>2 DEF Reasons
  <2> QED BY <1>1, <2>2 DEF Receive, ReceiveCloseNoTunnel, ReceiveResponseNoTunnel, Reasons
<1>2. ASSUME NEW c \in Conns, Create(c) PROVE StepCases!2
  BY <1>2 DEF Create
<1>3. ASSUME NEW c \in Conns, Asynchronous(c) PROVE StepCases!2
  BY <1>3 DEF Asynchronous, AsyncClosesNoTunnel, Reasons
<1>4. ASSUME NEW p \in Procs, Close(p) PROVE StepCases!2
  BY <1>4 DEF Close, DrainClosedChannels, Reasons
<1>5. CASE MapRace \/ Shutdown \/ Restart \/ UNCHANGED vars
  BY <1>5 DEF MapRace, Shutdown, Reasons
<1> QED BY <1>1, <1>2, <1>3, <1>4, <1>5 DEF Next

-----------------------------------------------------------------------------
(* Type correctness.                                                       *)

(* The tunnel a goroutine closes.                                          *)
LEMMA TunnelTypes ==
    TypeOK => /\ NoAsk \in Tunnels
              /\ \A c \in Conns : Current(c) \in Tunnels /\ Strays(c) \subseteq Tunnels
              /\ \A p \in Procs : TunnelOf(p) \in Tunnels
<1> SUFFICES ASSUME TypeOK PROVE TunnelTypes!2
  OBVIOUS
<1>1. NoAsk \in Tunnels
  BY RegistryAssumption DEF NoAsk, Tunnels
<1>2. ASSUME NEW c \in Conns PROVE Current(c) \in Tunnels
  <2>1. ask[c] \in Asks /\ sub[c] \in TunnelIds \cup {NoName}
    BY DEF TypeOK
  <2>2. ask[c].token \in Tokens \cup {NoToken}
    BY <2>1 DEF Asks
  <2> QED BY <2>1, <2>2 DEF Current, Tunnels
<1>3. \A c \in Conns : stray[c] \in Tunnels
  BY DEF TypeOK
<1>4. \A c \in Conns : Strays(c) \subseteq Tunnels
  BY <1>1, <1>2, <1>3 DEF Strays
<1>5. \A p \in Procs : TunnelOf(p) \in Tunnels
  BY <1>2, <1>3, ProcFacts DEF TunnelOf
<1> QED BY <1>1, <1>2, <1>4, <1>5

(* No action leaves the types, the arrays or the names of the tunnels that *)
(* are being created.                                                      *)
LEMMA TypeStep == TypeInv /\ [Next]_vars => TypeInv'
<1> SUFFICES ASSUME TypeInv, [Next]_vars PROVE TypeInv'
  OBVIOUS
<1> USE ProcFacts, RegistryAssumption, AuthAssumption, ArraysAssumption
<1> USE DEF NoName, TypeInv, TypeOK, AuthTypeOK, HeapOK, NamedOK, NamedPoints, Points,
            Creating, Closing, Locked, Up, At, GoTo, SetConn, tables, second, perConn, vars
<1>0. /\ NoAsk \in Tunnels
      /\ \A c \in Conns : Current(c) \in Tunnels /\ Strays(c) \subseteq Tunnels
  BY TunnelTypes
<1>1. ASSUME NEW why \in Reasons, Crash(why) PROVE TypeInv'
  <2>1. EmptySlice \in Headers /\ \A h : h[0] = <<>> => Fits(h, EmptySlice)
    BY DEF EmptySlice, Headers, Arrays, Fits
  <2>2. heap' \in [Arrays -> Seq(TunnelIds \cup {NoName})] /\ heap'[0] = <<>>
    BY <1>1 DEF Crash, Arrays
  <2>3. pc' \in [Procs -> Points] /\ ask' \in [Conns -> Asks]
    BY <1>1 DEF Crash, NoAsk, Asks
  <2>4. TypeOK'
    BY <1>0, <1>1, <2>1, <2>2, <2>3 DEF Crash
  <2>5. HeapOK'
    BY <1>1, <2>1, <2>2 DEF Crash
  <2>6. NamedOK'
    BY <1>1 DEF Crash
  <2> HIDE DEF TypeOK, HeapOK, NamedOK
  <2> QED BY <2>4, <2>5, <2>6
<1>2. ASSUME NEW c \in Conns, Accept(c) PROVE TypeInv'
  <2>1. pc' \in [Procs -> Points]
    BY <1>2 DEF Accept, NoAsk, Asks
  <2>2. ask' \in [Conns -> Asks]
    BY <1>2 DEF Accept, NoAsk, Asks
  <2>6. again' \in [Conns -> BOOLEAN] /\ stray' \in [Conns -> Tunnels]
    BY <1>0, <1>2 DEF Accept
  <2>3. TypeOK'
    BY <1>2, <2>1, <2>2, <2>6 DEF Accept
  <2>4. HeapOK'
    BY <1>2 DEF Accept
  <2>5. NamedOK'
    BY <1>2, <2>1 DEF Accept
  <2> QED BY <2>3, <2>4, <2>5
<1>3. ASSUME NEW c \in Conns, NEW req \in Requests, ReceiveRequest(c, req) PROVE TypeInv'
  <2>1. pc' \in [Procs -> Points]
    BY <1>3 DEF ReceiveRequest, Asks
  <2>2. ask' \in [Conns -> Asks]
    BY <1>3 DEF ReceiveRequest, Asks
  <2>6. again' \in [Conns -> BOOLEAN] /\ stray' \in [Conns -> Tunnels]
    BY <1>0, <1>3 DEF ReceiveRequest
  <2>3. TypeOK'
    BY <1>3, <2>1, <2>2, <2>6 DEF ReceiveRequest
  <2>4. HeapOK'
    BY <1>3 DEF ReceiveRequest
  <2>5. NamedOK'
    BY <1>3, <2>1 DEF ReceiveRequest
  <2> QED BY <2>3, <2>4, <2>5
<1>4. ASSUME NEW c \in Conns, ReceiveClose(c) PROVE TypeInv'
  <2>1. pc' \in [Procs -> Points]
    BY <1>4 DEF ReceiveClose
  <2>2. TypeOK'
    BY <1>4, <2>1 DEF ReceiveClose
  <2>3. HeapOK'
    BY <1>4 DEF ReceiveClose
  <2>4. NamedOK'
    BY <1>4, <2>1 DEF ReceiveClose
  <2> QED BY <2>2, <2>3, <2>4
<1>5. ASSUME NEW c \in Conns, AcquireLock(c) PROVE TypeInv'
  <2>1. pc' \in [Procs -> Points]
    BY <1>5 DEF AcquireLock
  <2>2. TypeOK'
    BY <1>5, <2>1 DEF AcquireLock
  <2>3. HeapOK'
    BY <1>5 DEF AcquireLock
  <2>4. NamedOK'
    BY <1>5, <2>1 DEF AcquireLock
  <2> QED BY <2>2, <2>3, <2>4
<1>6. ASSUME NEW c \in Conns, Reply(c) PROVE TypeInv'
  <2>1. pc' \in [Procs -> Points]
    BY <1>6 DEF Reply
  <2>2. TypeOK'
    BY <1>6, <2>1 DEF Reply
  <2>3. HeapOK'
    BY <1>6 DEF Reply
  <2>4. NamedOK'
    BY <1>6, <2>1 DEF Reply
  <2> QED BY <2>2, <2>3, <2>4
<1>7. ASSUME NEW c \in Conns, ReplyFails(c) PROVE TypeInv'
  <2>1. pc' \in [Procs -> Points]
    BY <1>7 DEF ReplyFails
  <2>2. TypeOK'
    BY <1>7, <2>1 DEF ReplyFails
  <2>3. HeapOK'
    BY <1>7 DEF ReplyFails
  <2>4. NamedOK'
    BY <1>7, <2>1 DEF ReplyFails
  <2> QED BY <2>2, <2>3, <2>4
<1>8. ASSUME NEW c \in Conns, AsyncStarts(c) PROVE TypeInv'
  <2>1. pc' \in [Procs -> Points]
    BY <1>8 DEF AsyncStarts
  <2>2. TypeOK'
    BY <1>8, <2>1 DEF AsyncStarts
  <2>3. HeapOK'
    BY <1>8 DEF AsyncStarts
  <2>4. NamedOK'
    BY <1>8, <2>1 DEF AsyncStarts
  <2> QED BY <2>2, <2>3, <2>4
<1>9. ASSUME NEW c \in Conns, AsyncEnds(c) PROVE TypeInv'
  <2>1. pc' \in [Procs -> Points]
    BY <1>9 DEF AsyncEnds
  <2>2. TypeOK'
    BY <1>0, <1>9, <2>1 DEF AsyncEnds, NoStray
  <2>3. HeapOK'
    BY <1>9 DEF AsyncEnds, NoStray
  <2>4. NamedOK'
    BY <1>9, <2>1 DEF AsyncEnds, NoStray
  <2> QED BY <2>2, <2>3, <2>4
<1>10. ASSUME NEW c \in Conns, AsyncCloses(c) PROVE TypeInv'
  <2>1. pc' \in [Procs -> Points]
    BY <1>10 DEF AsyncCloses
  <2>2. TypeOK'
    BY <1>0, <1>10, <2>1 DEF AsyncCloses, NoStray
  <2>3. HeapOK'
    BY <1>10 DEF AsyncCloses, NoStray
  <2>4. NamedOK'
    BY <1>10, <2>1 DEF AsyncCloses, NoStray
  <2> QED BY <2>2, <2>3, <2>4
<1>11. ASSUME NEW c \in Conns, AddClient(c) PROVE TypeInv'
  <2>1. pc' \in [Procs -> Points]
    BY <1>11 DEF AddClient
  <2>2. TypeOK'
    BY <1>11, <2>1 DEF AddClient
  <2>3. HeapOK'
    BY <1>11 DEF AddClient
  <2>4. NamedOK'
    BY <1>11, <2>1 DEF AddClient
  <2> QED BY <2>2, <2>3, <2>4
<1>12. ASSUME NEW c \in Conns, Authenticate(c) PROVE TypeInv'
  <2>1. pc' \in [Procs -> Points]
    <3>1. \/ pc' = [pc EXCEPT ![Reader(c)] = "lock"]
          \/ pc' = [pc EXCEPT ![Reader(c)] = "ended"]
      BY <1>12 DEF Authenticate, Reject
    <3> QED BY <3>1
  <2>2. conn' \in [Conns -> {"none", "open", "writeClosed", "closed"}]
    BY <1>12 DEF Authenticate, Reject
  <2>3. TypeOK'
    BY <1>12, <2>1, <2>2 DEF Authenticate, Reject
  <2>4. HeapOK'
    BY <1>12 DEF Authenticate, Reject
  <2>5. NamedOK'
    BY <1>12, <2>1 DEF Authenticate, Reject
  <2> QED BY <2>3, <2>4, <2>5
<1>13. ASSUME NEW c \in Conns, RefuseName(c) PROVE TypeInv'
  <2>1. pc' \in [Procs -> Points]
    BY <1>13 DEF RefuseName, Reject
  <2>2. TypeOK'
    BY <1>13, <2>1 DEF RefuseName, Reject
  <2>3. HeapOK'
    BY <1>13 DEF RefuseName, Reject
  <2>4. NamedOK'
    BY <1>13, <2>1 DEF RefuseName, Reject
  <2> QED BY <2>2, <2>3, <2>4
<1>14. ASSUME NEW c \in Conns, TakeName(c) PROVE TypeInv'
  <2>1. pc' \in [Procs -> Points]
    BY <1>14 DEF TakeName
  <2>2. sub' \in [Conns -> TunnelIds \cup {NoName}] /\ sub'[c] \in TunnelIds
    BY <1>14 DEF TakeName, GeneratedNames, NameRefused
  <2>3. [ask[c] EXCEPT !.name = NoName] \in Asks
    <3>1. ask[c] \in Asks
      OBVIOUS
    <3> QED BY <3>1 DEF Asks
  <2>4. ask' \in [Conns -> Asks]
    BY <1>14, <2>3 DEF TakeName
  <2>5. TypeOK'
    BY <1>14, <2>1, <2>2, <2>4 DEF TakeName
  <2>6. HeapOK'
    BY <1>14 DEF TakeName
  <2>7. NamedOK'
    BY <1>14, <2>1, <2>2 DEF TakeName
  <2> QED BY <2>5, <2>6, <2>7
<1>15. ASSUME NEW c \in Conns, CheckIP(c) PROVE TypeInv'
  <2>1. pc' \in [Procs -> Points]
    <3>1. \/ pc' = [pc EXCEPT ![Reader(c)] = "addClient"]
          \/ pc' = [pc EXCEPT ![Reader(c)] = "ended"]
      BY <1>15 DEF CheckIP
    <3> QED BY <3>1
  <2>2. conn' \in [Conns -> {"none", "open", "writeClosed", "closed"}]
    BY <1>15 DEF CheckIP
  <2>3. chanClosed' \in [Conns -> BOOLEAN] /\ lock' \in Conns \cup {NoConn}
    BY <1>15 DEF CheckIP
  <2>4. TypeOK'
    BY <1>15, <2>1, <2>2, <2>3 DEF CheckIP
  <2>5. HeapOK'
    BY <1>15 DEF CheckIP
  <2>6. NamedOK'
    BY <1>15, <2>1 DEF CheckIP
  <2> QED BY <2>4, <2>5, <2>6
<1>16. ASSUME NEW c \in Conns, ReadIP(c) PROVE TypeInv'
  <2>1. pc' \in [Procs -> Points]
    BY <1>16 DEF ReadIP
  <2>2. hdr' \in [Procs -> Headers]
    BY <1>16 DEF ReadIP
  <2>3. TypeOK'
    BY <1>16, <2>1, <2>2 DEF ReadIP
  <2>4. HeapOK'
    BY <1>16 DEF ReadIP
  <2>5. NamedOK'
    BY <1>16, <2>1 DEF ReadIP
  <2> QED BY <2>3, <2>4, <2>5
<1>17. ASSUME NEW p \in Procs, RemoveClient(p) PROVE TypeInv'
  <2>1. pc' \in [Procs -> Points]
    BY <1>17 DEF RemoveClient
  <2>2. TypeOK'
    BY <1>17, <2>1 DEF RemoveClient
  <2>3. HeapOK'
    BY <1>17 DEF RemoveClient
  <2>4. NamedOK'
    BY <1>17, <2>1 DEF RemoveClient
  <2> QED BY <2>2, <2>3, <2>4
<1>18. ASSUME NEW p \in Procs, DrainChannels(p) PROVE TypeInv'
  <2>1. pc' \in [Procs -> Points]
    BY <1>18 DEF DrainChannels
  <2>2. TypeOK'
    BY <1>18, <2>1 DEF DrainChannels
  <2>3. HeapOK'
    BY <1>18 DEF DrainChannels
  <2>4. NamedOK'
    BY <1>18, <2>1 DEF DrainChannels
  <2> QED BY <2>2, <2>3, <2>4
<1>19. ASSUME NEW p \in Procs, CloseConn(p) PROVE TypeInv'
  <2>1. pc' \in [Procs -> Points]
    <3>1. GoTo(p, "idle") \/ GoTo(p, "ended")
      BY <1>19 DEF CloseConn
    <3> QED BY <3>1
  <2>5. stray' \in [Conns -> Tunnels]
    <3>1. NoStray(ConnOf(p)) \/ UNCHANGED stray
      BY <1>19 DEF CloseConn
    <3> QED BY <1>0, <3>1 DEF NoStray
  <2>2. TypeOK'
    BY <1>19, <2>1, <2>5 DEF CloseConn
  <2>3. HeapOK'
    BY <1>19 DEF CloseConn
  <2>4. NamedOK'
    BY <1>19, <2>1 DEF CloseConn
  <2> QED BY <2>2, <2>3, <2>4
<1>20. ASSUME NEW p \in Procs, GetIP(p) PROVE TypeInv'
  <2>1. pc' \in [Procs -> Points]
    BY <1>20 DEF GetIP
  <2>2. hdr' \in [Procs -> Headers]
    BY <1>20 DEF GetIP
  <2>3. TypeOK'
    BY <1>20, <2>1, <2>2 DEF GetIP
  <2>4. HeapOK'
    BY <1>20 DEF GetIP
  <2>5. NamedOK'
    BY <1>20, <2>1 DEF GetIP
  <2> QED BY <2>3, <2>4, <2>5
<1>21. ASSUME NEW c \in Conns, AppendIP(c) PROVE TypeInv'
  <2> DEFINE s == hdr[Reader(c)]
             S == TunnelIds \cup {NoName}
  <2>1. PICK fresh \in FreshArrays :
           /\ heap' = AppendHeap(heap, s, sub[c], fresh)
           /\ hdr' = [hdr EXCEPT ![Reader(c)] = AppendHeader(heap, s, fresh)]
    BY <1>21 DEF AppendIP
  <2>2. fresh \in Arrays /\ (\A ip \in IPs : tunnelsPerIP[ip].arr # fresh)
                        /\ (\A q \in Procs : hdr[q].arr # fresh)
    BY DEF FreshArrays, InUse
  <2>3. s \in Headers /\ Fits(heap, s) /\ sub[c] \in S
    OBVIOUS
  <2> DEFINE t == AppendHeader(heap, s, fresh)
  <2>4. /\ heap' \in [Arrays -> Seq(S)] /\ t \in Headers /\ Fits(heap', t)
        /\ \A u \in Headers : u.arr # fresh /\ Fits(heap, u) => Fits(heap', u)
    <3>1. Zero \in S /\ heap \in [Arrays -> Seq(S)]
      OBVIOUS
    <3> HIDE DEF s, S
    <3> QED BY ONLY <2>1, <2>2, <2>3, <3>1, AppendFits DEF t
  <2>5. hdr' = [hdr EXCEPT ![Reader(c)] = t]
    BY <2>1
  <2> HIDE DEF s, t
  <2>6. pc' \in [Procs -> Points]
    BY <1>21 DEF AppendIP
  <2>7. TypeOK'
    BY <1>21, <2>4, <2>5, <2>6 DEF AppendIP
  <2>8. HeapOK'
    <3>1. \A ip \in IPs : Fits(heap', tunnelsPerIP'[ip])
      BY <1>21, <2>2, <2>4 DEF AppendIP
    <3>2. \A q \in Procs : Fits(heap', hdr'[q])
      BY <2>2, <2>4, <2>5
    <3> QED BY <3>1, <3>2
  <2>9. NamedOK'
    BY <1>21, <2>6 DEF AppendIP
  <2> QED BY <2>7, <2>8, <2>9
<1>22. ASSUME NEW p \in Procs, StoreHeader(p)
      PROVE  /\ tunnelsPerIP' \in [IPs -> Headers] /\ hdr' \in [Procs -> Headers]
             /\ heap' \in [Arrays -> Seq(TunnelIds \cup {NoName})]
             /\ HeapOK'
  <2> DEFINE live == {tunnelsPerIP'[ip].arr : ip \in IPs} \cup {hdr'[q].arr : q \in Procs}
  <2>1. EmptySlice \in Headers /\ Fits(heap, EmptySlice)
    BY DEF EmptySlice, Headers, Arrays, Fits
  <2>2. tunnelsPerIP' \in [IPs -> Headers] /\ hdr' \in [Procs -> Headers]
    BY <1>22, <2>1 DEF StoreHeader
  <2>3. (\A ip \in IPs : Fits(heap, tunnelsPerIP'[ip])) /\ (\A q \in Procs : Fits(heap, hdr'[q]))
    BY <1>22, <2>1 DEF StoreHeader
  <2>4. heap' = Collect(heap, live)
    BY <1>22 DEF StoreHeader
  <2>5. /\ heap' \in [Arrays -> Seq(TunnelIds \cup {NoName})]
        /\ \A t \in Headers : t.arr \in live /\ Fits(heap, t) => Fits(heap', t)
    <3> HIDE DEF live
    <3> QED BY <2>4, CollectFits
  <2>6. (\A ip \in IPs : tunnelsPerIP'[ip].arr \in live) /\ (\A q \in Procs : hdr'[q].arr \in live)
    OBVIOUS
  <2> HIDE DEF live
  <2>7. \A ip \in IPs : Fits(heap', tunnelsPerIP'[ip])
    BY <2>2, <2>3, <2>5, <2>6
  <2>8. \A q \in Procs : Fits(heap', hdr'[q])
    BY <2>2, <2>3, <2>5, <2>6
  <2> QED BY <2>2, <2>5, <2>7, <2>8
<1>23. ASSUME NEW c \in Conns, StoreIP(c) PROVE TypeInv'
  <2>1. pc' \in [Procs -> Points]
    BY <1>23 DEF StoreIP
  <2>2. /\ tunnelsPerIP' \in [IPs -> Headers] /\ hdr' \in [Procs -> Headers]
        /\ heap' \in [Arrays -> Seq(TunnelIds \cup {NoName})]
        /\ HeapOK'
    <3> HIDE DEF HeapOK
    <3> QED BY <1>23, <1>22 DEF StoreIP
  <2>3. TypeOK'
    BY <1>23, <2>1, <2>2 DEF StoreIP
  <2>4. NamedOK'
    BY <1>23, <2>1 DEF StoreIP
  <2> HIDE DEF TypeOK, HeapOK, NamedOK
  <2> QED BY <2>2, <2>3, <2>4
<1>24. ASSUME NEW p \in Procs, PutIP(p) PROVE TypeInv'
  <2>1. pc' \in [Procs -> Points]
    BY <1>24 DEF PutIP
  <2>2. /\ tunnelsPerIP' \in [IPs -> Headers] /\ hdr' \in [Procs -> Headers]
        /\ heap' \in [Arrays -> Seq(TunnelIds \cup {NoName})]
        /\ HeapOK'
    <3> HIDE DEF HeapOK
    <3> QED BY <1>24, <1>22 DEF PutIP
  <2>3. TypeOK'
    BY <1>24, <2>1, <2>2 DEF PutIP
  <2>4. NamedOK'
    BY <1>24, <2>1 DEF PutIP
  <2> HIDE DEF TypeOK, HeapOK, NamedOK
  <2> QED BY <2>2, <2>3, <2>4
<1>25. ASSUME NEW p \in Procs, DeleteIP(p) PROVE TypeInv'
  <2> DEFINE s == hdr[p]
             S == TunnelIds \cup {NoName}
             found == Positions(heap, s, TunnelOf(p).name)
  <2>1. pc' \in [Procs -> Points]
    BY <1>25 DEF DeleteIP
  <2>5. NamedOK'
    BY <1>25, <2>1 DEF DeleteIP
  <2>2. s \in Headers /\ Fits(heap, s) /\ heap \in [Arrays -> Seq(S)] /\ Zero \in S
    OBVIOUS
  <2>3. CASE found # {}
    <3> DEFINE k == Min(found)
               t == DeleteHeader(s)
    <3>1. found \subseteq 1..s.len /\ found \subseteq Nat
      BY <2>2 DEF Positions, Headers
    <3>2. k \in 1..s.len
      BY <2>3, <3>1, MinPosition
    <3>3. heap' = DeleteHeap(heap, s, k) /\ hdr' = [hdr EXCEPT ![p] = t]
      BY <1>25, <2>3 DEF DeleteIP
    <3> HIDE DEF k, found, S, s
    <3>4. /\ heap' \in [Arrays -> Seq(S)] /\ t \in Headers /\ Fits(heap', t)
          /\ \A u \in Headers : Fits(heap, u) => Fits(heap', u)
      BY <2>2, <3>2, <3>3, DeleteFits
    <3> HIDE DEF t
    <3> USE DEF S
    <3>5. TypeOK'
      BY <1>25, <2>1, <3>3, <3>4 DEF DeleteIP
    <3>6. \A ip \in IPs : Fits(heap', tunnelsPerIP'[ip])
      BY <1>25, <3>4 DEF DeleteIP
    <3>7. \A q \in Procs : Fits(heap', hdr'[q])
      BY <3>3, <3>4
    <3> QED BY <2>5, <3>5, <3>6, <3>7
  <2>4. CASE found = {}
    <3> DEFINE live == {tunnelsPerIP[ip].arr : ip \in IPs} \cup {hdr'[q].arr : q \in Procs}
    <3>1. EmptySlice \in Headers /\ Fits(heap, EmptySlice)
      BY DEF EmptySlice, Headers, Arrays, Fits
    <3>2. hdr' = [hdr EXCEPT ![p] = EmptySlice] /\ heap' = Collect(heap, live)
      BY <1>25, <2>4 DEF DeleteIP
    <3>3. (\A ip \in IPs : tunnelsPerIP[ip].arr \in live) /\ (\A q \in Procs : hdr'[q].arr \in live)
      OBVIOUS
    <3>4. hdr' \in [Procs -> Headers] /\ \A q \in Procs : Fits(heap, hdr'[q])
      BY <3>1, <3>2
    <3> HIDE DEF live, found, s, S
    <3>5. /\ heap' \in [Arrays -> Seq(S)]
          /\ \A t \in Headers : t.arr \in live /\ Fits(heap, t) => Fits(heap', t)
      BY <2>2, <3>2, CollectFits
    <3> USE DEF S
    <3>6. TypeOK'
      BY <1>25, <2>1, <3>4, <3>5 DEF DeleteIP
    <3>7. \A ip \in IPs : Fits(heap', tunnelsPerIP'[ip])
      BY <1>25, <3>3, <3>5 DEF DeleteIP
    <3>8. \A q \in Procs : Fits(heap', hdr'[q])
      BY <3>3, <3>4, <3>5
    <3> QED BY <2>5, <3>6, <3>7, <3>8
  <2> QED BY <2>3, <2>4
<1>26. ASSUME NEW c \in Conns, AddKey(c) PROVE TypeInv'
  <2>1. pc' \in [Procs -> Points]
    BY <1>26 DEF AddKey
  <2>2. tunnelsPerKey' \in [Tokens -> Seq(TunnelIds)]
    <3>1. sub[c] \in TunnelIds
      BY <1>26 DEF AddKey
    <3>2. CASE ask[c].token \in Tokens
      <4>1. Append(tunnelsPerKey[ask[c].token], sub[c]) \in Seq(TunnelIds)
        BY <3>1, <3>2
      <4> QED BY <1>26, <4>1 DEF AddKey, AddTunnel
    <3>3. CASE ask[c].token \notin Tokens
      <4>1. ask[c].token = NoToken
        BY <3>3 DEF Asks
      <4> QED BY <1>26, <4>1 DEF AddKey
    <3> QED BY <3>2, <3>3
  <2>3. TypeOK'
    BY <1>26, <2>1, <2>2 DEF AddKey
  <2>4. HeapOK'
    BY <1>26 DEF AddKey
  <2>5. NamedOK'
    BY <1>26, <2>1 DEF AddKey
  <2> QED BY <2>3, <2>4, <2>5
<1>27. ASSUME NEW p \in Procs, RemoveKey(p) PROVE TypeInv'
  <2>1. pc' \in [Procs -> Points]
    BY <1>27 DEF RemoveKey
  <2>2. tunnelsPerKey' \in [Tokens -> Seq(TunnelIds)]
    <3>1. ASSUME NEW k \in Tokens, NEW e PROVE RemoveFirst(tunnelsPerKey[k], e) \in Seq(TunnelIds)
      BY RemoveFirstType
    <3>2. CASE UNCHANGED tunnelsPerKey
      BY <3>2
    <3>3. CASE RemoveTunnel(TunnelOf(p).token, TunnelOf(p).name)
      BY <3>1, <3>3 DEF RemoveTunnel
    <3> QED BY <1>27, <3>2, <3>3 DEF RemoveKey
  <2>3. TypeOK'
    BY <1>27, <2>1, <2>2 DEF RemoveKey
  <2>4. HeapOK'
    BY <1>27 DEF RemoveKey
  <2>5. NamedOK'
    BY <1>27, <2>1 DEF RemoveKey
  <2> QED BY <2>3, <2>4, <2>5
<1>28. ASSUME Restart PROVE TypeInv'
  <2>1. pc' \in [Procs -> Points]
    BY <1>28 DEF Restart
  <2>2. TypeOK'
    BY <1>28, <2>1 DEF Restart
  <2>3. HeapOK'
    BY <1>28 DEF Restart
  <2>4. NamedOK'
    BY <1>28, <2>1 DEF Restart
  <2> QED BY <2>2, <2>3, <2>4
<1>30. ASSUME NEW c \in Conns, AsyncClosesStray(c) PROVE TypeInv'
  <2>1. pc' \in [Procs -> Points]
    BY <1>30 DEF AsyncClosesStray
  <2>2. TypeOK'
    BY <1>30, <2>1 DEF AsyncClosesStray
  <2>3. HeapOK'
    BY <1>30 DEF AsyncClosesStray
  <2>4. NamedOK'
    BY <1>30, <2>1 DEF AsyncClosesStray
  <2> QED BY <2>2, <2>3, <2>4
<1>29. ASSUME UNCHANGED vars PROVE TypeInv'
  <2>1. pc' \in [Procs -> Points]
    BY <1>29 DEF vars
  <2>2. TypeOK'
    BY <1>29, <2>1 DEF vars
  <2>3. HeapOK'
    BY <1>29 DEF vars
  <2>4. NamedOK'
    BY <1>29, <2>1 DEF vars
  <2> QED BY <2>2, <2>3, <2>4
<1> HIDE DEF TypeInv, TypeOK, AuthTypeOK, HeapOK, NamedOK, NamedPoints, Points, Creating,
        Closing, Locked, Up, At, GoTo, SetConn, tables, second, perConn, vars
<1> QED BY StepCases, <1>1, <1>2, <1>3, <1>4, <1>5, <1>6, <1>7, <1>8, <1>9, <1>10, <1>11,
      <1>12, <1>13, <1>14, <1>15, <1>16, <1>17, <1>18, <1>19, <1>20, <1>21, <1>22, <1>23,
      <1>24, <1>25, <1>26, <1>27, <1>28, <1>29, <1>30

LEMMA TypeInit == Init => TypeInv
<1> SUFFICES ASSUME Init PROVE TypeInv
  OBVIOUS
<1> USE ProcFacts, RegistryAssumption, AuthAssumption, ArraysAssumption
<1>1. EmptySlice \in Headers /\ \A h : h[0] = <<>> => Fits(h, EmptySlice)
  BY DEF EmptySlice, Headers, Arrays, Fits
<1>2. heap \in [Arrays -> Seq(TunnelIds \cup {NoName})] /\ heap[0] = <<>>
  BY DEF Init, Arrays
<1>3. pc \in [Procs -> Points] /\ ask \in [Conns -> Asks]
  BY DEF Init, NoAsk, Asks, Points
<1>6. stray \in [Conns -> Tunnels]
  BY DEF Init, NoAsk, Tunnels
<1>4. TypeOK
  BY <1>1, <1>2, <1>3, <1>6 DEF Init, TypeOK, AuthTypeOK, NewAuthManager
<1>5. HeapOK /\ NamedOK
  BY <1>1, <1>2 DEF Init, HeapOK, NamedOK, NamedPoints
<1> QED BY <1>4, <1>5 DEF TypeInv

LEMMA TypeInvariant == Spec => []TypeInv
<1> QED BY TypeInit, TypeStep, PTL DEF Spec

(* Every table, slice and program point of the server keeps its type:      *)
(* append, slices.Delete and RemoveTunnel never read past a slice.         *)
THEOREM TypeCorrect == Spec => []TypeOK
<1>1. TypeInv => TypeOK
  BY DEF TypeInv
<1> QED BY <1>1, TypeInvariant, PTL
=============================================================================
