------------------------ MODULE TunnelRegistrySafety ------------------------
(***************************************************************************)
(* The safety properties of TunnelRegistry, proved from the inductive      *)
(* invariants of TunnelRegistryInv.  The step lemmas have one step per     *)
(* action of StepCases.                                                    *)
(* The lists and the routes come first, then the refinement of             *)
(* TunnelOwnership, then the slots of a token (KeyOK, by rearranging which *)
(* place of the list is whose) and those of an address (SlotsOK).          *)
(***************************************************************************)
EXTENDS TunnelRegistryProofs, FiniteSetTheorems, FunctionTheorems

-----------------------------------------------------------------------------
(* The limit of an address.                                                *)

(* Only the goroutine that acquires ms.mu enters the critical section, and *)
(* every way out of newClientTunnel releases it.                           *)
LEMMA LockStep == TypeOK /\ LockOK /\ [Next]_vars => LockOK'
<1> SUFFICES ASSUME TypeOK /\ LockOK, [Next]_vars PROVE LockOK'
  OBVIOUS
<1> USE ProcFacts, RegistryAssumption
<1> USE DEF TypeOK, Points, Creating, Closing, Locked, Up, At, GoTo, SetConn, tables,
      second, perConn, vars, LockOK
<1>1. ASSUME NEW why \in Reasons, Crash(why) PROVE LockOK'
  BY <1>1 DEF Crash
<1>2. ASSUME NEW c \in Conns, Accept(c) PROVE LockOK'
  BY <1>2 DEF Accept
<1>3. ASSUME NEW c \in Conns, NEW req \in Requests, ReceiveRequest(c, req) PROVE LockOK'
  BY <1>3 DEF ReceiveRequest
<1>4. ASSUME NEW c \in Conns, ReceiveClose(c) PROVE LockOK'
  BY <1>4 DEF ReceiveClose
<1>5. ASSUME NEW c \in Conns, Authenticate(c) PROVE LockOK'
  BY <1>5 DEF Authenticate, Reject
<1>6. ASSUME NEW c \in Conns, AcquireLock(c) PROVE LockOK'
  BY <1>6 DEF AcquireLock
<1>7. ASSUME NEW c \in Conns, RefuseName(c) PROVE LockOK'
  BY <1>7 DEF RefuseName, Reject
<1>8. ASSUME NEW c \in Conns, TakeName(c) PROVE LockOK'
  BY <1>8 DEF TakeName, GeneratedNames, NameRefused
<1>9. ASSUME NEW c \in Conns, CheckIP(c) PROVE LockOK'
  BY <1>9 DEF CheckIP
<1>10. ASSUME NEW c \in Conns, AddClient(c) PROVE LockOK'
  BY <1>10 DEF AddClient
<1>11. ASSUME NEW c \in Conns, ReadIP(c) PROVE LockOK'
  BY <1>11 DEF ReadIP
<1>12. ASSUME NEW c \in Conns, AppendIP(c) PROVE LockOK'
  BY <1>12 DEF AppendIP
<1>13. ASSUME NEW c \in Conns, StoreIP(c) PROVE LockOK'
  BY <1>13 DEF StoreIP, StoreHeader
<1>14. ASSUME NEW c \in Conns, AddKey(c) PROVE LockOK'
  BY <1>14 DEF AddKey
<1>15. ASSUME NEW c \in Conns, Reply(c) PROVE LockOK'
  BY <1>15 DEF Reply
<1>16. ASSUME NEW c \in Conns, ReplyFails(c) PROVE LockOK'
  BY <1>16 DEF ReplyFails
<1>17. ASSUME NEW c \in Conns, AsyncStarts(c) PROVE LockOK'
  BY <1>17 DEF AsyncStarts
<1>18. ASSUME NEW c \in Conns, AsyncEnds(c) PROVE LockOK'
  BY <1>18 DEF AsyncEnds, NoStray
<1>19. ASSUME NEW c \in Conns, AsyncCloses(c) PROVE LockOK'
  BY <1>19 DEF AsyncCloses, NoStray
<1>20. ASSUME NEW p \in Procs, RemoveClient(p) PROVE LockOK'
  BY <1>20 DEF RemoveClient
<1>21. ASSUME NEW p \in Procs, GetIP(p) PROVE LockOK'
  BY <1>21 DEF GetIP
<1>22. ASSUME NEW p \in Procs, DeleteIP(p) PROVE LockOK'
  BY <1>22 DEF DeleteIP
<1>23. ASSUME NEW p \in Procs, PutIP(p) PROVE LockOK'
  BY <1>23 DEF PutIP, StoreHeader
<1>24. ASSUME NEW p \in Procs, RemoveKey(p) PROVE LockOK'
  BY <1>24 DEF RemoveKey
<1>25. ASSUME NEW p \in Procs, DrainChannels(p) PROVE LockOK'
  BY <1>25 DEF DrainChannels
<1>26. ASSUME NEW p \in Procs, CloseConn(p) PROVE LockOK'
  BY <1>26 DEF CloseConn
<1>27. CASE Restart \/ UNCHANGED vars
  BY <1>27 DEF Restart
<1>28. ASSUME NEW c \in Conns, AsyncClosesStray(c) PROVE LockOK'
  BY <1>28 DEF AsyncClosesStray
<1> HIDE DEF TypeOK, Points, Creating, Closing, Locked, Up, At, GoTo, SetConn, tables,
      second, perConn, vars, LockOK
<1> QED BY StepCases, <1>1, <1>2, <1>3, <1>4, <1>5, <1>6, <1>7, <1>8, <1>9, <1>10, <1>11,
      <1>12, <1>13, <1>14, <1>15, <1>16, <1>17, <1>18, <1>19, <1>20, <1>21, <1>22, <1>23,
      <1>24, <1>25, <1>26, <1>27, <1>28

(* Only the holder of ms.mu makes a list longer, and it has checked the    *)
(* length since it took the lock.                                          *)
LEMMA IpStep == TypeOK /\ LockOK /\ IpOK /\ [Next]_vars => IpOK'
<1> SUFFICES ASSUME TypeOK /\ LockOK /\ IpOK, [Next]_vars PROVE IpOK'
  OBVIOUS
<1> USE ProcFacts, RegistryAssumption
<1> USE DEF TypeOK, Points, Creating, Closing, Locked, Up, At, GoTo, SetConn, tables,
      second, perConn, vars, LockOK, IpOK, IpListBounded
<1>1. ASSUME NEW why \in Reasons, Crash(why) PROVE IpOK'
  BY <1>1 DEF Crash, EmptySlice
<1>2. ASSUME NEW c \in Conns, Accept(c) PROVE IpOK'
  BY <1>2 DEF Accept
<1>3. ASSUME NEW c \in Conns, NEW req \in Requests, ReceiveRequest(c, req) PROVE IpOK'
  BY <1>3 DEF ReceiveRequest
<1>4. ASSUME NEW c \in Conns, ReceiveClose(c) PROVE IpOK'
  BY <1>4 DEF ReceiveClose
<1>5. ASSUME NEW c \in Conns, Authenticate(c) PROVE IpOK'
  BY <1>5 DEF Authenticate, Reject
<1>6. ASSUME NEW c \in Conns, AcquireLock(c) PROVE IpOK'
  BY <1>6 DEF AcquireLock
<1>7. ASSUME NEW c \in Conns, RefuseName(c) PROVE IpOK'
  BY <1>7 DEF RefuseName, Reject
<1>8. ASSUME NEW c \in Conns, TakeName(c) PROVE IpOK'
  BY <1>8 DEF TakeName, GeneratedNames, NameRefused
<1>9. ASSUME NEW c \in Conns, CheckIP(c) PROVE IpOK'
  <2>1. \A ip \in IPs : ~TunnelLimitedIP(ip) => tunnelsPerIP[ip].len < MaxTunnelsPerIP
    BY DEF TunnelLimitedIP, Headers
  <2> QED BY <1>9, <2>1 DEF CheckIP
<1>10. ASSUME NEW c \in Conns, AddClient(c) PROVE IpOK'
  BY <1>10 DEF AddClient
<1>11. ASSUME NEW c \in Conns, ReadIP(c) PROVE IpOK'
  BY <1>11 DEF ReadIP
<1>12. ASSUME NEW c \in Conns, AppendIP(c) PROVE IpOK'
  <2>1. \A fresh : AppendHeader(heap, hdr[Reader(c)], fresh).len = hdr[Reader(c)].len + 1
    BY DEF AppendHeader
  <2>2. hdr'[Reader(c)].len = hdr[Reader(c)].len + 1 /\ hdr[Reader(c)].len \in Nat
    BY <1>12, <2>1 DEF AppendIP, Headers
  <2>3. \A p \in Procs : p # Reader(c) => hdr'[p] = hdr[p] /\ pc'[p] = pc[p]
    BY <1>12 DEF AppendIP
  <2> QED BY <1>12, <2>2, <2>3 DEF AppendIP
<1>13. ASSUME NEW c \in Conns, StoreIP(c) PROVE IpOK'
  BY <1>13 DEF StoreIP, StoreHeader
<1>14. ASSUME NEW c \in Conns, AddKey(c) PROVE IpOK'
  BY <1>14 DEF AddKey
<1>15. ASSUME NEW c \in Conns, Reply(c) PROVE IpOK'
  BY <1>15 DEF Reply
<1>16. ASSUME NEW c \in Conns, ReplyFails(c) PROVE IpOK'
  BY <1>16 DEF ReplyFails
<1>17. ASSUME NEW c \in Conns, AsyncStarts(c) PROVE IpOK'
  BY <1>17 DEF AsyncStarts
<1>18. ASSUME NEW c \in Conns, AsyncEnds(c) PROVE IpOK'
  BY <1>18 DEF AsyncEnds, NoStray
<1>19. ASSUME NEW c \in Conns, AsyncCloses(c) PROVE IpOK'
  BY <1>19 DEF AsyncCloses, NoStray
<1>20. ASSUME NEW p \in Procs, RemoveClient(p) PROVE IpOK'
  BY <1>20 DEF RemoveClient
<1>21. ASSUME NEW p \in Procs, GetIP(p) PROVE IpOK'
  BY <1>21 DEF GetIP
<1>22. ASSUME NEW p \in Procs, DeleteIP(p) PROVE IpOK'
  <2>1. hdr[p].len \in Nat /\ DeleteHeader(hdr[p]).len = hdr[p].len - 1
    BY DEF DeleteHeader, Headers
  <2>2. \A q \in Procs : q # p => hdr'[q] = hdr[q] /\ pc'[q] = pc[q]
    BY <1>22 DEF DeleteIP
  <2>3. pc'[p] = "ipPut" => hdr'[p].len < MaxTunnelsPerIP
    BY <1>22, <2>1 DEF DeleteIP
  <2>4. tunnelsPerIP' = tunnelsPerIP /\ lock' = lock /\ pc'[p] \in {"ipPut", "rmKey"}
    BY <1>22 DEF DeleteIP
  <2> QED BY <2>2, <2>3, <2>4
<1>23. ASSUME NEW p \in Procs, PutIP(p) PROVE IpOK'
  <2>1. hdr[p].len \in Nat /\ hdr[p].len < MaxTunnelsPerIP
    BY <1>23 DEF PutIP, Headers
  <2>2. \A q \in Procs : q # p => hdr'[q] = hdr[q] /\ pc'[q] = pc[q]
    BY <1>23 DEF PutIP, StoreHeader
  <2>3. pc'[p] = "rmKey" /\ lock' = lock
    BY <1>23 DEF PutIP
  <2>4. \A ip \in IPs : tunnelsPerIP'[ip] = hdr[p] \/ tunnelsPerIP'[ip] = tunnelsPerIP[ip]
    BY <1>23 DEF PutIP, StoreHeader
  <2>5. ASSUME NEW ip \in IPs PROVE tunnelsPerIP'[ip].len <= MaxTunnelsPerIP
    <3>1. hdr[p].len <= MaxTunnelsPerIP
      BY <2>1
    <3> QED BY <2>4, <3>1
  <2> QED BY <2>1, <2>2, <2>3, <2>4, <2>5
<1>24. ASSUME NEW p \in Procs, RemoveKey(p) PROVE IpOK'
  BY <1>24 DEF RemoveKey
<1>25. ASSUME NEW p \in Procs, DrainChannels(p) PROVE IpOK'
  BY <1>25 DEF DrainChannels
<1>26. ASSUME NEW p \in Procs, CloseConn(p) PROVE IpOK'
  BY <1>26 DEF CloseConn
<1>27. CASE Restart \/ UNCHANGED vars
  BY <1>27 DEF Restart
<1>28. ASSUME NEW c \in Conns, AsyncClosesStray(c) PROVE IpOK'
  BY <1>28 DEF AsyncClosesStray
<1> HIDE DEF TypeOK, Points, Creating, Closing, Locked, Up, At, GoTo, SetConn, tables,
      second, perConn, vars, LockOK, IpOK, IpListBounded
<1> QED BY StepCases, <1>1, <1>2, <1>3, <1>4, <1>5, <1>6, <1>7, <1>8, <1>9, <1>10, <1>11,
      <1>12, <1>13, <1>14, <1>15, <1>16, <1>17, <1>18, <1>19, <1>20, <1>21, <1>22, <1>23,
      <1>24, <1>25, <1>26, <1>27, <1>28

LEMMA IpInvariant == Spec => [](TypeInv /\ LockOK /\ IpOK)
<1>1. Init => LockOK /\ IpOK
  <2> SUFFICES ASSUME Init PROVE LockOK /\ IpOK
    OBVIOUS
  <2>1. \A c \in Conns : pc[Reader(c)] = "new"
    BY ProcFacts DEF Init
  <2>2. \A p \in Procs : pc[p] \in {"new", "idle"}
    BY DEF Init
  <2>3. LockOK
    BY <2>1, RegistryAssumption DEF Init, LockOK, Locked
  <2>4. IpOK
    BY <2>1, <2>2, RegistryAssumption DEF Init, IpOK, IpListBounded, EmptySlice
  <2> QED BY <2>3, <2>4
<1>2. TypeInv => TypeOK
  BY DEF TypeInv
<1> QED BY <1>1, <1>2, TypeInit, TypeStep, LockStep, IpStep, PTL DEF Spec

(* The list recorded for an address never outgrows the limit, whatever     *)
(* closes run beside the creation that appends to it.                      *)
THEOREM IpListNeverOverfull == Spec => []IpListBounded
<1>1. IpOK => IpListBounded
  BY DEF IpOK
<1> QED BY <1>1, IpInvariant, PTL

-----------------------------------------------------------------------------
(* Who a subdomain is routed to.                                           *)

(* A tunnel is closed only after its reply was sent, and until then        *)
(* nothing closes its connection, if the connection asks for one tunnel    *)
(* only.                                                                   *)
LEMMA TunnelStep == TypeOK /\ TunnelOK /\ [Next]_vars => TunnelOK'
<1> SUFFICES ASSUME TypeOK /\ TunnelOK, [Next]_vars PROVE TunnelOK'
  OBVIOUS
<1> USE ProcFacts, RegistryAssumption
<1> USE DEF TypeOK, Points, Creating, Closing, Locked, Up, At, GoTo, SetConn, tables,
      second, perConn, vars, TunnelOK
<1>1. ASSUME NEW why \in Reasons, Crash(why) PROVE TunnelOK'
  BY <1>1 DEF Crash
<1>2. ASSUME NEW c \in Conns, Accept(c) PROVE TunnelOK'
  BY <1>2 DEF Accept
<1>3. ASSUME NEW c \in Conns, NEW req \in Requests, ReceiveRequest(c, req) PROVE TunnelOK'
  <2>1. PICK t \in Strays(c) : stray' = [stray EXCEPT ![c] = t]
    BY <1>3 DEF ReceiveRequest
  <2>2. t # NoAsk => hasTunnel[c]
    BY DEF Strays
  <2> QED BY <1>3, <2>1, <2>2 DEF ReceiveRequest
<1>4. ASSUME NEW c \in Conns, ReceiveClose(c) PROVE TunnelOK'
  BY <1>4 DEF ReceiveClose
<1>5. ASSUME NEW c \in Conns, Authenticate(c) PROVE TunnelOK'
  BY <1>5 DEF Authenticate, Reject
<1>6. ASSUME NEW c \in Conns, AcquireLock(c) PROVE TunnelOK'
  BY <1>6 DEF AcquireLock
<1>7. ASSUME NEW c \in Conns, RefuseName(c) PROVE TunnelOK'
  BY <1>7 DEF RefuseName, Reject
<1>8. ASSUME NEW c \in Conns, TakeName(c) PROVE TunnelOK'
  BY <1>8 DEF TakeName, GeneratedNames, NameRefused
<1>9. ASSUME NEW c \in Conns, CheckIP(c) PROVE TunnelOK'
  BY <1>9 DEF CheckIP
<1>10. ASSUME NEW c \in Conns, AddClient(c) PROVE TunnelOK'
  BY <1>10 DEF AddClient
<1>11. ASSUME NEW c \in Conns, ReadIP(c) PROVE TunnelOK'
  BY <1>11 DEF ReadIP
<1>12. ASSUME NEW c \in Conns, AppendIP(c) PROVE TunnelOK'
  BY <1>12 DEF AppendIP
<1>13. ASSUME NEW c \in Conns, StoreIP(c) PROVE TunnelOK'
  BY <1>13 DEF StoreIP, StoreHeader
<1>14. ASSUME NEW c \in Conns, AddKey(c) PROVE TunnelOK'
  BY <1>14 DEF AddKey
<1>15. ASSUME NEW c \in Conns, Reply(c) PROVE TunnelOK'
  BY <1>15 DEF Reply
<1>16. ASSUME NEW c \in Conns, ReplyFails(c) PROVE TunnelOK'
  BY <1>16 DEF ReplyFails
<1>17. ASSUME NEW c \in Conns, AsyncStarts(c) PROVE TunnelOK'
  BY <1>17 DEF AsyncStarts
<1>18. ASSUME NEW c \in Conns, AsyncEnds(c) PROVE TunnelOK'
  BY <1>18 DEF AsyncEnds, NoStray
<1>19. ASSUME NEW c \in Conns, AsyncCloses(c) PROVE TunnelOK'
  BY <1>19 DEF AsyncCloses, NoStray
<1>20. ASSUME NEW p \in Procs, RemoveClient(p) PROVE TunnelOK'
  BY <1>20 DEF RemoveClient
<1>21. ASSUME NEW p \in Procs, GetIP(p) PROVE TunnelOK'
  BY <1>21 DEF GetIP
<1>22. ASSUME NEW p \in Procs, DeleteIP(p) PROVE TunnelOK'
  BY <1>22 DEF DeleteIP
<1>23. ASSUME NEW p \in Procs, PutIP(p) PROVE TunnelOK'
  BY <1>23 DEF PutIP, StoreHeader
<1>24. ASSUME NEW p \in Procs, RemoveKey(p) PROVE TunnelOK'
  BY <1>24 DEF RemoveKey
<1>25. ASSUME NEW p \in Procs, DrainChannels(p) PROVE TunnelOK'
  BY <1>25 DEF DrainChannels
<1>26. ASSUME NEW p \in Procs, CloseConn(p) PROVE TunnelOK'
  <2> DEFINE c == ConnOf(p)
  <2>1. /\ c \in Conns /\ UNCHANGED <<hasTunnel, again>> /\ pc[p] = "linger"
        /\ \A q \in Procs : q # p => pc'[q] = pc[q]
        /\ \A d \in Conns : d # c => conn'[d] = conn[d]
        /\ \A d \in Conns : stray'[d] \in {stray[d], NoAsk}
    BY <1>26 DEF CloseConn, NoStray
  <2>2. pc'[p] = IF Stray(p) THEN "idle" ELSE "ended"
    BY <1>26 DEF CloseConn
  <2>3. Stray(p) => p = Async(c) /\ again[c]
    BY DEF Stray
  <2> HIDE DEF c
  <2>4. p = Reader(c) \/ p = Async(c)
    BY DEF c
  <2> QED BY <2>1, <2>2, <2>3, <2>4
<1>27. CASE Restart \/ UNCHANGED vars
  BY <1>27 DEF Restart
<1>28. ASSUME NEW c \in Conns, AsyncClosesStray(c) PROVE TunnelOK'
  BY <1>28 DEF AsyncClosesStray
<1> HIDE DEF TypeOK, Points, Creating, Closing, Locked, Up, At, GoTo, SetConn, tables,
      second, perConn, vars, TunnelOK
<1> QED BY StepCases, <1>1, <1>2, <1>3, <1>4, <1>5, <1>6, <1>7, <1>8, <1>9, <1>10, <1>11,
      <1>12, <1>13, <1>14, <1>15, <1>16, <1>17, <1>18, <1>19, <1>20, <1>21, <1>22, <1>23,
      <1>24, <1>25, <1>26, <1>27, <1>28

(* Entries are made for open connections and removed before they close,    *)
(* but for a connection that has asked for a second tunnel.                *)
LEMMA EntryStep == TypeOK /\ TunnelOK /\ EntryOK /\ [Next]_vars => EntryOK'
<1> SUFFICES ASSUME TypeOK /\ TunnelOK /\ EntryOK, [Next]_vars,
                    NEW id \in TunnelIds, NEW d \in Conns, clients'[id] = d, ~again'[d]
             PROVE  Routed(id, d)'
  BY DEF EntryOK
<1>0. clients[id] = d /\ ~again[d] => Routed(id, d)
  BY DEF EntryOK
<1> USE ProcFacts, RegistryAssumption
<1> USE DEF TypeOK, Points, Creating, Closing, Locked, Up, At, GoTo, SetConn, tables,
      second, perConn, vars, TunnelOK, Routed, RoutedPoints
<1>1. ASSUME NEW why \in Reasons, Crash(why) PROVE Routed(id, d)'
  BY <1>0, <1>1 DEF Crash
<1>2. ASSUME NEW c \in Conns, Accept(c) PROVE Routed(id, d)'
  BY <1>0, <1>2 DEF Accept
<1>3. ASSUME NEW c \in Conns, NEW req \in Requests, ReceiveRequest(c, req) PROVE Routed(id, d)'
  BY <1>0, <1>3 DEF ReceiveRequest
<1>4. ASSUME NEW c \in Conns, ReceiveClose(c) PROVE Routed(id, d)'
  BY <1>0, <1>4 DEF ReceiveClose
<1>5. ASSUME NEW c \in Conns, Authenticate(c) PROVE Routed(id, d)'
  BY <1>0, <1>5 DEF Authenticate, Reject
<1>6. ASSUME NEW c \in Conns, AcquireLock(c) PROVE Routed(id, d)'
  BY <1>0, <1>6 DEF AcquireLock
<1>7. ASSUME NEW c \in Conns, RefuseName(c) PROVE Routed(id, d)'
  BY <1>0, <1>7 DEF RefuseName, Reject
<1>8. ASSUME NEW c \in Conns, TakeName(c) PROVE Routed(id, d)'
  BY <1>0, <1>8 DEF TakeName, GeneratedNames, NameRefused
<1>9. ASSUME NEW c \in Conns, CheckIP(c) PROVE Routed(id, d)'
  BY <1>0, <1>9 DEF CheckIP
<1>10. ASSUME NEW c \in Conns, AddClient(c) PROVE Routed(id, d)'
  <2>1. UNCHANGED <<sub, conn, hasTunnel, again>> /\ pc' = [pc EXCEPT ![Reader(c)] = "ipRead"]
    BY <1>10 DEF AddClient
  <2>2. pc[Reader(c)] = "addClient"
    BY <1>10 DEF AddClient
  <2>3. ~again[c] => conn[c] = "open" /\ pc[Async(c)] \notin Closing \cup {"ended"}
    BY <2>2
  <2>4. CASE id = sub[c]
    <3>1. d = c
      BY <1>10, <2>4 DEF AddClient
    <3> QED BY <2>1, <2>2, <2>3, <2>4, <3>1
  <2>5. CASE id # sub[c]
    <3>1. clients[id] = d /\ ~again[d]
      BY <1>10, <2>1, <2>5 DEF AddClient
    <3>2. d # c
      BY <1>0, <2>2, <3>1
    <3> QED BY <1>0, <2>1, <3>1, <3>2
  <2> QED BY <2>4, <2>5
<1>11. ASSUME NEW c \in Conns, ReadIP(c) PROVE Routed(id, d)'
  BY <1>0, <1>11 DEF ReadIP
<1>12. ASSUME NEW c \in Conns, AppendIP(c) PROVE Routed(id, d)'
  BY <1>0, <1>12 DEF AppendIP
<1>13. ASSUME NEW c \in Conns, StoreIP(c) PROVE Routed(id, d)'
  BY <1>0, <1>13 DEF StoreIP, StoreHeader
<1>14. ASSUME NEW c \in Conns, AddKey(c) PROVE Routed(id, d)'
  BY <1>0, <1>14 DEF AddKey
<1>15. ASSUME NEW c \in Conns, Reply(c) PROVE Routed(id, d)'
  BY <1>0, <1>15 DEF Reply
<1>16. ASSUME NEW c \in Conns, ReplyFails(c) PROVE Routed(id, d)'
  BY <1>0, <1>16 DEF ReplyFails
<1>17. ASSUME NEW c \in Conns, AsyncStarts(c) PROVE Routed(id, d)'
  BY <1>0, <1>17 DEF AsyncStarts
<1>18. ASSUME NEW c \in Conns, AsyncEnds(c) PROVE Routed(id, d)'
  BY <1>0, <1>18 DEF AsyncEnds, NoStray
<1>19. ASSUME NEW c \in Conns, AsyncCloses(c) PROVE Routed(id, d)'
  BY <1>0, <1>19 DEF AsyncCloses, NoStray
<1>20. ASSUME NEW p \in Procs, RemoveClient(p) PROVE Routed(id, d)'
  <2>1. /\ clients' = [clients EXCEPT ![TunnelOf(p).name] = NoConn]
        /\ UNCHANGED <<sub, conn, hasTunnel, again>> /\ \A q \in Procs : q # p => pc'[q] = pc[q]
    BY <1>20 DEF RemoveClient
  <2>2. clients[id] = d /\ ~again[d] /\ id # TunnelOf(p).name
    BY <2>1
  <2>3. ConnOf(p) # d
    <3>1. ConnOf(p) = d => TunnelOf(p).name = sub[d]
      BY <2>2 DEF TunnelOf, Stray, Current
    <3> QED BY <1>0, <2>2, <3>1
  <2>4. pc'[Reader(d)] = pc[Reader(d)] /\ pc'[Async(d)] = pc[Async(d)]
    BY <2>1, <2>3
  <2> QED BY <1>0, <2>1, <2>2, <2>4
<1>21. ASSUME NEW p \in Procs, GetIP(p) PROVE Routed(id, d)'
  BY <1>0, <1>21 DEF GetIP
<1>22. ASSUME NEW p \in Procs, DeleteIP(p) PROVE Routed(id, d)'
  BY <1>0, <1>22 DEF DeleteIP
<1>23. ASSUME NEW p \in Procs, PutIP(p) PROVE Routed(id, d)'
  BY <1>0, <1>23 DEF PutIP, StoreHeader
<1>24. ASSUME NEW p \in Procs, RemoveKey(p) PROVE Routed(id, d)'
  BY <1>0, <1>24 DEF RemoveKey
<1>25. ASSUME NEW p \in Procs, DrainChannels(p) PROVE Routed(id, d)'
  BY <1>0, <1>25 DEF DrainChannels
<1>26. ASSUME NEW p \in Procs, CloseConn(p) PROVE Routed(id, d)'
  BY <1>0, <1>26 DEF CloseConn
<1>27. CASE Restart \/ UNCHANGED vars
  BY <1>0, <1>27 DEF Restart
<1>28. ASSUME NEW c \in Conns, AsyncClosesStray(c) PROVE Routed(id, d)'
  BY <1>0, <1>28 DEF AsyncClosesStray
<1> HIDE DEF TypeOK, Points, Creating, Closing, Locked, Up, At, GoTo, SetConn, tables,
      second, perConn, vars, TunnelOK, Routed, RoutedPoints
<1> QED BY StepCases, <1>1, <1>2, <1>3, <1>4, <1>5, <1>6, <1>7, <1>8, <1>9, <1>10, <1>11,
      <1>12, <1>13, <1>14, <1>15, <1>16, <1>17, <1>18, <1>19, <1>20, <1>21, <1>22, <1>23,
      <1>24, <1>25, <1>26, <1>27, <1>28

LEMMA EntryInvariant == Spec => [](TypeInv /\ TunnelOK /\ EntryOK)
<1>1. Init => TunnelOK /\ EntryOK
  <2> SUFFICES ASSUME Init PROVE TunnelOK /\ EntryOK
    OBVIOUS
  <2>1. \A c \in Conns : pc[Reader(c)] = "new" /\ pc[Async(c)] = "idle"
    BY ProcFacts DEF Init
  <2>2. TunnelOK
    BY <2>1 DEF Init, TunnelOK, Closing, Creating, Locked
  <2>3. EntryOK
    BY RegistryAssumption DEF Init, EntryOK
  <2> QED BY <2>2, <2>3
<1>2. TypeInv => TypeOK
  BY DEF TypeInv
<1> QED BY <1>1, <1>2, TypeInit, TypeStep, TunnelStep, EntryStep, PTL DEF Spec

(* ServeHTTP never finds a tunnel whose connection the server has closed:  *)
(* every path that closes one has removed the entry first. This is         *)
(* promised of connections on which no second tunnel was asked for; others *)
(* may ask as often as they want.                                          *)
THEOREM RoutedConnectionOpen == Spec => []RoutedConnOpen
<1>1. TypeInv /\ EntryOK => RoutedConnOpen
  BY DEF TypeInv, TypeOK, EntryOK, Routed, RoutedConnOpen
<1> QED BY <1>1, EntryInvariant, PTL

(* Only the holder of ms.mu enters a name, so a name found free stays free *)
(* until it is taken.                                                      *)
LEMMA FreeStep ==
    "idCollision" \notin Faults /\ TypeOK /\ LockOK /\ FreeOK /\ [Next]_vars => FreeOK'
<1> SUFFICES ASSUME "idCollision" \notin Faults /\ TypeOK /\ LockOK /\ FreeOK, [Next]_vars
             PROVE  FreeOK'
  OBVIOUS
<1> USE ProcFacts, RegistryAssumption
<1> USE DEF TypeOK, Points, Creating, Closing, Locked, Up, At, GoTo, SetConn, tables,
      second, perConn, vars, LockOK, FreeOK
<1>1. ASSUME NEW why \in Reasons, Crash(why) PROVE FreeOK'
  BY <1>1 DEF Crash
<1>2. ASSUME NEW c \in Conns, Accept(c) PROVE FreeOK'
  BY <1>2 DEF Accept
<1>3. ASSUME NEW c \in Conns, NEW req \in Requests, ReceiveRequest(c, req) PROVE FreeOK'
  BY <1>3 DEF ReceiveRequest
<1>4. ASSUME NEW c \in Conns, ReceiveClose(c) PROVE FreeOK'
  BY <1>4 DEF ReceiveClose
<1>5. ASSUME NEW c \in Conns, Authenticate(c) PROVE FreeOK'
  BY <1>5 DEF Authenticate, Reject
<1>6. ASSUME NEW c \in Conns, AcquireLock(c) PROVE FreeOK'
  BY <1>6 DEF AcquireLock
<1>7. ASSUME NEW c \in Conns, RefuseName(c) PROVE FreeOK'
  BY <1>7 DEF RefuseName, Reject
<1>8. ASSUME NEW c \in Conns, TakeName(c) PROVE FreeOK'
  BY <1>8 DEF TakeName, GeneratedNames, NameRefused
<1>9. ASSUME NEW c \in Conns, CheckIP(c) PROVE FreeOK'
  BY <1>9 DEF CheckIP
<1>10. ASSUME NEW c \in Conns, AddClient(c) PROVE FreeOK'
  BY <1>10 DEF AddClient
<1>11. ASSUME NEW c \in Conns, ReadIP(c) PROVE FreeOK'
  BY <1>11 DEF ReadIP
<1>12. ASSUME NEW c \in Conns, AppendIP(c) PROVE FreeOK'
  BY <1>12 DEF AppendIP
<1>13. ASSUME NEW c \in Conns, StoreIP(c) PROVE FreeOK'
  BY <1>13 DEF StoreIP, StoreHeader
<1>14. ASSUME NEW c \in Conns, AddKey(c) PROVE FreeOK'
  BY <1>14 DEF AddKey
<1>15. ASSUME NEW c \in Conns, Reply(c) PROVE FreeOK'
  BY <1>15 DEF Reply
<1>16. ASSUME NEW c \in Conns, ReplyFails(c) PROVE FreeOK'
  BY <1>16 DEF ReplyFails
<1>17. ASSUME NEW c \in Conns, AsyncStarts(c) PROVE FreeOK'
  BY <1>17 DEF AsyncStarts
<1>18. ASSUME NEW c \in Conns, AsyncEnds(c) PROVE FreeOK'
  BY <1>18 DEF AsyncEnds, NoStray
<1>19. ASSUME NEW c \in Conns, AsyncCloses(c) PROVE FreeOK'
  BY <1>19 DEF AsyncCloses, NoStray
<1>20. ASSUME NEW p \in Procs, RemoveClient(p) PROVE FreeOK'
  BY <1>20 DEF RemoveClient
<1>21. ASSUME NEW p \in Procs, GetIP(p) PROVE FreeOK'
  BY <1>21 DEF GetIP
<1>22. ASSUME NEW p \in Procs, DeleteIP(p) PROVE FreeOK'
  BY <1>22 DEF DeleteIP
<1>23. ASSUME NEW p \in Procs, PutIP(p) PROVE FreeOK'
  BY <1>23 DEF PutIP, StoreHeader
<1>24. ASSUME NEW p \in Procs, RemoveKey(p) PROVE FreeOK'
  BY <1>24 DEF RemoveKey
<1>25. ASSUME NEW p \in Procs, DrainChannels(p) PROVE FreeOK'
  BY <1>25 DEF DrainChannels
<1>26. ASSUME NEW p \in Procs, CloseConn(p) PROVE FreeOK'
  BY <1>26 DEF CloseConn
<1>27. CASE Restart \/ UNCHANGED vars
  BY <1>27 DEF Restart
<1>28. ASSUME NEW c \in Conns, AsyncClosesStray(c) PROVE FreeOK'
  BY <1>28 DEF AsyncClosesStray
<1> HIDE DEF TypeOK, Points, Creating, Closing, Locked, Up, At, GoTo, SetConn, tables,
      second, perConn, vars, LockOK, FreeOK
<1> QED BY StepCases, <1>1, <1>2, <1>3, <1>4, <1>5, <1>6, <1>7, <1>8, <1>9, <1>10, <1>11,
      <1>12, <1>13, <1>14, <1>15, <1>16, <1>17, <1>18, <1>19, <1>20, <1>21, <1>22, <1>23,
      <1>24, <1>25, <1>26, <1>27, <1>28

LEMMA FreeInvariant ==
    ASSUME "idCollision" \notin Faults
    PROVE  Spec => [](TypeInv /\ TunnelOK /\ EntryOK /\ LockOK /\ FreeOK)
<1>1. Init => LockOK /\ FreeOK
  <2> SUFFICES ASSUME Init PROVE LockOK /\ FreeOK
    OBVIOUS
  <2>1. \A c \in Conns : pc[Reader(c)] = "new"
    BY ProcFacts DEF Init
  <2>2. LockOK
    BY <2>1, RegistryAssumption DEF Init, LockOK, Locked
  <2>3. FreeOK
    BY <2>1 DEF FreeOK
  <2> QED BY <2>2, <2>3
<1>2. TypeInv => TypeOK
  BY DEF TypeInv
<1>3. "idCollision" \notin Faults
  OBVIOUS
<1>4. TypeInv /\ LockOK /\ FreeOK /\ [Next]_vars => LockOK' /\ FreeOK'
  BY <1>2, <1>3, LockStep, FreeStep
<1> QED BY <1>1, <1>4, TypeInit, TypeStep, EntryInvariant, PTL DEF Spec

(* ms.clients is written in two places, and emptied by a crash.            *)
LEMMA ClientsChange ==
    [Next]_vars => \/ \E why \in Reasons : Crash(why)
                   \/ \E c \in Conns : AddClient(c)
                   \/ \E p \in Procs : RemoveClient(p)
                   \/ UNCHANGED clients
<1> USE DEF tables, vars
<1>1. ASSUME NEW c \in Conns,
             \/ Accept(c) \/ (\E req \in Requests : ReceiveRequest(c, req)) \/ ReceiveClose(c)
             \/ Authenticate(c) \/ AcquireLock(c) \/ RefuseName(c) \/ TakeName(c) \/ CheckIP(c)
             \/ ReadIP(c) \/ AppendIP(c) \/ StoreIP(c) \/ AddKey(c) \/ Reply(c) \/ ReplyFails(c)
             \/ AsyncStarts(c) \/ AsyncEnds(c) \/ AsyncCloses(c) \/ AsyncClosesStray(c)
      PROVE  UNCHANGED clients
  BY <1>1 DEF Accept, ReceiveRequest, ReceiveClose, Authenticate, AcquireLock, RefuseName, TakeName,
              CheckIP, ReadIP, AppendIP, StoreIP, AddKey, Reply, ReplyFails, AsyncStarts, AsyncEnds,
              AsyncCloses, AsyncClosesStray
<1>2. ASSUME NEW p \in Procs,
             \/ GetIP(p) \/ DeleteIP(p) \/ PutIP(p) \/ RemoveKey(p)
             \/ DrainChannels(p) \/ CloseConn(p)
      PROVE  UNCHANGED clients
  BY <1>2 DEF GetIP, DeleteIP, PutIP, RemoveKey, DrainChannels, CloseConn
<1>3. CASE Restart \/ UNCHANGED vars
  BY <1>3 DEF Restart
<1> HIDE DEF tables, vars
<1> QED BY StepCases, <1>1, <1>2, <1>3

(* Unless GenerateRandomID repeats a name in use, no step hands a routed   *)
(* subdomain to another tunnel.                                            *)
THEOREM NamesAreNotTakenOver ==
    ASSUME "idCollision" \notin Faults
    PROVE  Spec => NoTakeover
<1> DEFINE Kept == \A id \in TunnelIds :
                      clients[id] # NoConn => clients'[id] \in {clients[id], NoConn}
<1>1. TypeInv /\ FreeOK /\ [Next]_vars => Kept
  <2> SUFFICES ASSUME TypeInv, FreeOK, [Next]_vars PROVE Kept
    OBVIOUS
  <2> USE DEF TypeInv, TypeOK
  <2>1. ASSUME NEW why \in Reasons, Crash(why) PROVE Kept
    BY <2>1 DEF Crash
  <2>2. ASSUME NEW c \in Conns, AddClient(c) PROVE Kept
    BY <2>2 DEF AddClient, FreeOK, At
  <2>3. ASSUME NEW p \in Procs, RemoveClient(p) PROVE Kept
    BY <2>3 DEF RemoveClient
  <2>4. CASE UNCHANGED clients
    BY <2>4
  <2> HIDE DEF TypeInv, TypeOK, Kept
  <2> QED BY <2>1, <2>2, <2>3, <2>4, ClientsChange
<1> QED BY <1>1, FreeInvariant, PTL DEF Spec, NoTakeover

(* Where nothing closes a tunnel behind its reader's back, an entry is     *)
(* removed only by the reader it belongs to.                               *)
LEMMA OwnStep ==
    /\ Faults \cap {"idCollision", "asyncClose"} = {}
    /\ TypeOK /\ NamedOK /\ TunnelOK /\ FreeOK /\ OwnOK
    /\ [Next]_vars
    => OwnOK'
<1> SUFFICES ASSUME Faults \cap {"idCollision", "asyncClose"} = {}, TypeOK, NamedOK,
                    TunnelOK, FreeOK, OwnOK, [Next]_vars
             PROVE  OwnOK'
  OBVIOUS
<1> USE ProcFacts, RegistryAssumption
<1> USE DEF TypeOK, Points, Creating, Closing, Locked, Up, At, GoTo, SetConn, tables,
      second, perConn, vars, TunnelOK, FreeOK, OwnOK, OwningPoints, RoutedPoints, NamedOK,
      NamedPoints
<1>1. ASSUME NEW why \in Reasons, Crash(why) PROVE OwnOK'
  BY <1>1 DEF Crash
<1>2. ASSUME NEW c \in Conns, Accept(c) PROVE OwnOK'
  BY <1>2 DEF Accept
<1>3. ASSUME NEW c \in Conns, NEW req \in Requests, ReceiveRequest(c, req) PROVE OwnOK'
  BY <1>3 DEF ReceiveRequest
<1>4. ASSUME NEW c \in Conns, ReceiveClose(c) PROVE OwnOK'
  BY <1>4 DEF ReceiveClose
<1>5. ASSUME NEW c \in Conns, Authenticate(c) PROVE OwnOK'
  BY <1>5 DEF Authenticate, Reject
<1>6. ASSUME NEW c \in Conns, AcquireLock(c) PROVE OwnOK'
  BY <1>6 DEF AcquireLock
<1>7. ASSUME NEW c \in Conns, RefuseName(c) PROVE OwnOK'
  BY <1>7 DEF RefuseName, Reject
<1>8. ASSUME NEW c \in Conns, TakeName(c) PROVE OwnOK'
  BY <1>8 DEF TakeName, GeneratedNames, NameRefused
<1>9. ASSUME NEW c \in Conns, CheckIP(c) PROVE OwnOK'
  BY <1>9 DEF CheckIP
<1>10. ASSUME NEW c \in Conns, AddClient(c) PROVE OwnOK'
  BY <1>10 DEF AddClient
<1>11. ASSUME NEW c \in Conns, ReadIP(c) PROVE OwnOK'
  BY <1>11 DEF ReadIP
<1>12. ASSUME NEW c \in Conns, AppendIP(c) PROVE OwnOK'
  BY <1>12 DEF AppendIP
<1>13. ASSUME NEW c \in Conns, StoreIP(c) PROVE OwnOK'
  BY <1>13 DEF StoreIP, StoreHeader
<1>14. ASSUME NEW c \in Conns, AddKey(c) PROVE OwnOK'
  BY <1>14 DEF AddKey
<1>15. ASSUME NEW c \in Conns, Reply(c) PROVE OwnOK'
  BY <1>15 DEF Reply
<1>16. ASSUME NEW c \in Conns, ReplyFails(c) PROVE OwnOK'
  BY <1>16 DEF ReplyFails
<1>17. ASSUME NEW c \in Conns, AsyncStarts(c) PROVE OwnOK'
  BY <1>17 DEF AsyncStarts
<1>18. ASSUME NEW c \in Conns, AsyncEnds(c) PROVE OwnOK'
  BY <1>18 DEF AsyncEnds, NoStray
<1>19. ASSUME NEW c \in Conns, AsyncCloses(c) PROVE OwnOK'
  BY <1>19 DEF AsyncCloses, NoStray
<1>20. ASSUME NEW p \in Procs, RemoveClient(p) PROVE OwnOK'
  <2>1. p = Reader(ConnOf(p))
    BY <1>20 DEF RemoveClient
  <2>2. TunnelOf(p).name = sub[ConnOf(p)]
    BY <2>1 DEF TunnelOf, Stray, Current
  <2> QED BY <1>20, <2>1, <2>2 DEF RemoveClient
<1>21. ASSUME NEW p \in Procs, GetIP(p) PROVE OwnOK'
  BY <1>21 DEF GetIP
<1>22. ASSUME NEW p \in Procs, DeleteIP(p) PROVE OwnOK'
  BY <1>22 DEF DeleteIP
<1>23. ASSUME NEW p \in Procs, PutIP(p) PROVE OwnOK'
  BY <1>23 DEF PutIP, StoreHeader
<1>24. ASSUME NEW p \in Procs, RemoveKey(p) PROVE OwnOK'
  BY <1>24 DEF RemoveKey
<1>25. ASSUME NEW p \in Procs, DrainChannels(p) PROVE OwnOK'
  BY <1>25 DEF DrainChannels
<1>26. ASSUME NEW p \in Procs, CloseConn(p) PROVE OwnOK'
  BY <1>26 DEF CloseConn
<1>27. CASE Restart \/ UNCHANGED vars
  BY <1>27 DEF Restart
<1>28. ASSUME NEW c \in Conns, AsyncClosesStray(c) PROVE OwnOK'
  BY <1>28 DEF AsyncClosesStray
<1> HIDE DEF TypeOK, Points, Creating, Closing, Locked, Up, At, GoTo, SetConn, tables,
      second, perConn, vars, TunnelOK, FreeOK, OwnOK, OwningPoints, RoutedPoints, NamedOK,
      NamedPoints
<1> QED BY StepCases, <1>1, <1>2, <1>3, <1>4, <1>5, <1>6, <1>7, <1>8, <1>9, <1>10, <1>11,
      <1>12, <1>13, <1>14, <1>15, <1>16, <1>17, <1>18, <1>19, <1>20, <1>21, <1>22, <1>23,
      <1>24, <1>25, <1>26, <1>27, <1>28

(* A tunnel its client still uses stays routed, however the unlocked closes*)
(* of other tunnels interleave with its own steps.                         *)
THEOREM EstablishedStaysRouted ==
    ASSUME Faults \cap {"idCollision", "asyncClose"} = {}
    PROVE  Spec => []EstablishedRoutable
<1>1. "idCollision" \notin Faults /\ Faults \cap {"idCollision", "asyncClose"} = {}
  OBVIOUS
<1>2. Init => OwnOK
  <2> SUFFICES ASSUME Init PROVE OwnOK
    OBVIOUS
  <2>1. \A c \in Conns : pc[Reader(c)] = "new" /\ pc[Async(c)] = "idle"
    BY ProcFacts DEF Init
  <2> QED BY <2>1 DEF OwnOK, OwningPoints, RoutedPoints
<1>3. TypeInv /\ TunnelOK /\ FreeOK /\ OwnOK /\ [Next]_vars => OwnOK'
  BY <1>1, OwnStep DEF TypeInv
<1>4. OwnOK => EstablishedRoutable
  BY DEF OwnOK, EstablishedRoutable
<1>5. Spec => [](TypeInv /\ TunnelOK /\ EntryOK /\ LockOK /\ FreeOK)
  BY <1>1, FreeInvariant
<1> QED BY <1>2, <1>3, <1>4, <1>5, PTL DEF Spec

-----------------------------------------------------------------------------
(* Refinement.                                                             *)

Opened == {c \in Conns : conn[c] = "open"}

(* Ending a connection that owns no name is a Close of the abstract        *)
(* specification, or nothing if the connection was not open.               *)
LEMMA EndRefines ==
    ASSUME TypeOK, NEW c \in Conns, \A id \in TunnelIds : Owners[id] # c,
           NEW state, state # "open", SetConn(c, state), UNCHANGED Owners
    PROVE  Owner!Close(c) \/ UNCHANGED <<Owners, Opened>>
<1>1. Opened' = Opened \ {c}
  BY DEF TypeOK, SetConn, Opened
<1>2. CASE c \in Opened
  BY <1>1, <1>2 DEF Owner!Close, Owner!Owns, Opened
<1>3. CASE c \notin Opened
  BY <1>1, <1>3
<1> QED BY <1>2, <1>3

(* A tunnel asked for on a connection that has one: the name it has is     *)
(* given up.                                                               *)
LEMMA SecondRefines ==
    ASSUME TypeOK, TunnelOK, EntryOK, NEW c \in Conns, NEW req \in Requests, ReceiveRequest(c, req)
    PROVE  Owner!Next \/ UNCHANGED <<Owners, Opened>>
<1> USE ProcFacts, RegistryAssumption
<1>1. /\ UNCHANGED <<clients, conn>> /\ again' = [again EXCEPT ![c] = @ \/ hasTunnel[c]]
      /\ again \in [Conns -> BOOLEAN]
  BY DEF ReceiveRequest, tables, TypeOK
<1>2. Opened' = Opened
  BY <1>1 DEF Opened
<1>3. CASE again[c] \/ \A id \in TunnelIds : clients[id] # c
  <2>1. \A id \in TunnelIds : clients[id] # NoConn => again'[clients[id]] = again[clients[id]]
    BY <1>1, <1>3 DEF TypeOK
  <2>2. Owners' = Owners
    BY <1>1, <2>1 DEF Owners
  <2> QED BY <1>2, <2>2
<1>4. CASE ~again[c] /\ \E id \in TunnelIds : clients[id] = c
  <2>1. PICK n \in TunnelIds : clients[n] = c
    BY <1>4
  <2>2. \A id \in TunnelIds : clients[id] = c => id = sub[c] /\ hasTunnel[c]
    BY <1>4 DEF EntryOK, Routed, ReceiveRequest, At
  <2>3. again'[c] /\ \A d \in Conns : d # c => again'[d] = again[d]
    BY <1>1, <2>1, <2>2
  <2>4. \A id \in TunnelIds : id # n => clients[id] # c
    BY <2>1, <2>2
  <2>5. Owners' = [Owners EXCEPT ![n] = NoConn]
    <3>1. ASSUME NEW id \in TunnelIds, id # n PROVE Owners'[id] = Owners[id]
      <4>1. clients[id] \in (Conns \cup {NoConn}) \ {c}
        BY <2>4, <3>1 DEF TypeOK
      <4> QED BY <1>1, <2>3, <4>1 DEF Owners
    <3>2. Owners'[n] = NoConn
      BY <1>1, <2>1, <2>3 DEF Owners
    <3> QED BY <3>1, <3>2 DEF Owners
  <2> QED BY <1>2, <2>1, <2>5 DEF Owner!Next, Owner!Release, Opened
<1> QED BY <1>3, <1>4

(* Every step of the registry is a step of TunnelOwnership or leaves the   *)
(* routing and the connections alone.                                      *)
LEMMA StepRefines ==
    TypeInv /\ TunnelOK /\ EntryOK /\ FreeOK /\ [Next]_vars
        => Owner!Next \/ UNCHANGED <<Owners, Opened>>
<1> SUFFICES ASSUME TypeInv, TunnelOK, EntryOK, FreeOK, [Next]_vars
             PROVE  Owner!Next \/ UNCHANGED <<Owners, Opened>>
  OBVIOUS
<1> USE ProcFacts, RegistryAssumption
<1> USE DEF TypeInv
<1>0. ASSUME NEW c \in Conns, Owner!Close(c) PROVE Owner!Next
  BY <1>0 DEF Owner!Next
<1>a. UNCHANGED <<clients, again>> => UNCHANGED Owners
  BY DEF Owners
<1>b. ASSUME NEW c \in Conns, NEW id \in TunnelIds, Owners[id] = c
      PROVE  Routed(id, c) /\ ~again[c]
  BY <1>b DEF Owners, EntryOK
<1>1. ASSUME NEW why \in Reasons, Crash(why) PROVE Owner!Next
  <2>1. Owners' = [id \in TunnelIds |-> NoConn] /\ Opened' = {}
    BY <1>1 DEF Crash, Owners, Opened
  <2> QED BY <2>1 DEF Owner!Next, Owner!Crash, Opened
<1>2. ASSUME NEW c \in Conns, Accept(c) PROVE Owner!Next \/ UNCHANGED <<Owners, Opened>>
  <2>1. Opened' = Opened \cup {c} /\ UNCHANGED clients
    BY <1>2 DEF Accept, SetConn, Opened, TypeOK, tables
  <2>2. \A id \in TunnelIds : clients[id] # NoConn => again'[clients[id]] = again[clients[id]]
    BY <1>2 DEF Accept, TypeOK
  <2>3. UNCHANGED Owners
    BY <2>1, <2>2 DEF Owners
  <2>4. CASE c \in Opened
    BY <2>1, <2>3, <2>4
  <2>5. CASE c \notin Opened
    BY <2>1, <2>3, <2>5 DEF Owner!Next, Owner!Open, Opened
  <2> QED BY <2>4, <2>5
<1>3. ASSUME NEW c \in Conns, Authenticate(c) \/ RefuseName(c) \/ CheckIP(c)
      PROVE  Owner!Next \/ UNCHANGED <<Owners, Opened>>
  <2>1. pc[Reader(c)] \in {"auth", "name", "ipCheck"}
    BY <1>3 DEF Authenticate, RefuseName, CheckIP, At
  <2>2. \A id \in TunnelIds : Owners[id] # c
    BY <1>b, <2>1 DEF Routed, RoutedPoints
  <2>3. UNCHANGED Owners
    BY <1>3, <1>a DEF Authenticate, RefuseName, CheckIP, tables, second
  <2>4. UNCHANGED conn \/ SetConn(c, "writeClosed") \/ SetConn(c, "closed")
    BY <1>3 DEF Authenticate, RefuseName, CheckIP, Reject
  <2>5. CASE UNCHANGED conn
    BY <2>3, <2>5 DEF Opened
  <2>6. CASE SetConn(c, "writeClosed") \/ SetConn(c, "closed")
    BY <1>0, <2>2, <2>3, <2>6, EndRefines
  <2> QED BY <2>4, <2>5, <2>6
<1>4. ASSUME NEW c \in Conns, AddClient(c) PROVE Owner!Next \/ UNCHANGED <<Owners, Opened>>
  <2>1. sub[c] \in TunnelIds /\ clients[sub[c]] = NoConn
    BY <1>4 DEF AddClient, At, NamedOK, NamedPoints, FreeOK
  <2>2. /\ clients' = [clients EXCEPT ![sub[c]] = c] /\ UNCHANGED again /\ Opened' = Opened
        /\ clients \in [TunnelIds -> Conns \cup {NoConn}]
    BY <1>4 DEF AddClient, perConn, second, Opened, TypeOK
  <2>3. CASE again[c]
    <3>1. Owners' = Owners
      BY <2>1, <2>2, <2>3 DEF Owners
    <3> QED BY <2>2, <3>1
  <2>4. CASE ~again[c]
    <3>1. c \in Opened
      BY <1>4, <2>4 DEF AddClient, At, TunnelOK, Creating, Locked, Opened
    <3>2. Owners[sub[c]] = NoConn /\ Owners' = [Owners EXCEPT ![sub[c]] = c]
      BY <2>1, <2>2, <2>4 DEF Owners
    <3> QED BY <2>1, <2>2, <3>1, <3>2 DEF Owner!Next, Owner!Claim, Opened
  <2> QED BY <2>3, <2>4
<1>5. ASSUME NEW p \in Procs, RemoveClient(p) PROVE Owner!Next \/ UNCHANGED <<Owners, Opened>>
  <2> DEFINE n == TunnelOf(p).name
  <2>1. /\ clients' = [clients EXCEPT ![n] = NoConn] /\ UNCHANGED again /\ Opened' = Opened
        /\ clients \in [TunnelIds -> Conns \cup {NoConn}]
    BY <1>5 DEF RemoveClient, perConn, second, Opened, TypeOK
  <2> HIDE DEF n
  <2>2. Owners' = [Owners EXCEPT ![n] = NoConn]
    BY <2>1 DEF Owners
  <2>3. CASE n \in TunnelIds
    BY <2>1, <2>2, <2>3 DEF Owner!Next, Owner!Release, Opened
  <2>4. CASE n \notin TunnelIds
    BY <2>1, <2>2, <2>4 DEF Owners
  <2> QED BY <2>3, <2>4
<1>6. ASSUME NEW p \in Procs, CloseConn(p) PROVE Owner!Next \/ UNCHANGED <<Owners, Opened>>
  <2> DEFINE c == ConnOf(p)
  <2>1. \A id \in TunnelIds : Owners[id] # c
    BY <1>6, <1>b DEF CloseConn, At, Routed, RoutedPoints, Closing
  <2>2. UNCHANGED Owners /\ SetConn(c, "closed") /\ c \in Conns
    BY <1>6, <1>a DEF CloseConn, tables
  <2> HIDE DEF c
  <2> QED BY <1>0, <2>1, <2>2, EndRefines
<1>7. ASSUME NEW c \in Conns,
             \/ ReceiveClose(c) \/ AcquireLock(c) \/ TakeName(c) \/ ReadIP(c) \/ AppendIP(c)
             \/ StoreIP(c) \/ AddKey(c) \/ Reply(c) \/ ReplyFails(c)
             \/ AsyncStarts(c) \/ AsyncEnds(c) \/ AsyncCloses(c) \/ AsyncClosesStray(c)
      PROVE  UNCHANGED <<Owners, Opened>>
  BY <1>7, <1>a DEF ReceiveClose, AcquireLock, TakeName, ReadIP, AppendIP, StoreIP,
              AddKey, Reply, ReplyFails, AsyncStarts, AsyncEnds, AsyncCloses, AsyncClosesStray,
              tables, second, perConn, Opened
<1>8. ASSUME NEW p \in Procs,
             \/ GetIP(p) \/ DeleteIP(p) \/ PutIP(p) \/ RemoveKey(p) \/ DrainChannels(p)
      PROVE  UNCHANGED <<Owners, Opened>>
  BY <1>8, <1>a DEF GetIP, DeleteIP, PutIP, RemoveKey, DrainChannels, tables, second, perConn,
              Opened
<1>9. CASE Restart \/ UNCHANGED vars
  BY <1>9, <1>a DEF Restart, vars, tables, second, perConn, Opened
<1>10. ASSUME NEW c \in Conns, NEW req \in Requests, ReceiveRequest(c, req)
       PROVE  Owner!Next \/ UNCHANGED <<Owners, Opened>>
  BY <1>10, SecondRefines
<1> HIDE DEF TypeInv
<1> QED BY <1>1, <1>2, <1>3, <1>4, <1>5, <1>6, <1>7, <1>8, <1>9, <1>10, StepCases

(* The registry implements the ownership of subdomains: one open           *)
(* connection per name, a name passes on only after its release, and no    *)
(* connection ends while a name is routed to it.  A connection that asks   *)
(* for a second tunnel owns nothing any more.                              *)
THEOREM ImplementsOwnership ==
    ASSUME "idCollision" \notin Faults
    PROVE  Spec => OwnerSpec
<1>1. Init => Owner!Init
  BY DEF Init, Owner!Init, Owners
<1>2. TypeInv /\ TunnelOK /\ EntryOK /\ FreeOK /\ [Next]_vars => [Owner!Next]_(Owner!vars)
  BY StepRefines DEF Owner!vars, Opened
<1>3. Spec => [](TypeInv /\ TunnelOK /\ EntryOK /\ LockOK /\ FreeOK)
  BY FreeInvariant
<1> QED BY <1>1, <1>2, <1>3, PTL DEF Spec, OwnerSpec, Owner!Spec

-----------------------------------------------------------------------------
(* What a token and an address are charged for.                            *)

(* A reader closes the tunnel that its ct is.                              *)
LEMMA ReadersTunnel ==
    \A c \in Conns : /\ ~Stray(Reader(c)) /\ TunnelOf(Reader(c)) = Current(c)
                     /\ Current(c).name = sub[c] /\ Current(c).token = ask[c].token
BY ProcFacts DEF Stray, TunnelOf, Current

(* Where nothing closes a tunnel behind its reader's back, every step is   *)
(* one of a reader.                                                        *)
LEMMA ReaderCases ==
    ASSUME "asyncClose" \notin Faults, TypeOK, AsyncIdle, [Next]_vars
    PROVE  \/ \E why \in Reasons : Crash(why)
           \/ \E c \in Conns :
                \/ Accept(c) \/ (\E req \in Requests : ReceiveRequest(c, req)) \/ ReceiveClose(c)
                \/ Authenticate(c) \/ AcquireLock(c) \/ RefuseName(c) \/ TakeName(c)
                \/ CheckIP(c) \/ AddClient(c) \/ ReadIP(c) \/ AppendIP(c) \/ StoreIP(c)
                \/ AddKey(c) \/ Reply(c) \/ ReplyFails(c)
                \/ RemoveClient(Reader(c)) \/ GetIP(Reader(c)) \/ DeleteIP(Reader(c))
                \/ PutIP(Reader(c)) \/ RemoveKey(Reader(c)) \/ DrainChannels(Reader(c))
                \/ CloseConn(Reader(c))
           \/ Restart
           \/ UNCHANGED vars
<1>1. ASSUME NEW c \in Conns
      PROVE  ~(AsyncStarts(c) \/ AsyncEnds(c) \/ AsyncCloses(c) \/ AsyncClosesStray(c))
  BY DEF AsyncStarts, AsyncEnds, AsyncCloses, AsyncClosesStray, AsyncIdle, At
<1>2. ASSUME NEW p \in Procs,
             \/ RemoveClient(p) \/ GetIP(p) \/ DeleteIP(p) \/ PutIP(p) \/ RemoveKey(p)
             \/ DrainChannels(p) \/ CloseConn(p)
      PROVE  \E c \in Conns : p = Reader(c)
  <2>1. pc[p] # "idle"
    BY <1>2 DEF RemoveClient, GetIP, DeleteIP, PutIP, RemoveKey, DrainChannels, CloseConn, At
  <2> QED BY <2>1, ProcFacts DEF AsyncIdle
<1> QED BY <1>1, <1>2, StepCases, Zenon

(* No such step starts the other goroutine.                                *)
LEMMA AsyncIdleStep ==
    ASSUME "asyncClose" \notin Faults, TypeOK, AsyncIdle, [Next]_vars
    PROVE  AsyncIdle'
<1> USE ProcFacts DEF TypeOK, AsyncIdle, GoTo, vars
<1>1. ASSUME NEW why \in Reasons, Crash(why) PROVE AsyncIdle'
  BY <1>1 DEF Crash
<1>2. ASSUME NEW c \in Conns, Accept(c) PROVE AsyncIdle'
  BY <1>2 DEF Accept
<1>3. ASSUME NEW c \in Conns,
             \/ (\E req \in Requests : ReceiveRequest(c, req)) \/ ReceiveClose(c)
             \/ Authenticate(c) \/ AcquireLock(c) \/ RefuseName(c) \/ TakeName(c)
             \/ CheckIP(c) \/ AddClient(c) \/ ReadIP(c) \/ AppendIP(c) \/ StoreIP(c)
             \/ AddKey(c) \/ Reply(c) \/ ReplyFails(c)
      PROVE  AsyncIdle'
  <2>1. \E point : pc' = [pc EXCEPT ![Reader(c)] = point]
    BY <1>3 DEF ReceiveRequest, ReceiveClose, Authenticate, AcquireLock, RefuseName, TakeName,
                CheckIP, AddClient, ReadIP, AppendIP, StoreIP, AddKey, Reply, ReplyFails, Reject
  <2> QED BY <2>1
<1>4. ASSUME NEW c \in Conns,
             \/ RemoveClient(Reader(c)) \/ GetIP(Reader(c)) \/ DeleteIP(Reader(c))
             \/ PutIP(Reader(c)) \/ RemoveKey(Reader(c)) \/ DrainChannels(Reader(c))
             \/ CloseConn(Reader(c))
      PROVE  AsyncIdle'
  <2>1. \E point : pc' = [pc EXCEPT ![Reader(c)] = point]
    BY <1>4 DEF RemoveClient, GetIP, DeleteIP, PutIP, RemoveKey, DrainChannels, CloseConn
  <2> QED BY <2>1
<1>5. CASE Restart \/ UNCHANGED vars
  BY <1>5 DEF Restart
<1> HIDE DEF TypeOK, AsyncIdle, GoTo, vars
<1> QED BY <1>1, <1>2, <1>3, <1>4, <1>5, ReaderCases, Zenon

(* Between AddTunnel and RemoveTunnel, whatever the token.                 *)
Charge(c) == pc[Reader(c)] \in ChargedPoints \/ (pc[Reader(c)] = "loop" /\ hasTunnel[c])

(* A step that starts and ends no charge.                                  *)
SameCharges ==
    /\ UNCHANGED tunnelsPerKey
    /\ \A d \in Conns : /\ Charge(d)' = Charge(d)
                        /\ Charge(d) => sub'[d] = sub[d] /\ ask'[d].token = ask[d].token

(* Charges start at AddTunnel and end at RemoveTunnel or with the process. *)
LEMMA ChargesChange ==
    ASSUME "asyncClose" \notin Faults, Repeaters = {}, TypeOK, TunnelOK, AsyncIdle, [Next]_vars
    PROVE  \/ \E why \in Reasons : Crash(why)
           \/ \E c \in Conns : AddKey(c) \/ RemoveKey(Reader(c))
           \/ SameCharges
<1> USE ProcFacts DEF SameCharges, Charge, ChargedPoints, TypeOK, TunnelOK, Creating,
      Closing, Locked, At, GoTo,
        tables, second, perConn
<1>1. ASSUME NEW c \in Conns, Accept(c) PROVE SameCharges
  BY <1>1 DEF Accept
<1>2. ASSUME NEW c \in Conns, NEW req \in Requests, ReceiveRequest(c, req) PROVE SameCharges
  BY <1>2 DEF ReceiveRequest
<1>3. ASSUME NEW c \in Conns, ReceiveClose(c) PROVE SameCharges
  BY <1>3 DEF ReceiveClose
<1>4. ASSUME NEW c \in Conns, Authenticate(c) PROVE SameCharges
  BY <1>4 DEF Authenticate, Reject
<1>5. ASSUME NEW c \in Conns, AcquireLock(c) PROVE SameCharges
  BY <1>5 DEF AcquireLock
<1>6. ASSUME NEW c \in Conns, RefuseName(c) PROVE SameCharges
  BY <1>6 DEF RefuseName, Reject
<1>7. ASSUME NEW c \in Conns, TakeName(c) PROVE SameCharges
  BY <1>7 DEF TakeName
<1>8. ASSUME NEW c \in Conns, CheckIP(c) PROVE SameCharges
  BY <1>8 DEF CheckIP
<1>9. ASSUME NEW c \in Conns, AddClient(c) PROVE SameCharges
  BY <1>9 DEF AddClient
<1>10. ASSUME NEW c \in Conns, ReadIP(c) PROVE SameCharges
  BY <1>10 DEF ReadIP
<1>11. ASSUME NEW c \in Conns, AppendIP(c) PROVE SameCharges
  BY <1>11 DEF AppendIP
<1>12. ASSUME NEW c \in Conns, StoreIP(c) PROVE SameCharges
  BY <1>12 DEF StoreIP
<1>13. ASSUME NEW c \in Conns, Reply(c) PROVE SameCharges
  BY <1>13 DEF Reply
<1>14. ASSUME NEW c \in Conns, ReplyFails(c) PROVE SameCharges
  BY <1>14 DEF ReplyFails
<1>15. ASSUME NEW c \in Conns, RemoveClient(Reader(c)) PROVE SameCharges
  BY <1>15 DEF RemoveClient
<1>16. ASSUME NEW c \in Conns, GetIP(Reader(c)) PROVE SameCharges
  BY <1>16 DEF GetIP
<1>17. ASSUME NEW c \in Conns, DeleteIP(Reader(c)) PROVE SameCharges
  BY <1>17 DEF DeleteIP
<1>18. ASSUME NEW c \in Conns, PutIP(Reader(c)) PROVE SameCharges
  BY <1>18 DEF PutIP
<1>19. ASSUME NEW c \in Conns, DrainChannels(Reader(c)) PROVE SameCharges
  BY <1>19 DEF DrainChannels
<1>20. ASSUME NEW c \in Conns, CloseConn(Reader(c)) PROVE SameCharges
  BY <1>20 DEF CloseConn
<1>21. CASE Restart \/ UNCHANGED vars
  BY <1>21 DEF Restart, vars
<1> HIDE DEF SameCharges, TypeOK, TunnelOK
<1> QED BY ReaderCases, <1>1, <1>2, <1>3, <1>4, <1>5, <1>6, <1>7, <1>8, <1>9, <1>10,
      <1>11, <1>12, <1>13, <1>14, <1>15, <1>16, <1>17, <1>18, <1>19, <1>20, <1>21

(* A bijection onto the places of a list.                                  *)
LEMMA BijectionFacts ==
    ASSUME NEW S, NEW T, NEW f
    PROVE  f \in Bijection(S, T) <=>
               /\ f \in [S -> T]
               /\ \A x, y \in S : f[x] = f[y] => x = y
               /\ \A t \in T : \E x \in S : f[x] = t
BY DEF Bijection, Injection, Surjection, IsInjective

(* One more place, for one more tunnel.                                    *)
LEMMA AddPlace ==
    ASSUME NEW C, NEW c, c \notin C, NEW n \in Nat, NEW f \in Bijection(C, 1..n)
    PROVE  [x \in C \cup {c} |-> IF x = c THEN n + 1 ELSE f[x]]
               \in Bijection(C \cup {c}, 1..(n + 1))
<1> DEFINE g == [x \in C \cup {c} |-> IF x = c THEN n + 1 ELSE f[x]]
<1>1. /\ f \in [C -> 1..n]
      /\ \A x, y \in C : f[x] = f[y] => x = y
      /\ \A t \in 1..n : \E x \in C : f[x] = t
  BY DEF Bijection, Injection, Surjection, IsInjective
<1>2. g \in [C \cup {c} -> 1..(n + 1)] /\ g[c] = n + 1 /\ \A x \in C : g[x] = f[x]
  BY <1>1
<1> HIDE DEF g
<1>3. ASSUME NEW x \in C \cup {c}, NEW y \in C \cup {c}, g[x] = g[y] PROVE x = y
  <2>1. \A z \in C : g[z] = f[z] /\ f[z] \in 1..n
    BY <1>1, <1>2
  <2> QED BY <1>1, <1>2, <1>3, <2>1
<1>4. ASSUME NEW t \in 1..(n + 1) PROVE \E x \in C \cup {c} : g[x] = t
  <2>1. CASE t = n + 1
    BY <1>2, <2>1
  <2>2. CASE t \in 1..n
    BY <1>1, <1>2, <2>2
  <2> QED BY <2>1, <2>2
<1> QED BY <1>2, <1>3, <1>4, BijectionFacts DEF g

(* One place fewer: whoever had place k gets that of c, those behind move up. *)
Dropped(f, g, C, c, n, k) ==
    /\ g \in Bijection(C \ {c}, 1..(n - 1))
    /\ \A x \in C \ {c} :
          \E j \in (1..n) \ {k} :
              /\ j = IF f[x] = k THEN f[c] ELSE f[x]
              /\ g[x] = IF j > k THEN j - 1 ELSE j

(* There is such a way to share the places that are left.                  *)
LEMMA DropPlace ==
    ASSUME NEW C, NEW c \in C, NEW n \in Nat, NEW f \in Bijection(C, 1..n), NEW k \in 1..n
    PROVE  \E g : Dropped(f, g, C, c, n, k)
<1> DEFINE swap == [x \in C |-> IF f[x] = k THEN f[c] ELSE f[x]]
           g == [x \in C \ {c} |-> IF swap[x] > k THEN swap[x] - 1 ELSE swap[x]]
<1>1. /\ f \in [C -> 1..n]
      /\ \A x, y \in C : f[x] = f[y] => x = y
      /\ \A t \in 1..n : \E x \in C : f[x] = t
  BY DEF Bijection, Injection, Surjection, IsInjective
<1>2. ASSUME NEW x \in C \ {c}
      PROVE  swap[x] \in 1..n /\ swap[x] # k /\ swap[x] = IF f[x] = k THEN f[c] ELSE f[x]
  BY <1>1
<1>3. ASSUME NEW x \in C \ {c}, NEW y \in C \ {c}, swap[x] = swap[y] PROVE x = y
  BY <1>1, <1>3
<1>4. ASSUME NEW t \in 1..n, t # k PROVE \E x \in C \ {c} : swap[x] = t
  <2>1. CASE f[c] = t
    <3>1. PICK x \in C : f[x] = k
      BY <1>1
    <3>2. x \in C \ {c} /\ swap[x] = t
      BY <1>4, <2>1, <3>1
    <3> QED BY <3>2
  <2>2. CASE f[c] # t
    <3>1. PICK x \in C : f[x] = t
      BY <1>1
    <3>2. x \in C \ {c} /\ swap[x] = t
      BY <1>4, <2>2, <3>1
    <3> QED BY <3>2
  <2> QED BY <2>1, <2>2
<1> HIDE DEF swap
<1>5. ASSUME NEW x \in C \ {c}
      PROVE  g[x] = (IF swap[x] > k THEN swap[x] - 1 ELSE swap[x]) /\ g[x] \in 1..(n - 1)
  BY <1>2
<1>6. g \in [C \ {c} -> 1..(n - 1)]
  BY <1>5
<1> HIDE DEF g
<1>7. ASSUME NEW x \in C \ {c}, NEW y \in C \ {c}, g[x] = g[y] PROVE x = y
  <2>1. swap[x] = swap[y]
    BY <1>2, <1>5, <1>7
  <2> QED BY <1>3, <2>1
<1>8. ASSUME NEW t \in 1..(n - 1) PROVE \E x \in C \ {c} : g[x] = t
  <2> DEFINE u == IF t >= k THEN t + 1 ELSE t
  <2>1. u \in 1..n /\ u # k /\ t = IF u > k THEN u - 1 ELSE u
    OBVIOUS
  <2>2. PICK x \in C \ {c} : swap[x] = u
    BY <1>4, <2>1
  <2> QED BY <1>5, <2>1, <2>2
<1>9. g \in Bijection(C \ {c}, 1..(n - 1))
  BY <1>6, <1>7, <1>8, BijectionFacts
<1> QED BY <1>2, <1>5, <1>9 DEF Dropped

(* The list of a token changes only with its charges.                      *)
LEMMA KeyOfSame == KeyOK /\ SameCharges => KeyOK'
<1> SUFFICES ASSUME KeyOK, SameCharges, NEW k \in Tokens
             PROVE  \E place \in Bijection(ChargedTo(k)', 1..Len(tunnelsPerKey'[k])) :
                        \A c \in ChargedTo(k)' : tunnelsPerKey'[k][place[c]] = sub'[c]
  BY DEF KeyOK
<1>1. \A c \in Conns : /\ Charged(c, k)' <=> Charged(c, k)
                       /\ Charged(c, k) => sub'[c] = sub[c]
  BY DEF SameCharges, Charge, Charged
<1>2. ChargedTo(k)' = ChargedTo(k) /\ tunnelsPerKey' = tunnelsPerKey
  BY <1>1 DEF ChargedTo, SameCharges
<1>3. \A c \in ChargedTo(k) : sub'[c] = sub[c]
  BY <1>1 DEF ChargedTo
<1>4. PICK place \in Bijection(ChargedTo(k), 1..Len(tunnelsPerKey[k])) :
            \A c \in ChargedTo(k) : tunnelsPerKey[k][place[c]] = sub[c]
  BY DEF KeyOK
<1> QED BY <1>2, <1>3, <1>4

(* Nothing is charged where no connection is served.                       *)
LEMMA KeyOfNone ==
    ASSUME tunnelsPerKey = [k \in Tokens |-> <<>>], \A c \in Conns : pc[Reader(c)] = "new"
    PROVE  KeyOK
<1> SUFFICES ASSUME NEW k \in Tokens
             PROVE  \E place \in Bijection(ChargedTo(k), 1..Len(tunnelsPerKey[k])) :
                        \A c \in ChargedTo(k) : tunnelsPerKey[k][place[c]] = sub[c]
  BY DEF KeyOK
<1>1. ChargedTo(k) = {}
  BY DEF ChargedTo, Charged, ChargedPoints
<1>2. 1..Len(tunnelsPerKey[k]) = {}
  BY EmptySeq
<1>3. [x \in {} |-> x] \in Bijection({}, {})
  BY BijectionFacts
<1> QED BY <1>1, <1>2, <1>3

(* AddTunnel adds the place of the tunnel.                                 *)
LEMMA KeyOfAdd ==
    ASSUME TypeInv, TunnelOK, KeyOK, NEW c \in Conns, AddKey(c)
    PROVE  KeyOK'
<1> USE DEF TypeInv
<1> SUFFICES ASSUME NEW k \in Tokens
             PROVE  \E place \in Bijection(ChargedTo(k)', 1..Len(tunnelsPerKey'[k])) :
                        \A d \in ChargedTo(k)' : tunnelsPerKey'[k][place[d]] = sub'[d]
  BY DEF KeyOK
<1>1. /\ pc[Reader(c)] = "addKey" /\ pc'[Reader(c)] = "reply"
      /\ \A d \in Conns \ {c} : pc'[Reader(d)] = pc[Reader(d)]
      /\ UNCHANGED <<ask, sub, hasTunnel>>
  BY ProcFacts DEF AddKey, At, GoTo, TypeOK, perConn
<1>2. \A d \in Conns \ {c} : Charged(d, k)' <=> Charged(d, k)
  BY <1>1 DEF Charged
<1>3. /\ ~Charged(c, k)
      /\ Charged(c, k)' <=> AuthEnabled /\ ask[c].token = k
  BY <1>1 DEF Charged, ChargedPoints
<1>4. PICK f \in Bijection(ChargedTo(k), 1..Len(tunnelsPerKey[k])) :
            \A d \in ChargedTo(k) : tunnelsPerKey[k][f[d]] = sub[d]
  BY DEF KeyOK
<1>5. sub[c] \in TunnelIds /\ tunnelsPerKey \in [Tokens -> Seq(TunnelIds)]
  BY <1>1 DEF NamedOK, NamedPoints, TypeOK, AuthTypeOK
<1> DEFINE s == tunnelsPerKey[k]
           n == Len(s)
<1>6. n \in Nat
  BY <1>5
<1>7. CASE AuthEnabled /\ ask[c].token = k
  <2>1. ChargedTo(k)' = ChargedTo(k) \cup {c} /\ c \notin ChargedTo(k)
    BY <1>2, <1>3, <1>7 DEF ChargedTo
  <2>2. tunnelsPerKey'[k] = Append(s, sub[c])
    <3>1. k # NoToken
      BY AuthAssumption
    <3> QED BY <1>5, <1>7, <3>1 DEF AddKey, AddTunnel
  <2>3. /\ Len(tunnelsPerKey'[k]) = n + 1 /\ tunnelsPerKey'[k][n + 1] = sub[c]
        /\ \A i \in 1..n : tunnelsPerKey'[k][i] = s[i]
    BY <1>5, <2>2, AppendProperties
  <2> DEFINE g == [d \in ChargedTo(k) \cup {c} |-> IF d = c THEN n + 1 ELSE f[d]]
  <2>4. g \in Bijection(ChargedTo(k) \cup {c}, 1..(n + 1))
    BY <1>4, <1>6, <2>1, AddPlace
  <2>5. ASSUME NEW d \in ChargedTo(k) \cup {c} PROVE tunnelsPerKey'[k][g[d]] = sub[d]
    <3>1. f \in [ChargedTo(k) -> 1..n]
      BY <1>4 DEF Bijection, Injection
    <3>2. CASE d = c
      BY <2>3, <3>2
    <3>3. CASE d # c
      <4>1. d \in ChargedTo(k) /\ g[d] = f[d] /\ f[d] \in 1..n
        BY <3>1, <3>3
      <4> HIDE DEF g
      <4> QED BY <1>4, <2>3, <4>1
    <3> QED BY <3>2, <3>3
  <2> HIDE DEF g
  <2> QED BY <1>1, <2>1, <2>3, <2>4, <2>5
<1>8. CASE ~(AuthEnabled /\ ask[c].token = k)
  <2>1. ChargedTo(k)' = ChargedTo(k)
    BY <1>2, <1>3, <1>8 DEF ChargedTo
  <2>2. tunnelsPerKey'[k] = tunnelsPerKey[k]
    BY <1>5, <1>8 DEF AddKey, AddTunnel
  <2> QED BY <1>1, <1>4, <2>1, <2>2
<1> QED BY <1>7, <1>8

(* RemoveTunnel finds the name of the tunnel and frees one place; it may   *)
(* be the place of another tunnel of that name and token, which takes over *)
(* this one's.                                                             *)
LEMMA KeyOfRemove ==
    ASSUME TypeInv, KeyOK, NEW c \in Conns, RemoveKey(Reader(c))
    PROVE  KeyOK'
<1> USE DEF TypeInv
<1> SUFFICES ASSUME NEW k \in Tokens
             PROVE  \E place \in Bijection(ChargedTo(k)', 1..Len(tunnelsPerKey'[k])) :
                        \A d \in ChargedTo(k)' : tunnelsPerKey'[k][place[d]] = sub'[d]
  BY DEF KeyOK
<1>1. /\ pc[Reader(c)] = "rmKey" /\ pc'[Reader(c)] = "drain"
      /\ \A d \in Conns \ {c} : pc'[Reader(d)] = pc[Reader(d)]
      /\ UNCHANGED <<ask, sub, hasTunnel>>
      /\ IF AuthEnabled /\ ask[c].token # NoToken
         THEN RemoveTunnel(ask[c].token, sub[c]) ELSE UNCHANGED tunnelsPerKey
  BY ProcFacts, ReadersTunnel DEF RemoveKey, At, GoTo, TypeOK, perConn
<1>2. \A d \in Conns \ {c} : Charged(d, k)' <=> Charged(d, k)
  BY <1>1 DEF Charged
<1>3. /\ ~Charged(c, k)'
      /\ Charged(c, k) <=> AuthEnabled /\ ask[c].token = k
  BY <1>1 DEF Charged, ChargedPoints
<1>4. PICK f \in Bijection(ChargedTo(k), 1..Len(tunnelsPerKey[k])) :
            \A d \in ChargedTo(k) : tunnelsPerKey[k][f[d]] = sub[d]
  BY DEF KeyOK
<1>5. tunnelsPerKey \in [Tokens -> Seq(TunnelIds)]
  BY DEF TypeOK, AuthTypeOK
<1> DEFINE s == tunnelsPerKey[k]
           n == Len(s)
<1>6. n \in Nat
  BY <1>5
<1>7. CASE AuthEnabled /\ ask[c].token = k
  <2>1. ChargedTo(k)' = ChargedTo(k) \ {c} /\ c \in ChargedTo(k)
    BY <1>2, <1>3, <1>7 DEF ChargedTo
  <2>2. tunnelsPerKey'[k] = RemoveFirst(s, sub[c])
    <3>1. k # NoToken
      BY AuthAssumption
    <3> QED BY <1>1, <1>5, <1>7, <3>1 DEF RemoveTunnel
  <2>3. f \in [ChargedTo(k) -> 1..n]
    BY <1>4 DEF Bijection, Injection
  <2>4. f[c] \in 1..n /\ s[f[c]] = sub[c] /\ s \in Seq(TunnelIds)
    BY <1>4, <1>5, <2>1, <2>3
  <2> DEFINE r == RemoveFirst(s, sub[c])
  <2>5. PICK i \in 1..n :
            /\ s[i] = sub[c] /\ Len(r) = n - 1
            /\ \A j \in 1..(i - 1) : r[j] = s[j]
            /\ \A j \in (i + 1)..n : r[j - 1] = s[j]
    BY <2>4, RemoveFirstAt
  <2> HIDE DEF r
  <2>6. PICK g : Dropped(f, g, ChargedTo(k), c, n, i)
    BY <1>4, <1>6, <2>1, <2>5, DropPlace
  <2>7. ASSUME NEW d \in ChargedTo(k) \ {c} PROVE r[g[d]] = sub[d]
    <3>1. PICK j \in (1..n) \ {i} :
              /\ j = IF f[d] = i THEN f[c] ELSE f[d]
              /\ g[d] = IF j > i THEN j - 1 ELSE j
      BY <2>6 DEF Dropped
    <3>2. r[g[d]] = s[j]
      <4>1. CASE j > i
        <5>1. j \in (i + 1)..n /\ g[d] = j - 1
          BY <1>6, <3>1, <4>1
        <5> QED BY <2>5, <5>1
      <4>2. CASE ~(j > i)
        <5>1. j \in 1..(i - 1) /\ g[d] = j
          BY <1>6, <3>1, <4>2
        <5> QED BY <2>5, <5>1
      <4> QED BY <4>1, <4>2
    <3>3. s[j] = sub[d]
      BY <1>4, <2>4, <2>5, <3>1
    <3> QED BY <3>2, <3>3
  <2> QED BY <1>1, <2>1, <2>2, <2>5, <2>6, <2>7 DEF r, Dropped
<1>8. CASE ~(AuthEnabled /\ ask[c].token = k)
  <2>1. ChargedTo(k)' = ChargedTo(k)
    BY <1>2, <1>3, <1>8 DEF ChargedTo
  <2>2. tunnelsPerKey'[k] = tunnelsPerKey[k]
    BY <1>1, <1>5, <1>8 DEF RemoveTunnel
  <2> QED BY <1>1, <1>4, <2>1, <2>2
<1> QED BY <1>7, <1>8

(* Every step keeps the list in line with the charges.                     *)
LEMMA KeyStep ==
    ASSUME "asyncClose" \notin Faults, Repeaters = {}
    PROVE  TypeInv /\ TunnelOK /\ AsyncIdle /\ KeyOK /\ [Next]_vars => KeyOK'
<1> SUFFICES ASSUME TypeInv, TunnelOK, AsyncIdle, KeyOK, [Next]_vars PROVE KeyOK'
  OBVIOUS
<1>1. ASSUME NEW why \in Reasons, Crash(why) PROVE KeyOK'
  <2>1. (tunnelsPerKey = [k \in Tokens |-> <<>>] /\ \A c \in Conns : pc[Reader(c)] = "new")'
    BY <1>1, ProcFacts DEF Crash
  <2> QED BY <2>1, KeyOfNone, PTL
<1>2. ASSUME NEW c \in Conns, AddKey(c) PROVE KeyOK'
  BY <1>2, KeyOfAdd
<1>3. ASSUME NEW c \in Conns, RemoveKey(Reader(c)) PROVE KeyOK'
  BY <1>3, KeyOfRemove
<1>4. CASE SameCharges
  BY <1>4, KeyOfSame
<1> QED BY <1>1, <1>2, <1>3, <1>4, ChargesChange DEF TypeInv

(* A list with one place for each charge is as long as there are charges.  *)
LEMMA KeyCounts ==
    ASSUME TypeOK, KeyOK
    PROVE  TokenSlotsExact
<1> SUFFICES ASSUME NEW k \in Tokens
             PROVE  Len(tunnelsPerKey[k]) = Cardinality(ChargedTo(k))
  BY DEF TokenSlotsExact, ChargedTo
<1> DEFINE n == Len(tunnelsPerKey[k])
<1>1. n \in Nat
  BY DEF TypeOK, AuthTypeOK
<1>2. PICK f \in Bijection(ChargedTo(k), 1..n) : TRUE
  BY DEF KeyOK
<1>3. ExistsBijection(ChargedTo(k), 1..n)
  BY <1>2 DEF ExistsBijection
<1>4. ExistsBijection(1..n, ChargedTo(k))
  BY <1>3, Fun_ExistsBijSymmetric
<1> QED BY <1>1, <1>4, FS_CountingElements

(* A token is charged once for each of its tunnels, between AddTunnel and  *)
(* RemoveTunnel, with any number of connections and names, also where      *)
(* names repeat and where replies get lost: unless a tunnel is closed by   *)
(* two goroutines, or a connection asks for a second one.                  *)
THEOREM TokenSlotsAreExact ==
    ASSUME "asyncClose" \notin Faults, Repeaters = {}
    PROVE  Spec => []TokenSlotsExact
<1>1. Init => AsyncIdle /\ KeyOK
  <2> SUFFICES ASSUME Init PROVE AsyncIdle /\ KeyOK
    OBVIOUS
  <2>1. AsyncIdle
    BY ProcFacts DEF Init, AsyncIdle
  <2>2. tunnelsPerKey = [k \in Tokens |-> <<>>] /\ \A c \in Conns : pc[Reader(c)] = "new"
    BY ProcFacts DEF Init, NewAuthManager
  <2> QED BY <2>1, <2>2, KeyOfNone
<1>2. TypeInv /\ TunnelOK /\ AsyncIdle /\ KeyOK /\ [Next]_vars => AsyncIdle' /\ KeyOK'
  BY AsyncIdleStep, KeyStep DEF TypeInv
<1>3. TypeInv /\ KeyOK => TokenSlotsExact
  BY KeyCounts DEF TypeInv
<1>4. Spec => [](TypeInv /\ TunnelOK)
  BY EntryInvariant, PTL
<1> QED BY <1>1, <1>2, <1>3, <1>4, PTL DEF Spec

(* A step of the reader of c, as the other addresses see it.               *)
Apart(c) ==
    /\ \A d \in Conns \ {c} : /\ pc'[Reader(d)] = pc[Reader(d)] /\ hasTunnel'[d] = hasTunnel[d]
                              /\ sub'[d] = sub[d]
    /\ \A q \in Procs \ {Reader(c)} : hdr'[q] = hdr[q]
    /\ \A ip \in IPs \ {ipOf[c]} : tunnelsPerIP'[ip] = tunnelsPerIP[ip]

(* The step writes into no array of another address.                       *)
ArraysKept(c) ==
    /\ heap'[0] = <<>>
    /\ \A ip \in IPs \ {ipOf[c]} : \A a \in ArraysOf(ip) : heap'[a] = heap[a]
    /\ ArraysOf(ipOf[c])' \subseteq ArraysOf(ipOf[c]) \cup {0} \cup (Arrays \ InUse)

(* The arrays of another address are what they were.                       *)
LEMMA ArraysOfOthers ==
    ASSUME NEW c \in Conns, Apart(c), NEW ip \in IPs \ {ipOf[c]}
    PROVE  ArraysOf(ip)' = ArraysOf(ip)
<1>1. \A p \in Procs : ipOf[ConnOf(p)] = ip => hdr'[p] = hdr[p]
  BY ProcFacts DEF Apart
<1> QED BY <1>1 DEF Apart, ArraysOf

(* No two addresses come to share an array.                                *)
LEMMA ArraysStayApart ==
    ASSUME ArraysOK, NEW c \in Conns, Apart(c), ArraysKept(c)
    PROVE  ArraysOK'
<1>1. ASSUME NEW ip1 \in IPs, NEW ip2 \in IPs, ip1 # ip2
      PROVE  ArraysOf(ip1)' \cap ArraysOf(ip2)' \subseteq {0}
  <2>0. \A ip \in IPs : ArraysOf(ip) \subseteq InUse
    BY DEF ArraysOf, InUse
  <2>1. \A ip \in IPs \ {ipOf[c]} : ArraysOf(ip)' = ArraysOf(ip)
    BY ArraysOfOthers
  <2>2. ArraysOf(ip1) \cap ArraysOf(ip2) \subseteq {0}
    BY <1>1 DEF ArraysOK
  <2>3. CASE ip1 # ipOf[c] /\ ip2 # ipOf[c]
    BY <2>1, <2>2, <2>3
  <2>4. CASE ip1 = ipOf[c]
    BY <1>1, <2>0, <2>1, <2>2, <2>4 DEF ArraysKept
  <2>5. CASE ip2 = ipOf[c]
    BY <1>1, <2>0, <2>1, <2>2, <2>5 DEF ArraysKept
  <2> QED BY <2>3, <2>4, <2>5
<1> QED BY <1>1 DEF ArraysOK, ArraysKept

(* What a connection's slot holds is not changed from another address.     *)
LEMMA SlotOfOthers ==
    ASSUME NEW c \in Conns, Apart(c), ArraysKept(c), RegistryAssumption,
           NEW d \in Conns, ipOf[d] # ipOf[c], SlotOf(d)
    PROVE  SlotOf(d)'
<1> DEFINE s == tunnelsPerIP[ipOf[d]]
           h == hdr[Reader(d)]
<1>1. /\ pc'[Reader(d)] = pc[Reader(d)] /\ hasTunnel'[d] = hasTunnel[d]
      /\ sub'[d] = sub[d] /\ hdr'[Reader(d)] = h /\ tunnelsPerIP'[ipOf[d]] = s
  BY ProcFacts DEF Apart
<1>2. s.arr \in ArraysOf(ipOf[d]) /\ h.arr \in ArraysOf(ipOf[d])
  BY ProcFacts DEF ArraysOf
<1>3. heap'[s.arr] = heap[s.arr] /\ heap'[h.arr] = heap[h.arr]
  BY <1>2 DEF ArraysKept
<1>4. Elements(heap', s) = Elements(heap, s) /\ Elements(heap', h) = Elements(heap, h)
  BY <1>3 DEF Elements
<1>5. (OnlyName(d, s) => OnlyName(d, s)') /\ (OnlyName(d, h) => OnlyName(d, h)')
  BY <1>1, <1>4 DEF OnlyName
<1> QED BY <1>1, <1>4 DEF SlotOf, OnlyName

(* So it is enough to look at the slot of the connection that takes the    *)
(* step.                                                                   *)
LEMMA SlotsOfStep ==
    ASSUME SlotsOK, NEW c \in Conns, Apart(c), ArraysKept(c),
           Alone(c) => SlotOf(c)'
    PROVE  SlotsOK'
<1>1. ASSUME NEW d \in Conns, Alone(d) PROVE SlotOf(d)'
  <2>1. CASE d = c
    BY <1>1, <2>1
  <2>2. CASE d # c
    BY <1>1, <2>2, SlotOfOthers, RegistryAssumption DEF SlotsOK, Alone
  <2> QED BY <2>1, <2>2
<1> QED BY <1>1, ArraysStayApart DEF SlotsOK, Alone

(* A step that leaves the slices alone leaves the arrays alone.            *)
LEMMA QuietArrays ==
    ASSUME ArraysOK, NEW c \in Conns, UNCHANGED <<heap, hdr, tunnelsPerIP>>
    PROVE  ArraysKept(c)
BY DEF ArraysKept, ArraysOf, ArraysOK

(* A step of the reader of c that leaves the slices alone.                 *)
Elsewhere(c) ==
    /\ UNCHANGED <<heap, hdr, tunnelsPerIP>> /\ Apart(c) /\ (SlotOf(c) => SlotOf(c)')

(* Most steps do.                                                          *)
LEMMA ElsewhereSteps ==
    ASSUME Repeaters = {}, TypeOK, TunnelOK, NEW c \in Conns,
           \/ Accept(c) \/ (\E req \in Requests : ReceiveRequest(c, req)) \/ ReceiveClose(c)
           \/ Authenticate(c) \/ AcquireLock(c) \/ RefuseName(c) \/ TakeName(c)
           \/ CheckIP(c) \/ AddClient(c) \/ AddKey(c) \/ Reply(c) \/ ReplyFails(c)
           \/ RemoveClient(Reader(c)) \/ RemoveKey(Reader(c)) \/ DrainChannels(Reader(c))
           \/ CloseConn(Reader(c))
    PROVE  Elsewhere(c)
<1> USE ProcFacts DEF Elsewhere, Apart, SlotOf, OnlyName, EmptyPoints, FullPoints, TypeOK, TunnelOK,
        Creating, Closing, Locked, At, GoTo, tables, second, perConn
<1>1. ASSUME Accept(c) PROVE Elsewhere(c)
  BY <1>1 DEF Accept
<1>2. ASSUME NEW req \in Requests, ReceiveRequest(c, req) PROVE Elsewhere(c)
  BY <1>2 DEF ReceiveRequest
<1>3. ASSUME ReceiveClose(c) PROVE Elsewhere(c)
  BY <1>3 DEF ReceiveClose
<1>4. ASSUME Authenticate(c) PROVE Elsewhere(c)
  BY <1>4 DEF Authenticate, Reject
<1>5. ASSUME AcquireLock(c) PROVE Elsewhere(c)
  BY <1>5 DEF AcquireLock
<1>6. ASSUME RefuseName(c) PROVE Elsewhere(c)
  BY <1>6 DEF RefuseName, Reject
<1>7. ASSUME TakeName(c) PROVE Elsewhere(c)
  BY <1>7 DEF TakeName
<1>8. ASSUME CheckIP(c) PROVE Elsewhere(c)
  BY <1>8 DEF CheckIP
<1>9. ASSUME AddClient(c) PROVE Elsewhere(c)
  BY <1>9 DEF AddClient
<1>10. ASSUME AddKey(c) PROVE Elsewhere(c)
  BY <1>10 DEF AddKey
<1>11. ASSUME Reply(c) PROVE Elsewhere(c)
  BY <1>11 DEF Reply
<1>12. ASSUME ReplyFails(c) PROVE Elsewhere(c)
  BY <1>12 DEF ReplyFails
<1>13. ASSUME RemoveClient(Reader(c)) PROVE Elsewhere(c)
  BY <1>13 DEF RemoveClient
<1>14. ASSUME RemoveKey(Reader(c)) PROVE Elsewhere(c)
  BY <1>14 DEF RemoveKey
<1>15. ASSUME DrainChannels(Reader(c)) PROVE Elsewhere(c)
  BY <1>15 DEF DrainChannels
<1>16. ASSUME CloseConn(Reader(c)) PROVE Elsewhere(c)
  BY <1>16 DEF CloseConn
<1> HIDE DEF Elsewhere
<1> QED BY <1>1, <1>2, <1>3, <1>4, <1>5, <1>6, <1>7, <1>8, <1>9, <1>10, <1>11, <1>12,
      <1>13, <1>14, <1>15, <1>16

(* A step of the reader of c that reads or writes a slice.                 *)
Stored(c) == Apart(c) /\ ArraysKept(c) /\ (SlotOf(c) => SlotOf(c)')

(* The empty array.                                                        *)
LEMMA ArrayZero == 0 \in Arrays
BY ArraysAssumption DEF Arrays

(* Every header's array is in use at its address.                          *)
LEMMA ArraysInUse ==
    /\ \A p \in Procs : hdr[p].arr \in ArraysOf(ipOf[ConnOf(p)]) /\ ipOf[ConnOf(p)] \in IPs
    /\ \A ip \in IPs : ArraysOf(ip) \subseteq InUse
BY ProcFacts, RegistryAssumption DEF ArraysOf, InUse

(* Copying the header shares the array with the copy, at the same address. *)
LEMMA CopiesStored ==
    ASSUME TypeOK, ArraysOK, NEW c \in Conns, ReadIP(c) \/ GetIP(Reader(c))
    PROVE  Stored(c)
<1> USE ProcFacts DEF TypeOK, At, GoTo, tables, perConn
<1> DEFINE s == tunnelsPerIP[ipOf[c]]
<1>1. /\ hdr' = [hdr EXCEPT ![Reader(c)] = s]
      /\ UNCHANGED <<heap, tunnelsPerIP, sub, hasTunnel>>
      /\ \/ pc[Reader(c)] = "ipRead" /\ pc'[Reader(c)] = "ipAppend"
         \/ pc[Reader(c)] = "ipGet" /\ pc'[Reader(c)] = "ipDelete"
      /\ \A q \in Procs \ {Reader(c)} : pc'[q] = pc[q]
  BY DEF ReadIP, GetIP
<1>2. Apart(c)
  BY <1>1 DEF Apart
<1>3. hdr'[Reader(c)] = s
  BY <1>1
<1>4. ArraysOf(ipOf[c])' \subseteq ArraysOf(ipOf[c])
  BY <1>1 DEF ArraysOf
<1>5. ArraysKept(c)
  BY <1>1, <1>4 DEF ArraysKept, ArraysOK
<1>6. SlotOf(c) => SlotOf(c)'
  BY <1>1, <1>3 DEF SlotOf, OnlyName, EmptyPoints, FullPoints
<1> QED BY <1>2, <1>5, <1>6 DEF Stored

(* append writes behind the end of the own array, or takes a fresh one.    *)
LEMMA AppendStored ==
    ASSUME TypeInv, ArraysOK, NEW c \in Conns, AppendIP(c)
    PROVE  Stored(c)
<1> USE ProcFacts DEF TypeInv
<1> DEFINE r == Reader(c)
           s == hdr[r]
<1>1. PICK fresh \in FreshArrays :
          /\ heap' = AppendHeap(heap, s, sub[c], fresh)
          /\ hdr' = [hdr EXCEPT ![r] = AppendHeader(heap, s, fresh)]
  BY DEF AppendIP
<1>2. /\ pc[r] = "ipAppend" /\ pc'[r] = "ipStore" /\ \A q \in Procs \ {r} : pc'[q] = pc[q]
      /\ UNCHANGED <<tunnelsPerIP, sub, hasTunnel>>
  BY DEF AppendIP, At, GoTo, TypeOK, perConn
<1>3. /\ s \in Headers /\ Fits(heap, s) /\ s.arr \in Arrays
      /\ heap \in [Arrays -> Seq(TunnelIds \cup {NoName})] /\ heap[0] = <<>>
      /\ sub[c] \in TunnelIds \cup {NoName}
  BY DEF TypeOK, HeapOK, ArraysOK, Headers
<1>4. fresh \in Arrays \ {0} /\ fresh \notin InUse
  BY DEF FreshArrays, InUse
<1> DEFINE s2 == hdr'[r]
<1>5. /\ s2.len = s.len + 1 /\ s2.arr \in {s.arr, fresh}
      /\ \A a \in Arrays : a = 0 \/ a \notin {s.arr, fresh} => heap'[a] = heap[a]
      /\ Elements(heap', s2) = Elements(heap, s) \cup {sub[c]}
  <2>1. s2 = AppendHeader(heap, s, fresh)
    BY <1>1 DEF TypeOK
  <2> DEFINE S == TunnelIds \cup {NoName}
  <2>2. /\ heap \in [Arrays -> Seq(S)] /\ sub[c] \in S
        /\ heap' = AppendHeap(heap, s, sub[c], fresh)
    BY <1>1, <1>3
  <2> HIDE DEF s, s2, S
  <2> QED BY <1>3, <1>4, <2>1, <2>2, AppendWrites
<1>6. Apart(c)
  BY <1>1, <1>2 DEF Apart, TypeOK
<1>7. ArraysKept(c)
  <2>1. heap'[0] = <<>>
    BY <1>3, <1>5, ArrayZero
  <2>2. ASSUME NEW ip \in IPs \ {ipOf[c]}, NEW a \in ArraysOf(ip) PROVE heap'[a] = heap[a]
    <3>1. a \in Arrays
      BY DEF ArraysOf, TypeOK, Headers
    <3>2. s.arr \in ArraysOf(ipOf[c]) /\ ipOf[c] \in IPs
      BY ArraysInUse
    <3>3. a = 0 \/ a # s.arr
      BY <3>2 DEF ArraysOK
    <3>4. a # fresh
      BY <1>4, ArraysInUse
    <3> QED BY <1>5, <3>1, <3>3, <3>4
  <2>3. ArraysOf(ipOf[c])' \subseteq ArraysOf(ipOf[c]) \cup {fresh}
    <3>1. \A q \in Procs \ {r} : hdr'[q] = hdr[q]
      BY <1>6 DEF Apart
    <3>2. s2.arr \in ArraysOf(ipOf[c]) \cup {fresh}
      BY <1>5, ArraysInUse
    <3> QED BY <1>2, <3>1, <3>2 DEF ArraysOf
  <2> QED BY <1>4, <2>1, <2>2, <2>3 DEF ArraysKept
<1>8. ASSUME SlotOf(c) PROVE SlotOf(c)'
  <2>1. s.len = 0 /\ tunnelsPerIP[ipOf[c]].len = 0
    BY <1>2, <1>8 DEF SlotOf, EmptyPoints
  <2>2. Elements(heap, s) = {}
    BY <2>1 DEF Elements
  <2>3. s2.len = 1 /\ Elements(heap', s2) = {sub[c]}
    BY <1>5, <2>1, <2>2
  <2> QED BY <1>2, <2>3 DEF SlotOf, OnlyName, EmptyPoints, FullPoints
<1> QED BY <1>6, <1>7, <1>8 DEF Stored

(* Storing the header drops the copy; the collector keeps what is in use.  *)
LEMMA StoreStored ==
    ASSUME TypeInv, ArraysOK, NEW c \in Conns, StoreIP(c) \/ PutIP(Reader(c))
    PROVE  Stored(c)
<1> USE ProcFacts DEF TypeInv
<1> DEFINE r == Reader(c)
           s == hdr[r]
           live == {tunnelsPerIP'[ip].arr : ip \in IPs} \cup {hdr'[q].arr : q \in Procs}
<1>1. /\ tunnelsPerIP' = [tunnelsPerIP EXCEPT ![ipOf[c]] = s]
      /\ hdr' = [hdr EXCEPT ![r] = EmptySlice]
      /\ heap' = Collect(heap, live)
      /\ UNCHANGED <<sub, hasTunnel>>
      /\ \A q \in Procs \ {r} : pc'[q] = pc[q]
      /\ \/ pc[r] = "ipStore" /\ pc'[r] = "addKey"
         \/ pc[r] = "ipPut" /\ pc'[r] = "rmKey"
  BY DEF StoreIP, PutIP, StoreHeader, At, GoTo, TypeOK, perConn
<1>2. Apart(c)
  BY <1>1, RegistryAssumption DEF Apart, TypeOK
<1>3. /\ tunnelsPerIP'[ipOf[c]] = s /\ hdr'[r] = EmptySlice /\ ipOf[c] \in IPs
  BY <1>1, RegistryAssumption DEF TypeOK
<1>4. \A a \in Arrays : a \in live => heap'[a] = heap[a]
  BY <1>1 DEF Collect
<1>5. heap'[0] = <<>>
  BY <1>1, ArrayZero DEF Collect, ArraysOK
<1>6. \A ip \in IPs : ArraysOf(ip)' \subseteq live
  BY DEF ArraysOf
<1> HIDE DEF live
<1>7. ArraysKept(c)
  <2>1. ASSUME NEW ip \in IPs \ {ipOf[c]}, NEW a \in ArraysOf(ip) PROVE heap'[a] = heap[a]
    <3>1. a \in Arrays
      BY DEF ArraysOf, TypeOK, Headers
    <3>2. a \in ArraysOf(ip)'
      BY <1>2, ArraysOfOthers
    <3> QED BY <1>4, <1>6, <3>1, <3>2
  <2>2. ArraysOf(ipOf[c])' \subseteq ArraysOf(ipOf[c]) \cup {0}
    <3>1. \A q \in Procs \ {r} : hdr'[q] = hdr[q]
      BY <1>2 DEF Apart
    <3>2. s.arr \in ArraysOf(ipOf[c]) /\ EmptySlice.arr = 0
      BY ArraysInUse DEF EmptySlice
    <3> QED BY <1>3, <3>1, <3>2 DEF ArraysOf
  <2> QED BY <1>5, <2>1, <2>2 DEF ArraysKept
<1>8. Elements(heap', s) = Elements(heap, s)
  <2>1. s.arr \in Arrays /\ s.arr \in live
    BY <1>3 DEF TypeOK, Headers, live
  <2> QED BY <1>4, <2>1 DEF Elements
<1>9. SlotOf(c) => SlotOf(c)'
  BY <1>1, <1>3, <1>8 DEF SlotOf, OnlyName, EmptyPoints, FullPoints
<1> QED BY <1>2, <1>7, <1>9 DEF Stored

(* slices.Delete finds the name, at the first place.                       *)
LEMMA DeleteStored ==
    ASSUME TypeInv, ArraysOK, NEW c \in Conns, DeleteIP(Reader(c))
    PROVE  Stored(c)
<1> USE ProcFacts DEF TypeInv
<1> DEFINE r == Reader(c)
           s == hdr[r]
           found == Positions(heap, s, sub[c])
<1>1. /\ pc[r] = "ipDelete" /\ UNCHANGED <<tunnelsPerIP, sub, hasTunnel>>
      /\ \A q \in Procs \ {r} : pc'[q] = pc[q]
  BY DEF DeleteIP, At, GoTo, TypeOK, perConn
<1>2. Apart(c)
  BY <1>1 DEF Apart, DeleteIP, TypeOK
<1>3. /\ s \in Headers /\ Fits(heap, s) /\ s.arr \in Arrays
      /\ heap \in [Arrays -> Seq(TunnelIds \cup {NoName})] /\ heap[0] = <<>>
  BY DEF TypeOK, HeapOK, ArraysOK, Headers
<1>4. CASE found # {}
  <2>1. /\ heap' = DeleteHeap(heap, s, Min(found)) /\ pc'[r] = "ipPut"
        /\ hdr' = [hdr EXCEPT ![r] = DeleteHeader(s)]
    BY <1>4, ReadersTunnel DEF DeleteIP, At, GoTo, TypeOK
  <2>2. Min(found) \in 1..s.len
    <3>1. found \subseteq 1..s.len
      BY DEF Positions
    <3>2. found \subseteq Nat
      BY <3>1
    <3> HIDE DEF found
    <3> QED BY <1>4, <3>1, <3>2, MinPosition
  <2>3. /\ hdr'[r].len = s.len - 1 /\ hdr'[r].arr = s.arr
        /\ \A a \in Arrays : a = 0 \/ a # s.arr => heap'[a] = heap[a]
    <3>1. hdr'[r] = DeleteHeader(s)
      BY <2>1 DEF TypeOK
    <3> DEFINE k == Min(found)
    <3> HIDE DEF k, s
    <3> QED BY <1>3, <2>1, <2>2, <3>1, DeleteWrites DEF k
  <2>4. ArraysKept(c)
    <3>1. heap'[0] = <<>>
      BY <1>3, <2>3, ArrayZero
    <3>2. ASSUME NEW ip \in IPs \ {ipOf[c]}, NEW a \in ArraysOf(ip) PROVE heap'[a] = heap[a]
      <4>1. a \in Arrays
        BY DEF ArraysOf, TypeOK, Headers
      <4>2. s.arr \in ArraysOf(ipOf[c]) /\ ipOf[c] \in IPs
        BY ArraysInUse
      <4>3. a = 0 \/ a # s.arr
        BY <4>2 DEF ArraysOK
      <4> QED BY <2>3, <4>1, <4>3
    <3>3. ArraysOf(ipOf[c])' \subseteq ArraysOf(ipOf[c])
      <4>1. \A q \in Procs : hdr'[q].arr = hdr[q].arr
        BY <1>2, <2>3 DEF Apart
      <4> QED BY <1>1, <4>1 DEF ArraysOf
    <3> QED BY <3>1, <3>2, <3>3 DEF ArraysKept
  <2>5. ASSUME SlotOf(c) PROVE SlotOf(c)'
    <3>1. s.len = 1
      BY <1>1, <2>1, <1>4, <2>5 DEF SlotOf, OnlyName
    <3>2. hdr'[r].len = 0
      BY <2>3, <3>1
    <3> QED BY <2>1, <3>2 DEF SlotOf, EmptyPoints, FullPoints
  <2> QED BY <1>2, <2>4, <2>5 DEF Stored
<1>5. CASE found = {}
  <2> DEFINE live == {tunnelsPerIP[ip].arr : ip \in IPs} \cup {hdr'[q].arr : q \in Procs}
  <2>1. /\ heap' = Collect(heap, live) /\ pc'[r] = "rmKey"
        /\ hdr' = [hdr EXCEPT ![r] = EmptySlice]
    BY <1>5, ReadersTunnel DEF DeleteIP, At, GoTo, TypeOK
  <2>2. \A a \in Arrays : a \in live => heap'[a] = heap[a]
    BY <2>1 DEF Collect
  <2>3. heap'[0] = <<>>
    BY <1>3, <2>1, ArrayZero DEF Collect
  <2>4. \A ip \in IPs : ArraysOf(ip)' \subseteq live
    BY <1>1 DEF ArraysOf
  <2> HIDE DEF live
  <2>5. ArraysKept(c)
    <3>1. ASSUME NEW ip \in IPs \ {ipOf[c]}, NEW a \in ArraysOf(ip) PROVE heap'[a] = heap[a]
      <4>1. a \in Arrays
        BY DEF ArraysOf, TypeOK, Headers
      <4>2. a \in ArraysOf(ip)'
        BY <1>2, ArraysOfOthers
      <4> QED BY <2>2, <2>4, <4>1, <4>2
    <3>2. ArraysOf(ipOf[c])' \subseteq ArraysOf(ipOf[c]) \cup {0}
      <4>1. \A q \in Procs \ {r} : hdr'[q] = hdr[q]
        BY <1>2 DEF Apart
      <4>2. hdr'[r].arr = 0
        BY <2>1 DEF EmptySlice, TypeOK
      <4> QED BY <1>1, <4>1, <4>2 DEF ArraysOf
    <3> QED BY <2>3, <3>1, <3>2 DEF ArraysKept
  <2>6. ASSUME SlotOf(c) PROVE FALSE
    <3>1. s.len = 1 /\ Elements(heap, s) = {sub[c]}
      BY <1>1, <2>6 DEF SlotOf, OnlyName
    <3> QED BY <1>5, <3>1 DEF Elements, Positions
  <2> QED BY <1>2, <2>5, <2>6 DEF Stored
<1> QED BY <1>4, <1>5

(* Every step keeps the slots where they belong.                           *)
LEMMA SlotsStep ==
    ASSUME "asyncClose" \notin Faults, Repeaters = {}
    PROVE  TypeInv /\ TunnelOK /\ AsyncIdle /\ SlotsOK /\ [Next]_vars => SlotsOK'
<1> SUFFICES ASSUME TypeInv, TunnelOK, AsyncIdle, SlotsOK, [Next]_vars PROVE SlotsOK'
  OBVIOUS
<1> USE DEF TypeInv
<1>0. ArraysOK /\ \A c \in Conns : Alone(c) => SlotOf(c)
  BY DEF SlotsOK
<1>1. ASSUME NEW why \in Reasons, Crash(why) PROVE SlotsOK'
  <2>1. ArraysOK'
    <3>1. \A ip \in IPs : ArraysOf(ip)' \subseteq {0}
      BY <1>1 DEF Crash, ArraysOf, EmptySlice
    <3> QED BY <1>1, <3>1, ArrayZero DEF Crash, ArraysOK
  <2>2. ASSUME NEW c \in Conns PROVE SlotOf(c)'
    <3>1. /\ pc'[Reader(c)] = "new" /\ tunnelsPerIP'[ipOf[c]].len = 0
          /\ hdr'[Reader(c)].len = 0
      BY <1>1, ProcFacts, RegistryAssumption DEF Crash, EmptySlice
    <3> QED BY <3>1 DEF SlotOf, EmptyPoints, FullPoints
  <2> QED BY <2>1, <2>2 DEF SlotsOK, Alone
<1>2. ASSUME NEW c \in Conns, Elsewhere(c) PROVE SlotsOK'
  BY <1>0, <1>2, QuietArrays, SlotsOfStep DEF Elsewhere
<1>3. ASSUME NEW c \in Conns, Stored(c) PROVE SlotsOK'
  BY <1>0, <1>3, SlotsOfStep DEF Stored
<1>4. CASE Restart \/ UNCHANGED vars
  <2>1. UNCHANGED <<heap, hdr, tunnelsPerIP, pc, hasTunnel, sub>>
    BY <1>4 DEF Restart, vars, tables, perConn
  <2>2. ArraysOK'
    <3>1. \A ip \in IPs : ArraysOf(ip)' = ArraysOf(ip)
      BY <2>1 DEF ArraysOf
    <3> QED BY <1>0, <2>1, <3>1 DEF ArraysOK
  <2>3. \A c \in Conns : SlotOf(c) => SlotOf(c)'
    BY <2>1 DEF SlotOf, OnlyName
  <2> QED BY <1>0, <2>2, <2>3 DEF SlotsOK, Alone
<1>5. ASSUME NEW c \in Conns,
             \/ Accept(c) \/ (\E req \in Requests : ReceiveRequest(c, req)) \/ ReceiveClose(c)
             \/ Authenticate(c) \/ AcquireLock(c) \/ RefuseName(c) \/ TakeName(c)
             \/ CheckIP(c) \/ AddClient(c) \/ AddKey(c) \/ Reply(c) \/ ReplyFails(c)
             \/ RemoveClient(Reader(c)) \/ RemoveKey(Reader(c)) \/ DrainChannels(Reader(c))
             \/ CloseConn(Reader(c))
      PROVE  SlotsOK'
  BY <1>2, <1>5, ElsewhereSteps
<1>6. ASSUME NEW c \in Conns,
             \/ ReadIP(c) \/ GetIP(Reader(c)) \/ AppendIP(c) \/ StoreIP(c) \/ PutIP(Reader(c))
             \/ DeleteIP(Reader(c))
      PROVE  SlotsOK'
  BY <1>0, <1>3, <1>6, CopiesStored, AppendStored, StoreStored, DeleteStored
<1> HIDE DEF TypeInv
<1> QED BY <1>1, <1>4, <1>5, <1>6, ReaderCases DEF TypeInv

(* The list of an address that one connection uses alone holds exactly the *)
(* name of its tunnel while that is up, and nothing once the connection is *)
(* gone, whatever the lists of the other addresses do to the arrays of the *)
(* heap; with the same two exceptions.                                     *)
THEOREM IpSlotsAreExact ==
    ASSUME "asyncClose" \notin Faults, Repeaters = {}
    PROVE  Spec => []IpSlotsExact
<1>1. Init => AsyncIdle /\ SlotsOK
  <2> SUFFICES ASSUME Init PROVE AsyncIdle /\ SlotsOK
    OBVIOUS
  <2>1. AsyncIdle
    BY ProcFacts DEF Init, AsyncIdle
  <2>2. ArraysOK
    <3>1. \A ip \in IPs : ArraysOf(ip) \subseteq {0}
      BY DEF Init, ArraysOf, EmptySlice
    <3> QED BY <3>1, ArrayZero DEF Init, ArraysOK
  <2>3. ASSUME NEW c \in Conns PROVE SlotOf(c)
    <3>1. pc[Reader(c)] = "new" /\ tunnelsPerIP[ipOf[c]].len = 0
      BY ProcFacts, RegistryAssumption DEF Init, EmptySlice
    <3> QED BY <3>1 DEF SlotOf, EmptyPoints, FullPoints
  <2> QED BY <2>1, <2>2, <2>3 DEF SlotsOK
<1>2. TypeInv /\ TunnelOK /\ AsyncIdle /\ SlotsOK /\ [Next]_vars => AsyncIdle' /\ SlotsOK'
  BY AsyncIdleStep, SlotsStep DEF TypeInv
<1>3. SlotsOK => IpSlotsExact
  BY DEF SlotsOK, IpSlotsExact, Alone, SlotOf, OnlyName, EmptyPoints, FullPoints
<1>4. Spec => [](TypeInv /\ TunnelOK)
  BY EntryInvariant, PTL
<1> QED BY <1>1, <1>2, <1>3, <1>4, PTL DEF Spec
=============================================================================
