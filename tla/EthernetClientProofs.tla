-------------------------- MODULE EthernetClientProofs --------------------------
(***************************************************************************)
(* No descriptor is closed or used by somebody else, for any number of     *)
(* descriptors, clients and servers.                                       *)
(***************************************************************************)
EXTENDS EthernetClient, WellFoundedInduction, TLAPS

Distinct ==
  /\ Fd \subseteq Nat \ {0}
  /\ Nobody \notin Impl \cup Server /\ Impl \cap Server = {}

TypeOK ==
  /\ events \in Sketches
  /\ table \in [Fd -> Impl \cup Server \cup {Nobody}]
  /\ sock \in [Impl -> Fd \cup {-1}]
  /\ impl \in [Handle -> Impl \cup {Nobody}]
  /\ is_connected \in [Handle -> BOOLEAN]
  /\ handles \subseteq Handle
  /\ servers \subseteq Server
  /\ server_fd \in [Server -> Fd \cup {-1, 0}]
  /\ status \in [Server -> {"disconnected", "connected", "failed"}]

(* Without stop() and unresolved names a descriptor number somebody holds  *)
(* is a descriptor of his own.                                             *)
Owned ==
  {"stop", "unresolved"} \cap events = {} =>
    /\ ~foreign
    /\ \A i \in Impl : Sharing(i) # {} /\ sock[i] # -1 => table[sock[i]] = i
    /\ \A s \in servers : server_fd[s] > 0 => table[server_fd[s]] = s

OwnedInv == Distinct /\ TypeOK /\ Owned

(* The kernel finds a free descriptor if there is one. *)
LEMMA LowestFree ==
  ASSUME Distinct, NEW t, FreeFds(t) # {}
  PROVE  Lowest(FreeFds(t)) \in Fd /\ t[Lowest(FreeFds(t))] = Nobody
<1> DEFINE T == FreeFds(t)
           R == {ss \in Nat \X Nat : ss[1] < ss[2]}
<1>1. T \subseteq Nat /\ T \subseteq Fd /\ \A f \in T : t[f] = Nobody
  BY DEF Distinct, FreeFds
<1>2. IsWellFoundedOn(R, Nat)
  BY NatLessThanWellFounded DEF OpToRel
<1>3. \E f \in T : \A g \in T : <<g, f>> \notin R
  <2> HIDE DEF T, R
  <2>1. QED
    BY <1>1, <1>2, WFMin DEF T
<1>4. PICK f \in T : \A g \in T : <<g, f>> \notin R
  BY <1>3
<1>5. ASSUME NEW g \in T PROVE f <= g
  <2>1. f \in Nat /\ g \in Nat
    BY <1>1
  <2>2. ~(g < f)
    <3> HIDE DEF T
    <3>1. <<g, f>> \notin R
      BY <1>4
    <3>2. QED
      BY <2>1, <3>1
  <2>3. QED
    BY <2>1, <2>2
<1>6. Lowest(T) \in T
  BY <1>5 DEF Lowest
<1>7. QED
  BY <1>1, <1>6

Owner == Impl \cup Server \cup {Nobody}

(* Closing f changes nothing else. *)
LEMMA ClosedTable ==
  ASSUME TypeOK, NEW f
  PROVE  /\ Closed(f) \in [Fd -> Owner]
         /\ \A g \in Fd : Closed(f)[g] = IF g = f THEN Nobody ELSE table[g]
BY DEF Closed, TypeOK, Owner

(* SocketImpl::connect() in the table t keeps the types, and what it takes *)
(* was free.                                                               *)
LEMMA Opened ==
  ASSUME Distinct, TypeOK, NEW i \in Impl, NEW t \in [Fd -> Owner], ClientOpenSocket(i, t)
  PROVE  /\ table' \in [Fd -> Owner] /\ sock' \in [Impl -> Fd \cup {-1}]
         /\ \A j \in Impl \ {i} : sock'[j] = sock[j]
         /\ \A f \in Fd : table'[f] = IF f = sock'[i] THEN i ELSE t[f]
         /\ sock'[i] \in Fd => t[sock'[i]] = Nobody
<1>1. CASE FreeFds(t) = {}
  <2>1. sock' = [sock EXCEPT ![i] = -1] /\ table' = t
    BY <1>1 DEF ClientOpenSocket
  <2>2. -1 \notin Fd
    BY DEF Distinct
  <2>3. QED
    BY <2>1, <2>2 DEF TypeOK
<1>2. CASE FreeFds(t) # {}
  <2> DEFINE f == Lowest(FreeFds(t))
  <2>1. f \in Fd /\ t[f] = Nobody
    BY <1>2, LowestFree
  <2>2. sock' = [sock EXCEPT ![i] = f] /\ table' = [t EXCEPT ![f] = i]
    BY <1>2 DEF ClientOpenSocket
  <2> HIDE DEF f
  <2>3. QED
    BY <2>1, <2>2 DEF TypeOK, Owner
<1>3. QED
  BY <1>1, <1>2

(* What begin_() of a server may leave is typed, and what it takes was     *)
(* free.                                                                   *)
LEMMA BegunType ==
  ASSUME Distinct, TypeOK, NEW s \in Server, NEW b \in Begun(s)
  PROVE  /\ b.fd \in Fd \cup {-1} /\ b.status \in {"connected", "failed"}
         /\ b.table \in [Fd -> Owner]
         /\ \A f \in Fd : b.table[f] = IF f = b.fd THEN s ELSE table[f]
         /\ b.fd \in Fd => table[b.fd] = Nobody
         /\ b.fd \in Fd /\ b.status = "failed" => "unheard" \in events
<1>1. CASE FreeFds(table) = {}
  <2>1. b = [fd |-> -1, status |-> "failed", entries |-> 0, table |-> table]
    BY <1>1 DEF Begun
  <2>2. -1 \notin Fd
    BY DEF Distinct
  <2>3. QED
    BY <2>1, <2>2 DEF TypeOK, Owner
<1>2. CASE FreeFds(table) # {}
  <2> DEFINE f == Lowest(FreeFds(table))
  <2>1. f \in Fd /\ table[f] = Nobody
    BY <1>2, LowestFree
  <2>2. /\ b.fd = f /\ b.table = [table EXCEPT ![f] = s]
        /\ b.status \in {"connected", "failed"}
        /\ b.status = "failed" => "unheard" \in events
    BY <1>2 DEF Begun
  <2> HIDE DEF f
  <2>3. QED
    BY <2>1, <2>2 DEF TypeOK, Owner
<1>3. QED
  BY <1>1, <1>2

(* The number an owner holds is its own. *)
LEMMA NotForeign ==
  ASSUME OwnedInv, {"stop", "unresolved"} \cap events = {}
  PROVE  /\ \A h \in handles : impl[h] \in Impl =>
              /\ ~IsForeign(impl[h], sock[impl[h]])
              /\ sock[impl[h]] \in Fd => table[sock[impl[h]]] = impl[h]
         /\ \A s \in servers : ~IsForeign(s, server_fd[s])
<1>1. -1 \notin Fd /\ \A f \in Fd : f > 0
  BY DEF OwnedInv, Distinct
<1>2. \A h \in handles : h \in Sharing(impl[h])
  BY DEF Sharing
<1>3. QED
  BY <1>1, <1>2 DEF OwnedInv, Owned, TypeOK, IsForeign

(* A client reconnects. *)
LEMMA ConnectKeepsOwned ==
  ASSUME OwnedInv, NEW h \in Handle, Connect(h)
  PROVE  OwnedInv'
<1> DEFINE i == impl[h]
           t == IF is_connected[h] THEN Closed(sock[i]) ELSE table
<1>1. /\ i \in Impl /\ h \in handles
      /\ foreign' = (foreign \/ (is_connected[h] /\ IsForeign(i, sock[i])))
      /\ UNCHANGED <<events, impl, handles, servers, server_fd, status>>
  BY DEF Connect, OwnedInv, TypeOK, serverVars
<1>2. /\ t \in [Fd -> Owner]
      /\ \A f \in Fd : t[f] = IF is_connected[h] /\ f = sock[i] THEN Nobody ELSE table[f]
  BY ClosedTable DEF OwnedInv, TypeOK, Owner
<1>3. \/ "unresolved" \in events /\ table' = t /\ sock' = sock
      \/ ClientOpenSocket(i, t)
  BY DEF Connect
<1>4. is_connected' \in [Handle -> BOOLEAN]
  BY DEF Connect, OwnedInv, TypeOK
<1> HIDE DEF i, t
<1>5. TypeOK'
  BY <1>1, <1>2, <1>3, <1>4, Opened DEF OwnedInv, TypeOK, Owner
<1>6. ASSUME {"stop", "unresolved"} \cap events = {} PROVE Owned'
  <2>1. ~foreign' /\ (sock[i] \in Fd => table[sock[i]] = i)
    BY <1>1, <1>6, NotForeign DEF i, OwnedInv, Owned
  <2>2. ClientOpenSocket(i, t)
    BY <1>3, <1>6
  <2>3. \A j \in Impl : Sharing(j)' = Sharing(j)
    BY <1>1 DEF Sharing
  <2>4. /\ \A j \in Impl \ {i} : sock'[j] = sock[j]
        /\ \A f \in Fd : table'[f] = IF f = sock'[i] THEN i ELSE t[f]
        /\ sock'[i] \in Fd => t[sock'[i]] = Nobody
        /\ sock'[i] \in Fd \cup {-1}
    BY <1>1, <1>2, <2>2, Opened DEF OwnedInv, TypeOK
  <2>5. \A f \in Fd : table[f] \in Impl \cup Server /\ table[f] # i => table'[f] = table[f]
    BY <1>2, <2>1, <2>4 DEF OwnedInv, Distinct
  <2>6. \A j \in Impl : Sharing(j)' # {} /\ sock'[j] # -1 => table'[sock'[j]] = j
    BY <1>6, <2>3, <2>4, <2>5 DEF OwnedInv, Owned, TypeOK
  <2>7. \A s \in servers' : server_fd'[s] > 0 => table'[server_fd'[s]] = s
    <3>1. SUFFICES ASSUME NEW s \in servers, server_fd[s] > 0
                   PROVE  table'[server_fd[s]] = s
      BY <1>1
    <3>2. s \in Server /\ server_fd[s] \in Fd /\ table[server_fd[s]] = s
      BY <1>6, <3>1 DEF OwnedInv, Owned, TypeOK
    <3>3. s # i
      BY <1>1, <3>2 DEF OwnedInv, Distinct
    <3>4. QED
      BY <2>5, <3>2, <3>3
  <2>8. QED
    BY <2>1, <2>6, <2>7 DEF Owned
<1>7. QED
  BY <1>1, <1>5, <1>6 DEF OwnedInv, Owned, Distinct

(* A client is destroyed or stopped: if it closes the descriptor of its    *)
(* SocketImpl nobody else holds that.                                      *)
LEMMA DestroyKeepsOwned ==
  ASSUME OwnedInv, NEW h \in Handle, Destroy(h) \/ ClientStop(h)
  PROVE  OwnedInv'
<1> DEFINE i == impl[h]
<1>1. /\ h \in handles /\ handles' \subseteq handles
      /\ UNCHANGED <<events, sock, impl, is_connected, servers, server_fd, status>>
  BY DEF Destroy, ClientStop, clientVars, serverVars
<1>2. \/ UNCHANGED <<table, foreign>>
      \/ Close(i) /\ i \in Impl
  BY DEF Destroy, ClientStop, OwnedInv, TypeOK
<1>3. TypeOK'
  BY <1>1, <1>2, ClosedTable DEF Close, OwnedInv, TypeOK, Owner
<1>4. ASSUME {"stop", "unresolved"} \cap events = {} PROVE Owned'
  <2>1. \A j \in Impl : Sharing(j)' = Sharing(j) \ (handles \ handles')
    BY <1>1 DEF Sharing
  <2>2. CASE UNCHANGED <<table, foreign>>
    BY <1>1, <1>4, <2>1, <2>2 DEF OwnedInv, Owned
  <2>3. CASE ~UNCHANGED <<table, foreign>>
    <3>1. Close(i) /\ Sharing(i) = {h} /\ handles' = handles \ {h} /\ i \in Impl
      BY <1>2, <1>4, <2>3 DEF Destroy, ClientStop
    <3>2. \A j \in Impl : j = i => Sharing(j)' = {}
      BY <1>1, <2>1, <3>1
    <3>3. ~foreign' /\ (sock[i] \in Fd => table[sock[i]] = i)
      BY <1>1, <1>4, <3>1, NotForeign DEF Close, OwnedInv, Owned
    <3>4. \A f \in Fd : table'[f] = IF f = sock[i] THEN Nobody ELSE table[f]
      BY <3>1, ClosedTable DEF Close, OwnedInv
    <3> HIDE DEF i
    <3>5. \A f \in Fd : table[f] # i => table'[f] = table[f]
      BY <3>3, <3>4
    <3>6. \A j \in Impl : Sharing(j)' # {} /\ sock'[j] # -1 => table'[sock'[j]] = j
      <4>1. SUFFICES ASSUME NEW j \in Impl, Sharing(j)' # {}, sock[j] # -1
                     PROVE  table'[sock[j]] = j
        BY <1>1
      <4>2. j # i /\ Sharing(j) # {}
        BY <2>1, <3>2, <4>1
      <4>3. sock[j] \in Fd /\ table[sock[j]] = j
        BY <1>4, <4>1, <4>2 DEF OwnedInv, Owned, TypeOK
      <4>4. QED
        BY <3>5, <4>2, <4>3
    <3>7. \A s \in servers' : server_fd'[s] > 0 => table'[server_fd'[s]] = s
      <4>1. SUFFICES ASSUME NEW s \in servers, server_fd[s] > 0
                     PROVE  table'[server_fd[s]] = s
        BY <1>1
      <4>2. s \in Server /\ server_fd[s] \in Fd /\ table[server_fd[s]] = s
        BY <1>4, <4>1 DEF OwnedInv, Owned, TypeOK
      <4>3. s # i
        BY <3>1, <4>2 DEF OwnedInv, Distinct
      <4>4. QED
        BY <3>5, <4>2, <4>3
    <3>8. QED
      BY <3>3, <3>6, <3>7 DEF Owned
  <2>4. QED
    BY <2>2, <2>3
<1>5. QED
  BY <1>1, <1>3, <1>4 DEF OwnedInv, Owned, Distinct

(* A client is constructed or copied, or uses its descriptor. *)
LEMMA ClientKeepsOwned ==
  ASSUME OwnedInv, NEW h \in Handle,
         \/ \E i \in Impl : Construct(h, i)
         \/ \E g \in Handle : Copy(h, g)
         \/ Use(h)
  PROVE  OwnedInv'
<1>1. ASSUME NEW i \in Impl, Construct(h, i) PROVE OwnedInv'
  <2>1. /\ UNCHANGED <<events, table, foreign, servers, server_fd, status>>
        /\ sock' = [sock EXCEPT ![i] = -1]
        /\ impl' = [impl EXCEPT ![h] = i] /\ handles' = handles \cup {h} /\ h \notin handles
        /\ is_connected' = [is_connected EXCEPT ![h] = FALSE]
    BY <1>1 DEF Construct, serverVars
  <2>2. TypeOK'
    BY <2>1 DEF OwnedInv, TypeOK
  <2>3. \A j \in Impl \ {i} : Sharing(j)' = Sharing(j) /\ sock'[j] = sock[j]
    BY <2>1 DEF Sharing, OwnedInv, TypeOK
  <2>4. sock'[i] = -1
    BY <2>1 DEF OwnedInv, TypeOK
  <2>5. QED
    BY <2>1, <2>2, <2>3, <2>4 DEF OwnedInv, Owned, Distinct
<1>2. ASSUME NEW g \in Handle, Copy(h, g) PROVE OwnedInv'
  <2>1. /\ UNCHANGED <<events, table, sock, foreign, servers, server_fd, status>>
        /\ impl' = [impl EXCEPT ![g] = impl[h]] /\ handles' = handles \cup {g}
        /\ h \in handles /\ g \notin handles
        /\ is_connected' = [is_connected EXCEPT ![g] = is_connected[h]]
    BY <1>2 DEF Copy, serverVars
  <2>2. TypeOK'
    BY <2>1 DEF OwnedInv, TypeOK
  <2>3. \A j \in Impl : Sharing(j)' # {} => Sharing(j) # {}
    BY <2>1 DEF Sharing, OwnedInv, TypeOK
  <2>4. QED
    BY <2>1, <2>2, <2>3 DEF OwnedInv, Owned, Distinct
<1>3. CASE Use(h)
  <2>1. /\ UNCHANGED <<events, table, sock, clientVars, serverVars>>
        /\ h \in handles /\ impl[h] # Nobody
        /\ foreign' = (foreign \/ IsForeign(impl[h], sock[impl[h]]))
    BY <1>3 DEF Use
  <2>2. TypeOK'
    BY <2>1 DEF OwnedInv, TypeOK, clientVars, serverVars
  <2>3. {"stop", "unresolved"} \cap events = {} => ~foreign'
    BY <2>1, NotForeign DEF OwnedInv, Owned, TypeOK
  <2>4. QED
    BY <2>1, <2>2, <2>3 DEF OwnedInv, Owned, Distinct, Sharing, clientVars, serverVars
<1>4. QED
  BY <1>1, <1>2, <1>3

(* A server is constructed, or begins: what it opens was free. *)
LEMMA BeginKeepsOwned ==
  ASSUME OwnedInv, NEW s \in Server, ConstructServer(s) \/ BeginServer(s)
  PROVE  OwnedInv'
<1>1. CASE ConstructServer(s)
  <2>1. /\ UNCHANGED <<events, table, sock, clientVars, foreign>>
        /\ servers' = servers \cup {s}
        /\ server_fd' = [server_fd EXCEPT ![s] = 0]
        /\ status' = [status EXCEPT ![s] = "disconnected"]
    BY <1>1 DEF ConstructServer
  <2>2. TypeOK'
    BY <2>1 DEF OwnedInv, TypeOK, clientVars
  <2>3. \A r \in servers' : server_fd'[r] > 0 => r \in servers /\ server_fd'[r] = server_fd[r]
    BY <2>1 DEF OwnedInv, TypeOK
  <2>4. QED
    BY <2>1, <2>2, <2>3 DEF OwnedInv, Owned, Distinct, Sharing, clientVars
<1>2. CASE BeginServer(s)
  <2>1. PICK b \in Begun(s) : Listening(s, b) /\ table' = b.table
    BY <1>2 DEF BeginServer
  <2>2. /\ UNCHANGED <<events, sock, clientVars, servers, foreign>>
        /\ server_fd' = [server_fd EXCEPT ![s] = b.fd]
        /\ status' = [status EXCEPT ![s] = b.status]
    BY <1>2, <2>1 DEF BeginServer, Listening
  <2>3. /\ b.fd \in Fd \cup {-1} /\ b.status \in {"connected", "failed"}
        /\ b.table \in [Fd -> Owner]
        /\ \A f \in Fd : b.table[f] = IF f = b.fd THEN s ELSE table[f]
        /\ b.fd \in Fd => table[b.fd] = Nobody
    BY BegunType DEF OwnedInv
  <2>4. TypeOK'
    BY <2>1, <2>2, <2>3 DEF OwnedInv, TypeOK, Owner, clientVars
  <2>5. \A f \in Fd : table[f] # Nobody => table'[f] = table[f]
    BY <2>1, <2>3
  <2>6. ASSUME {"stop", "unresolved"} \cap events = {} PROVE Owned'
    <3>1. \A j \in Impl : Sharing(j)' # {} /\ sock'[j] # -1 => table'[sock'[j]] = j
      BY <2>2, <2>5, <2>6 DEF OwnedInv, Owned, TypeOK, Distinct, Sharing, clientVars
    <3>2. \A r \in servers' : server_fd'[r] > 0 => table'[server_fd'[r]] = r
      <4>1. SUFFICES ASSUME NEW r \in servers, server_fd'[r] > 0
                     PROVE  table'[server_fd'[r]] = r
        BY <2>2
      <4>2. CASE r = s
        <5>1. server_fd'[s] = b.fd /\ b.fd \in Fd
          BY <2>2, <2>3, <4>1, <4>2 DEF OwnedInv, TypeOK
        <5>2. QED
          BY <2>1, <2>3, <4>2, <5>1
      <4>3. CASE r # s
        <5>1. r \in Server /\ server_fd'[r] = server_fd[r]
          BY <2>2, <4>1, <4>3 DEF OwnedInv, TypeOK
        <5>2. server_fd[r] \in Fd /\ table[server_fd[r]] = r /\ r # Nobody
          BY <2>6, <4>1, <5>1 DEF OwnedInv, Owned, TypeOK, Distinct
        <5>3. QED
          BY <2>5, <5>1, <5>2
      <4>4. QED
        BY <4>2, <4>3
    <3>3. QED
      BY <2>2, <2>6, <3>1, <3>2 DEF OwnedInv, Owned
  <2>7. QED
    BY <2>2, <2>4, <2>6 DEF OwnedInv, Owned, Distinct
<1>3. QED
  BY <1>1, <1>2

(* A server stops or is destroyed. *)
LEMMA StopKeepsOwned ==
  ASSUME OwnedInv, NEW s \in Server, StopServer(s) \/ DestroyServer(s)
  PROVE  OwnedInv'
<1>1. /\ s \in servers /\ servers' \subseteq servers
      /\ UNCHANGED <<events, sock, impl, is_connected, handles>>
      /\ CloseServer(s)
  BY DEF StopServer, DestroyServer, clientVars
<1>2. /\ server_fd' = [server_fd EXCEPT ![s] = 0]
      /\ status' = [status EXCEPT ![s] = "disconnected"]
  BY <1>1 DEF CloseServer
<1>3. \/ server_fd[s] > 0 /\ table' = Closed(server_fd[s])
                          /\ foreign' = (foreign \/ IsForeign(s, server_fd[s]))
      \/ ~(server_fd[s] > 0) /\ UNCHANGED <<table, foreign>>
  BY <1>1 DEF CloseServer
<1>4. TypeOK'
  BY <1>1, <1>2, <1>3, ClosedTable DEF OwnedInv, TypeOK, Owner
<1>5. ASSUME {"stop", "unresolved"} \cap events = {} PROVE Owned'
  <2>1. ~foreign'
    BY <1>1, <1>3, <1>5, NotForeign DEF OwnedInv, Owned
  <2>2. \A f \in Fd : table[f] # s => table'[f] = table[f]
    BY <1>1, <1>3, <1>5, ClosedTable DEF OwnedInv, Owned
  <2>3. \A j \in Impl : Sharing(j)' # {} /\ sock'[j] # -1 => table'[sock'[j]] = j
    <3>1. SUFFICES ASSUME NEW j \in Impl, Sharing(j) # {}, sock[j] # -1
                   PROVE  table'[sock[j]] = j
      BY <1>1 DEF Sharing
    <3>2. sock[j] \in Fd /\ table[sock[j]] = j
      BY <1>5, <3>1 DEF OwnedInv, Owned, TypeOK
    <3>3. j # s
      BY DEF OwnedInv, Distinct
    <3>4. QED
      BY <2>2, <3>2, <3>3
  <2>4. \A r \in servers' : server_fd'[r] > 0 => table'[server_fd'[r]] = r
    <3>1. SUFFICES ASSUME NEW r \in servers', server_fd'[r] > 0
                   PROVE  table'[server_fd'[r]] = r
      OBVIOUS
    <3>2. r # s /\ r \in servers /\ server_fd'[r] = server_fd[r]
      BY <1>1, <1>2, <3>1 DEF OwnedInv, TypeOK
    <3>3. server_fd[r] \in Fd /\ table[server_fd[r]] = r
      BY <1>5, <3>1, <3>2 DEF OwnedInv, Owned, TypeOK
    <3>4. QED
      BY <2>2, <3>2, <3>3
  <2>5. QED
    BY <2>1, <2>3, <2>4 DEF Owned
<1>6. QED
  BY <1>1, <1>4, <1>5 DEF OwnedInv, Owned, Distinct

(* available() of a server may begin again and accept a client. *)
LEMMA AvailableKeepsOwned ==
  ASSUME OwnedInv, NEW s \in Server, NEW h \in Handle, Available(s, h)
  PROVE  OwnedInv'
<1>1. /\ s \in servers /\ h \notin handles
      /\ handles' = handles \cup {h}
      /\ UNCHANGED <<events, servers, foreign>>
  BY DEF Available
<1> DEFINE Same == [fd |-> server_fd[s], status |-> status[s], entries |-> 0, table |-> table]
<1>2. PICK b \in IF status[s] = "failed" THEN Begun(s) ELSE {Same} :
        /\ Listening(s, b)
        /\ \/ /\ table' = b.table
              /\ impl' = [impl EXCEPT ![h] = Nobody]
              /\ is_connected' = [is_connected EXCEPT ![h] = FALSE]
              /\ UNCHANGED sock
           \/ /\ b.status = "connected" /\ FreeFds(b.table) # {}
              /\ \E i \in UnusedImpls :
                   /\ table' = [b.table EXCEPT ![Lowest(FreeFds(b.table))] = i]
                   /\ sock' = [sock EXCEPT ![i] = Lowest(FreeFds(b.table))]
                   /\ impl' = [impl EXCEPT ![h] = i]
              /\ \E c \in BOOLEAN : is_connected' = [is_connected EXCEPT ![h] = c]
  BY DEF Available
<1>3. /\ b.fd \in Fd \cup {-1, 0} /\ b.status \in {"disconnected", "connected", "failed"}
      /\ b.table \in [Fd -> Owner]
      /\ \A f \in Fd : table[f] # Nobody => b.table[f] = table[f]
      /\ \/ b.fd = server_fd[s]
         \/ b.fd \in Fd => b.table[b.fd] = s
  <2>1. CASE status[s] = "failed"
    BY <1>2, <2>1, BegunType DEF OwnedInv
  <2>2. CASE status[s] # "failed"
    BY <1>2, <2>2 DEF OwnedInv, TypeOK, Owner
  <2>3. QED
    BY <2>1, <2>2
<1>4. /\ server_fd' = [server_fd EXCEPT ![s] = b.fd]
      /\ status' = [status EXCEPT ![s] = b.status]
  BY <1>2 DEF Listening
(* The new handle has no SocketImpl, or one nobody had, which holds what   *)
(* it was given.                                                           *)
<1>5. /\ impl' \in [Handle -> Impl \cup {Nobody}]
      /\ sock' \in [Impl -> Fd \cup {-1}]
      /\ is_connected' \in [Handle -> BOOLEAN]
      /\ table' \in [Fd -> Owner]
      /\ \A f \in Fd : b.table[f] # Nobody => table'[f] = b.table[f]
      /\ \A j \in Impl : Sharing(j)' # {} => \/ Sharing(j) # {} /\ sock'[j] = sock[j]
                                            \/ table'[sock'[j]] = j
  <2>1. CASE /\ table' = b.table
             /\ impl' = [impl EXCEPT ![h] = Nobody]
             /\ is_connected' = [is_connected EXCEPT ![h] = FALSE]
             /\ UNCHANGED sock
    <3>1. \A j \in Impl : Sharing(j)' = Sharing(j)
      BY <1>1, <2>1 DEF Sharing, OwnedInv, TypeOK, Distinct
    <3>2. QED
      BY <1>3, <2>1, <3>1 DEF OwnedInv, TypeOK
  <2>2. CASE /\ FreeFds(b.table) # {}
             /\ \E i \in UnusedImpls :
                  /\ table' = [b.table EXCEPT ![Lowest(FreeFds(b.table))] = i]
                  /\ sock' = [sock EXCEPT ![i] = Lowest(FreeFds(b.table))]
                  /\ impl' = [impl EXCEPT ![h] = i]
             /\ \E c \in BOOLEAN : is_connected' = [is_connected EXCEPT ![h] = c]
    <3> DEFINE f == Lowest(FreeFds(b.table))
    <3>1. PICK i \in UnusedImpls :
            /\ table' = [b.table EXCEPT ![f] = i]
            /\ sock' = [sock EXCEPT ![i] = f]
            /\ impl' = [impl EXCEPT ![h] = i]
      BY <2>2
    <3>2. f \in Fd /\ b.table[f] = Nobody
      BY <2>2, LowestFree DEF OwnedInv
    <3> HIDE DEF f
    <3>3. i \in Impl
      BY DEF UnusedImpls
    <3>4. \A j \in Impl \ {i} : Sharing(j)' = Sharing(j) /\ sock'[j] = sock[j]
      BY <1>1, <3>1 DEF Sharing, OwnedInv, TypeOK
    <3>5. table'[sock'[i]] = i
      BY <1>3, <3>1, <3>2, <3>3 DEF OwnedInv, TypeOK
    <3>6. table' \in [Fd -> Owner] /\ sock' \in [Impl -> Fd \cup {-1}]
      BY <1>3, <3>1, <3>2, <3>3 DEF OwnedInv, TypeOK, Owner
    <3>7. /\ impl' \in [Handle -> Impl \cup {Nobody}]
          /\ is_connected' \in [Handle -> BOOLEAN]
      BY <2>2, <3>1, <3>3 DEF OwnedInv, TypeOK
    <3>8. \A g \in Fd : b.table[g] # Nobody => table'[g] = b.table[g]
      BY <1>3, <3>1, <3>2
    <3>9. QED
      BY <3>4, <3>5, <3>6, <3>7, <3>8
  <2>3. QED
    BY <1>2, <2>1, <2>2
<1>6. TypeOK'
  BY <1>1, <1>3, <1>4, <1>5 DEF OwnedInv, TypeOK, Owner
<1>7. ASSUME {"stop", "unresolved"} \cap events = {} PROVE Owned'
  <2>1. \A f \in Fd : table[f] # Nobody => table'[f] = table[f]
    BY <1>3, <1>5
  <2>2. \A j \in Impl : Sharing(j)' # {} /\ sock'[j] # -1 => table'[sock'[j]] = j
    <3>1. SUFFICES ASSUME NEW j \in Impl, Sharing(j) # {}, sock'[j] = sock[j], sock[j] # -1
                   PROVE  table'[sock[j]] = j
      BY <1>5
    <3>2. sock[j] \in Fd /\ table[sock[j]] = j /\ j # Nobody
      BY <1>7, <3>1 DEF OwnedInv, Owned, TypeOK, Distinct
    <3>3. QED
      BY <2>1, <3>2
  <2>3. \A r \in servers' : server_fd'[r] > 0 => table'[server_fd'[r]] = r
    <3>1. SUFFICES ASSUME NEW r \in servers, server_fd'[r] > 0
                   PROVE  table'[server_fd'[r]] = r
      BY <1>1
    <3>2. r \in Server /\ r # Nobody /\ server_fd'[r] \in Fd
      BY <1>6, <3>1 DEF OwnedInv, TypeOK, Distinct
    <3>3. CASE server_fd'[r] = server_fd[r]
      <4>1. table[server_fd[r]] = r
        BY <1>7, <3>1, <3>3 DEF OwnedInv, Owned
      <4>2. QED
        BY <2>1, <3>2, <3>3, <4>1
    <3>4. CASE server_fd'[r] # server_fd[r]
      <4>1. r = s /\ server_fd'[r] = b.fd
        BY <1>4, <3>2, <3>4 DEF OwnedInv, TypeOK
      <4>2. b.table[b.fd] = s
        BY <1>3, <3>2, <3>4, <4>1
      <4>3. QED
        BY <1>5, <3>2, <4>1, <4>2
    <3>5. QED
      BY <3>3, <3>4
  <2>4. QED
    BY <1>1, <1>7, <2>2, <2>3 DEF OwnedInv, Owned
<1>8. QED
  BY <1>1, <1>6, <1>7 DEF OwnedInv, Owned, Distinct

(* OwnedInv is inductive. *)
LEMMA OwnedStep ==
  ASSUME OwnedInv, [ClientNext]_ethernetClientVars
  PROVE  OwnedInv'
<1>1. ASSUME NEW h \in Handle, NEW i \in Impl, Construct(h, i) PROVE OwnedInv'
  BY <1>1, ClientKeepsOwned
<1>2. ASSUME NEW h \in Handle, NEW g \in Handle, Copy(h, g) PROVE OwnedInv'
  BY <1>2, ClientKeepsOwned
<1>3. ASSUME NEW h \in Handle, Destroy(h) \/ ClientStop(h) PROVE OwnedInv'
  BY <1>3, DestroyKeepsOwned
<1>4. ASSUME NEW h \in Handle, Connect(h) PROVE OwnedInv'
  BY <1>4, ConnectKeepsOwned
<1>5. ASSUME NEW h \in Handle, Use(h) PROVE OwnedInv'
  BY <1>5, ClientKeepsOwned
<1>6. ASSUME NEW s \in Server, ConstructServer(s) \/ BeginServer(s) PROVE OwnedInv'
  BY <1>6, BeginKeepsOwned
<1>7. ASSUME NEW s \in Server, StopServer(s) \/ DestroyServer(s) PROVE OwnedInv'
  BY <1>7, StopKeepsOwned
<1>8. ASSUME NEW s \in Server, NEW h \in Handle, Available(s, h) PROVE OwnedInv'
  BY <1>8, AvailableKeepsOwned
<1>9. CASE UNCHANGED ethernetClientVars
  BY <1>9 DEF ethernetClientVars, clientVars, serverVars, OwnedInv, TypeOK, Owned, Distinct, Sharing
<1>10. QED
  BY <1>1, <1>2, <1>3, <1>4, <1>5, <1>6, <1>7, <1>8, <1>9 DEF ClientNext

LEMMA OwnedInit == ClientInit => OwnedInv
<1>1. SUFFICES ASSUME ClientInit
               PROVE  OwnedInv
  OBVIOUS
<1>2. TypeOK
  BY <1>1 DEF ClientInit, TypeOK
<1>3. Owned
  BY <1>1 DEF ClientInit, Owned, Sharing
<1>4. QED
  BY <1>2, <1>3, DistinctAssumption DEF OwnedInv, Distinct

(* No close(), read() or write() of a client or server reaches the         *)
(* descriptor of another one, however many there are and however they are  *)
(* copied, connected and destroyed, in programs that do not call stop()    *)
(* and whose names resolve: SocketImpl::close() and the two destructors.   *)
THEOREM NothingForeign == ClientSpec => []NoForeign
<1>1. ClientInit => OwnedInv
  BY OwnedInit
<1>2. OwnedInv /\ [ClientNext]_ethernetClientVars => OwnedInv'
  BY OwnedStep
<1>3. OwnedInv => NoForeign
  BY DEF OwnedInv, Owned, NoForeign
<1>4. QED
  BY <1>1, <1>2, <1>3, PTL DEF ClientSpec

-----------------------------------------------------------------------------
(* What every program that loses no descriptor keeps: an open descriptor   *)
(* is known to its owner; a server that failed to begin has none; and a    *)
(* client that connects again without counting as connected has none of    *)
(* its own, because nobody shares its SocketImpl.                          *)
Known ==
  /\ \A f \in Fd : table[f] \in Impl =>
       sock[table[f]] = f /\ \E h \in handles : impl[h] = table[f]
  /\ \A f \in Fd : table[f] \in Server => server_fd[table[f]] = f /\ table[f] \in servers
  /\ \A s \in Server : status[s] = "failed" => server_fd[s] = -1
  /\ servers # {} => "serve" \in events
  /\ "reuse" \in events =>
       \A h \in handles : impl[h] \in Impl =>
         /\ \A g \in handles : impl[g] = impl[h] => g = h
         /\ is_connected[h] \/ \A f \in Fd : table[f] # impl[h]

LeakInv == OwnedInv /\ (~Loses => Known)

(* A client is constructed, copied, stopped or destroyed, or uses its      *)
(* descriptor.                                                             *)
LEMMA ClientKeepsKnown ==
  ASSUME OwnedInv, ~Loses, Known, NEW h \in Handle,
         \/ \E i \in Impl : Construct(h, i)
         \/ \E g \in Handle : Copy(h, g)
         \/ Use(h)
         \/ Destroy(h) \/ ClientStop(h)
  PROVE  Known'
<1>1. ASSUME NEW i \in Impl, Construct(h, i) PROVE Known'
  <2>1. /\ UNCHANGED <<events, table, servers, server_fd, status>>
        /\ sock' = [sock EXCEPT ![i] = -1] /\ \A k \in handles : impl[k] # i
        /\ impl' = [impl EXCEPT ![h] = i] /\ handles' = handles \cup {h} /\ h \notin handles
        /\ is_connected' = [is_connected EXCEPT ![h] = FALSE]
    BY <1>1 DEF Construct, serverVars, UnusedImpls, Sharing
  <2>2. \A j \in Impl \ {i} : sock'[j] = sock[j]
    BY <2>1 DEF OwnedInv, TypeOK
  <2>3. \A f \in Fd : table[f] # i
    BY <2>1 DEF Known
  <2>4. \A g \in handles : impl'[g] = impl[g] /\ impl[g] # i
    BY <2>1 DEF OwnedInv, TypeOK
  <2>5. impl'[h] = i
    BY <2>1 DEF OwnedInv, TypeOK
  <2>6. "reuse" \in events =>
          \A g \in handles' : impl'[g] \in Impl =>
            /\ \A k \in handles' : impl'[k] = impl'[g] => k = g
            /\ is_connected'[g] \/ \A f \in Fd : table[f] # impl'[g]
    <3>1. \A g \in handles : is_connected'[g] = is_connected[g]
      BY <2>1 DEF OwnedInv, TypeOK
    <3>2. QED
      BY <2>1, <2>3, <2>4, <2>5, <3>1 DEF Known
  <2>7. \A f \in Fd : table[f] \in Impl =>
          sock'[table[f]] = f /\ \E g \in handles' : impl'[g] = table[f]
    BY <2>1, <2>2, <2>3, <2>4 DEF Known
  <2>8. QED
    BY <2>1, <2>6, <2>7 DEF Known
<1>2. ASSUME NEW g \in Handle, Copy(h, g) PROVE Known'
  <2>1. /\ UNCHANGED <<events, table, sock, servers, server_fd, status>>
        /\ impl' = [impl EXCEPT ![g] = impl[h]] /\ handles' = handles \cup {g}
        /\ "copy" \in events /\ g \notin handles
    BY <1>2 DEF Copy, serverVars
  <2>2. \A k \in handles : k \in handles' /\ impl'[k] = impl[k]
    BY <2>1 DEF OwnedInv, TypeOK
  <2>3. "reuse" \notin events
    BY <2>1 DEF Loses
  <2>4. \A f \in Fd : table'[f] \in Impl =>
          sock'[table'[f]] = f /\ \E k \in handles' : impl'[k] = table'[f]
    BY <2>1, <2>2 DEF Known
  <2>5. QED
    BY <2>1, <2>3, <2>4 DEF Known
<1>3. CASE Use(h)
  BY <1>3 DEF Use, clientVars, serverVars, Known
<1>4. CASE Destroy(h) \/ ClientStop(h)
  <2>1. /\ h \in handles /\ handles' \subseteq handles
        /\ UNCHANGED <<events, sock, impl, is_connected, servers, server_fd, status>>
    BY <1>4 DEF Destroy, ClientStop, clientVars, serverVars
  <2>2. \A f \in Fd : table'[f] \in {table[f], Nobody}
    BY <1>4, ClosedTable DEF Destroy, ClientStop, Close, OwnedInv
  <2>3. ASSUME NEW f \in Fd, table'[f] \in Impl
        PROVE  sock[table[f]] = f /\ \E g \in handles' : impl[g] = table[f]
    <3>1. table'[f] = table[f] /\ sock[table[f]] = f
      BY <2>2, <2>3 DEF OwnedInv, Distinct, Known
    <3>2. PICK g \in handles : impl[g] = table[f]
      BY <2>3, <3>1 DEF Known
    <3>3. CASE g \in handles'
      BY <3>1, <3>2, <3>3
    <3>4. CASE g \notin handles' /\ \A k \in handles' : impl[k] # table[f]
      <4>1. Destroy(h) /\ handles' = handles \ {h} /\ g = h
        BY <1>4, <3>2, <3>4 DEF Destroy, ClientStop, clientVars
      <4>2. Sharing(table[f]) = {h} /\ impl[h] = table[f]
        BY <2>1, <3>2, <3>4, <4>1 DEF Sharing
      <4>3. sock[impl[h]] = f /\ f # -1 /\ impl[h] # Nobody
        BY <2>3, <3>1, <4>2 DEF OwnedInv, Distinct
      <4>4. table' = Closed(f)
        BY <4>1, <4>2, <4>3 DEF Destroy, Close
      <4>5. table'[f] = Nobody
        BY <4>4, ClosedTable DEF OwnedInv
      <4>6. QED
        BY <2>3, <4>5 DEF OwnedInv, Distinct
    <3>5. QED
      BY <3>1, <3>3, <3>4
  <2>4. \A f \in Fd : table'[f] \in Impl => table'[f] = table[f]
    BY <2>2 DEF OwnedInv, Distinct
  <2>5. \A f \in Fd : table'[f] \in Impl =>
          sock'[table'[f]] = f /\ \E g \in handles' : impl'[g] = table'[f]
    BY <2>1, <2>3, <2>4
  <2>6. \A f \in Fd : table'[f] \in Server => server_fd'[table'[f]] = f /\ table'[f] \in servers'
    BY <2>1, <2>2 DEF OwnedInv, Distinct, Known
  <2>7. "reuse" \in events =>
          \A g \in handles' : impl'[g] \in Impl =>
            /\ \A k \in handles' : impl'[k] = impl'[g] => k = g
            /\ is_connected'[g] \/ \A f \in Fd : table'[f] # impl'[g]
    BY <2>1, <2>4 DEF Known
  <2>8. QED
    BY <2>1, <2>5, <2>6, <2>7 DEF Known
<1>5. QED
  BY <1>1, <1>2, <1>3, <1>4

(* A client reconnects. *)
LEMMA ConnectKeepsKnown ==
  ASSUME OwnedInv, ~Loses, Known, NEW h \in Handle, Connect(h)
  PROVE  Known'
<1> DEFINE i == impl[h]
           t == IF is_connected[h] THEN Closed(sock[i]) ELSE table
<1>1. /\ i \in Impl /\ h \in handles
      /\ UNCHANGED <<events, impl, handles, servers, server_fd, status>>
      /\ is_connected[h] \/ sock[i] = -1 \/ "reuse" \in events
  BY DEF Connect, OwnedInv, TypeOK, serverVars
<1>2. /\ t \in [Fd -> Owner]
      /\ \A f \in Fd : t[f] = IF is_connected[h] /\ f = sock[i] THEN Nobody ELSE table[f]
  BY ClosedTable DEF OwnedInv, TypeOK, Owner
<1>3. \/ table' = t /\ sock' = sock
      \/ ClientOpenSocket(i, t) /\ is_connected' = [is_connected EXCEPT ![h] = TRUE]
  BY DEF Connect
<1>4. \A g \in Handle \ {h} : is_connected'[g] = is_connected[g]
  BY DEF Connect, OwnedInv, TypeOK
<1>5. -1 \notin Fd
  BY DEF OwnedInv, Distinct
<1>6. impl[h] = i
  OBVIOUS
<1> HIDE DEF i, t
(* The descriptor the client had is closed, if it had one. *)
<1>7. \A f \in Fd : t[f] # i /\ t[f] \in {table[f], Nobody}
  <2>1. SUFFICES ASSUME NEW f \in Fd, table[f] = i
                 PROVE  is_connected[h] /\ f = sock[i]
    BY <1>1, <1>2 DEF OwnedInv, Distinct
  <2>2. sock[i] = f
    BY <1>1, <2>1 DEF Known
  <2>3. QED
    BY <1>1, <1>5, <1>6, <2>1, <2>2 DEF Known
<1>8. /\ \A j \in Impl \ {i} : sock'[j] = sock[j]
      /\ \A f \in Fd : table'[f] = i => f = sock'[i]
      /\ \A f \in Fd : table'[f] \in {table[f], i, Nobody}
      /\ is_connected'[h] \/ \A f \in Fd : table'[f] # i
  <2>1. CASE table' = t /\ sock' = sock
    BY <1>7, <2>1
  <2>2. CASE ClientOpenSocket(i, t) /\ is_connected' = [is_connected EXCEPT ![h] = TRUE]
    <3>1. /\ \A j \in Impl \ {i} : sock'[j] = sock[j]
          /\ \A f \in Fd : table'[f] = IF f = sock'[i] THEN i ELSE t[f]
      BY <1>1, <1>2, <2>2, Opened DEF OwnedInv
    <3>2. is_connected'[h]
      BY <2>2 DEF OwnedInv, TypeOK
    <3>3. QED
      BY <1>7, <3>1, <3>2
  <2>3. QED
    BY <1>3, <2>1, <2>2
<1>9. \A f \in Fd : table'[f] \in Impl =>
         sock'[table'[f]] = f /\ \E g \in handles' : impl'[g] = table'[f]
  BY <1>1, <1>6, <1>8 DEF OwnedInv, Distinct, Known
<1>10. \A f \in Fd : table'[f] \in Server => server_fd'[table'[f]] = f /\ table'[f] \in servers'
  BY <1>1, <1>8 DEF OwnedInv, Distinct, Known
<1>11. ASSUME "reuse" \in events, NEW g \in handles, impl[g] \in Impl
       PROVE  /\ \A k \in handles : impl[k] = impl[g] => k = g
              /\ is_connected'[g] \/ \A f \in Fd : table'[f] # impl[g]
  <2>1. /\ \A k \in handles : impl[k] = impl[g] => k = g
        /\ is_connected[g] \/ \A f \in Fd : table[f] # impl[g]
    BY <1>11 DEF Known
  <2>2. CASE g = h
    BY <1>6, <1>8, <2>1, <2>2
  <2>3. CASE g # h
    <3>1. impl[g] # i /\ impl[g] # Nobody
      BY <1>1, <1>6, <1>11, <2>1, <2>3 DEF OwnedInv, Distinct
    <3>2. g \in Handle \ {h}
      BY <2>3 DEF OwnedInv, TypeOK
    <3>3. QED
      BY <1>4, <1>8, <2>1, <3>1, <3>2
  <2>4. QED
    BY <2>2, <2>3
<1>12. QED
  BY <1>1, <1>9, <1>10, <1>11 DEF Known

(* A server is constructed, begins, stops or is destroyed. *)
LEMMA ServerKeepsKnown ==
  ASSUME OwnedInv, ~Loses, Known, NEW s \in Server,
         ConstructServer(s) \/ BeginServer(s) \/ StopServer(s) \/ DestroyServer(s)
  PROVE  Known'
<1>1. UNCHANGED <<events, sock, impl, is_connected, handles>>
  BY DEF ConstructServer, BeginServer, StopServer, DestroyServer, clientVars
(* The server holds what it opened last, or nothing. *)
<1>2. /\ \A r \in Server \ {s} : server_fd'[r] = server_fd[r] /\ status'[r] = status[r]
      /\ \A r \in Server \ {s} : r \in servers => r \in servers'
      /\ \A f \in Fd : table'[f] \in {table[f], s, Nobody}
      /\ \A f \in Fd : table'[f] = s => server_fd'[s] = f /\ s \in servers'
      /\ status'[s] = "failed" => server_fd'[s] = -1
  <2>1. CASE ConstructServer(s)
    <3>1. \A f \in Fd : table[f] # s
      BY <2>1 DEF ConstructServer, Known
    <3>2. QED
      BY <2>1, <3>1 DEF ConstructServer, OwnedInv, TypeOK
  <2>2. CASE BeginServer(s)
    <3>1. PICK b \in Begun(s) : Listening(s, b) /\ table' = b.table
      BY <2>2 DEF BeginServer
    <3>2. /\ server_fd' = [server_fd EXCEPT ![s] = b.fd]
          /\ status' = [status EXCEPT ![s] = b.status]
          /\ servers' = servers /\ s \in servers
      BY <2>2, <3>1 DEF BeginServer, Listening
    <3>3. /\ b.fd \in Fd \cup {-1}
          /\ \A f \in Fd : b.table[f] = IF f = b.fd THEN s ELSE table[f]
          /\ b.fd \in Fd /\ b.status = "failed" => "unheard" \in events
      BY BegunType DEF OwnedInv
    <3>4. "rebegin" \notin events /\ "unheard" \notin events
      BY DEF Loses
    <3>5. \A f \in Fd : table[f] # s
      <4>1. ~(server_fd[s] > 0) /\ \A f \in Fd : f > 0
        <5>1. server_fd[s] <= 0
          BY <2>2, <3>4 DEF BeginServer
        <5>2. server_fd[s] \in Int /\ \A f \in Fd : f \in Int /\ f > 0
          <6>1. server_fd[s] \in Fd \cup {-1, 0} /\ \A f \in Fd : f \in Nat \ {0}
            BY DEF OwnedInv, TypeOK, Distinct
          <6>2. QED
            BY <6>1
        <5>3. QED
          BY <5>1, <5>2
      <4>2. QED
        BY <4>1 DEF Known
    <3>6. server_fd'[s] = b.fd /\ status'[s] = b.status
      BY <3>2 DEF OwnedInv, TypeOK
    <3>7. QED
      BY <3>1, <3>2, <3>3, <3>4, <3>5, <3>6 DEF OwnedInv, TypeOK
  <2>3. CASE StopServer(s) \/ DestroyServer(s)
    <3>1. CloseServer(s) /\ \A r \in Server \ {s} : r \in servers => r \in servers'
      BY <2>3 DEF StopServer, DestroyServer
    <3>2. /\ server_fd' = [server_fd EXCEPT ![s] = 0]
          /\ status' = [status EXCEPT ![s] = "disconnected"]
          /\ IF server_fd[s] > 0 THEN table' = Closed(server_fd[s]) ELSE table' = table
      BY <3>1 DEF CloseServer
    <3>3. \A f \in Fd : table[f] = s => server_fd[s] = f /\ f > 0
      <4>1. \A f \in Fd : f \in Nat \ {0}
        BY DEF OwnedInv, Distinct
      <4>2. QED
        BY <4>1 DEF Known
    <3>4. \A f \in Fd : table'[f] # s /\ table'[f] \in {table[f], Nobody}
      BY <3>2, <3>3, ClosedTable DEF OwnedInv, Distinct
    <3>5. status'[s] = "disconnected"
      BY <3>2 DEF OwnedInv, TypeOK
    <3>6. QED
      BY <3>1, <3>2, <3>4, <3>5 DEF OwnedInv, TypeOK
  <2>4. QED
    BY <2>1, <2>2, <2>3
<1>3. \A f \in Fd : table'[f] \in Impl =>
        sock'[table'[f]] = f /\ \E g \in handles' : impl'[g] = table'[f]
  BY <1>1, <1>2 DEF Known, OwnedInv, Distinct
<1>4. \A f \in Fd : table'[f] \in Server => server_fd'[table'[f]] = f /\ table'[f] \in servers'
  BY <1>2 DEF Known, OwnedInv, Distinct
<1>5. \A r \in Server : status'[r] = "failed" => server_fd'[r] = -1
  BY <1>2 DEF Known
<1>6. ASSUME "reuse" \in events, NEW g \in handles, impl[g] \in Impl
      PROVE  /\ \A k \in handles : impl[k] = impl[g] => k = g
             /\ is_connected[g] \/ \A f \in Fd : table'[f] # impl[g]
  BY <1>2, <1>6 DEF Known, OwnedInv, Distinct
<1>7. servers' # {} => "serve" \in events
  BY DEF ConstructServer, BeginServer, StopServer, DestroyServer, Known
<1>8. QED
  BY <1>1, <1>3, <1>4, <1>5, <1>6, <1>7 DEF Known

(* available() of a server that failed begins again; what it accepts has   *)
(* a SocketImpl nobody used.                                               *)
LEMMA AvailableKeepsKnown ==
  ASSUME OwnedInv, ~Loses, Known, NEW s \in Server, NEW h \in Handle, Available(s, h)
  PROVE  Known'
<1>1. /\ s \in servers /\ h \notin handles
      /\ handles' = handles \cup {h}
      /\ UNCHANGED <<events, servers>>
  BY DEF Available
<1> DEFINE Same == [fd |-> server_fd[s], status |-> status[s], entries |-> 0, table |-> table]
<1>2. PICK b \in IF status[s] = "failed" THEN Begun(s) ELSE {Same} :
        /\ Listening(s, b)
        /\ \/ /\ table' = b.table
              /\ impl' = [impl EXCEPT ![h] = Nobody]
              /\ UNCHANGED sock
           \/ /\ FreeFds(b.table) # {}
              /\ \E i \in UnusedImpls :
                   /\ table' = [b.table EXCEPT ![Lowest(FreeFds(b.table))] = i]
                   /\ sock' = [sock EXCEPT ![i] = Lowest(FreeFds(b.table))]
                   /\ impl' = [impl EXCEPT ![h] = i]
  BY DEF Available
<1>3. "rebegin" \notin events /\ "unheard" \notin events /\ "reuse" \notin events
  BY <1>1 DEF Loses, Known
<1>4. /\ server_fd' = [server_fd EXCEPT ![s] = b.fd]
      /\ status' = [status EXCEPT ![s] = b.status]
  BY <1>2 DEF Listening
<1>5. server_fd'[s] = b.fd /\ status'[s] = b.status
  BY <1>4 DEF OwnedInv, TypeOK
<1>6. /\ b.table \in [Fd -> Owner]
      /\ b.status = "failed" => b.fd = -1
      /\ \A f \in Fd : b.table[f] \in {table[f], s}
      /\ \A f \in Fd : b.table[f] = s => b.fd = f
  <2>1. CASE status[s] = "failed"
    <3>1. \A f \in Fd : table[f] # s
      BY <2>1 DEF Known, OwnedInv, Distinct
    <3>2. /\ b.fd \in Fd \cup {-1} /\ b.table \in [Fd -> Owner]
          /\ \A f \in Fd : b.table[f] = IF f = b.fd THEN s ELSE table[f]
          /\ b.fd \in Fd /\ b.status = "failed" => "unheard" \in events
      BY <1>2, <2>1, BegunType DEF OwnedInv
    <3>3. QED
      BY <1>3, <3>1, <3>2
  <2>2. CASE status[s] # "failed"
    BY <1>2, <2>2 DEF OwnedInv, TypeOK, Owner, Known
  <2>3. QED
    BY <2>1, <2>2
<1>7. /\ \A f \in Fd : table'[f] \in Impl =>
           sock'[table'[f]] = f /\ \E g \in handles' : impl'[g] = table'[f]
      /\ \A f \in Fd : table'[f] \in Server => table'[f] = b.table[f]
  <2>1. CASE table' = b.table /\ impl' = [impl EXCEPT ![h] = Nobody] /\ UNCHANGED sock
    <3>1. \A k \in handles : k \in handles' /\ impl'[k] = impl[k]
      BY <1>1, <2>1 DEF OwnedInv, TypeOK
    <3>2. QED
      BY <1>6, <2>1, <3>1 DEF Known, OwnedInv, Distinct
  <2>2. CASE /\ FreeFds(b.table) # {}
             /\ \E i \in UnusedImpls :
                  /\ table' = [b.table EXCEPT ![Lowest(FreeFds(b.table))] = i]
                  /\ sock' = [sock EXCEPT ![i] = Lowest(FreeFds(b.table))]
                  /\ impl' = [impl EXCEPT ![h] = i]
    <3> DEFINE f == Lowest(FreeFds(b.table))
    <3>1. PICK i \in UnusedImpls :
            /\ table' = [b.table EXCEPT ![f] = i]
            /\ sock' = [sock EXCEPT ![i] = f]
            /\ impl' = [impl EXCEPT ![h] = i]
      BY <2>2
    <3>2. f \in Fd /\ b.table[f] = Nobody
      BY <2>2, LowestFree DEF OwnedInv
    <3> HIDE DEF f
    <3>3. i \in Impl /\ \A k \in handles : impl[k] # i
      BY DEF UnusedImpls, Sharing
    <3>4. /\ \A j \in Impl \ {i} : sock'[j] = sock[j]
          /\ \A k \in handles : k \in handles' /\ impl'[k] = impl[k]
      BY <1>1, <3>1 DEF OwnedInv, TypeOK
    <3>5. h \in handles' /\ impl'[h] = i /\ sock'[i] = f
      BY <1>1, <3>1, <3>3 DEF OwnedInv, TypeOK
    <3>6. \A g \in Fd : table'[g] = IF g = f THEN i ELSE b.table[g]
      BY <1>6, <3>1
    <3>7. \A g \in Fd : table[g] # i
      BY <3>3 DEF Known
    <3>8. \A g \in Fd : table'[g] \in Impl =>
            sock'[table'[g]] = g /\ \E k \in handles' : impl'[k] = table'[g]
      <4>1. SUFFICES ASSUME NEW g \in Fd, g # f, b.table[g] \in Impl
                     PROVE  /\ sock'[b.table[g]] = g
                            /\ \E k \in handles' : impl'[k] = b.table[g]
        BY <3>5, <3>6
      <4>2. b.table[g] = table[g] /\ table[g] \in Impl \ {i}
        BY <1>6, <3>7, <4>1 DEF OwnedInv, Distinct
      <4>3. sock[table[g]] = g /\ \E k \in handles : impl[k] = table[g]
        BY <4>2 DEF Known
      <4>4. QED
        BY <3>4, <4>2, <4>3
    <3>9. QED
      BY <3>3, <3>6, <3>8 DEF OwnedInv, Distinct
  <2>3. QED
    BY <1>2, <2>1, <2>2
<1>8. \A f \in Fd : table'[f] \in Server => server_fd'[table'[f]] = f /\ table'[f] \in servers'
  BY <1>1, <1>4, <1>5, <1>6, <1>7 DEF Known, OwnedInv, TypeOK
<1>9. \A r \in Server : status'[r] = "failed" => server_fd'[r] = -1
  BY <1>4, <1>5, <1>6 DEF Known, OwnedInv, TypeOK
<1>10. QED
  BY <1>1, <1>3, <1>7, <1>8, <1>9 DEF Known

(* LeakInv is inductive. *)
LEMMA LeakStep ==
  ASSUME LeakInv, [ClientNext]_ethernetClientVars
  PROVE  LeakInv'
<1>1. OwnedInv'
  BY OwnedStep DEF LeakInv
<1>2. ASSUME NEW h \in Handle, NEW i \in Impl, Construct(h, i) PROVE LeakInv'
  BY <1>1, <1>2, ClientKeepsKnown DEF LeakInv, Construct, Loses
<1>3. ASSUME NEW h \in Handle, NEW g \in Handle, Copy(h, g) PROVE LeakInv'
  BY <1>1, <1>3, ClientKeepsKnown DEF LeakInv, Copy, Loses
<1>4. ASSUME NEW h \in Handle, Destroy(h) \/ ClientStop(h) \/ Use(h) PROVE LeakInv'
  BY <1>1, <1>4, ClientKeepsKnown DEF LeakInv, Destroy, ClientStop, Use, Loses
<1>5. ASSUME NEW h \in Handle, Connect(h) PROVE LeakInv'
  BY <1>1, <1>5, ConnectKeepsKnown DEF LeakInv, Connect, Loses
<1>6. ASSUME NEW s \in Server,
             ConstructServer(s) \/ BeginServer(s) \/ StopServer(s) \/ DestroyServer(s)
      PROVE  LeakInv'
  BY <1>1, <1>6, ServerKeepsKnown
     DEF LeakInv, ConstructServer, BeginServer, StopServer, DestroyServer, Loses
<1>7. ASSUME NEW s \in Server, NEW h \in Handle, Available(s, h) PROVE LeakInv'
  BY <1>1, <1>7, AvailableKeepsKnown DEF LeakInv, Available, Loses
<1>8. CASE UNCHANGED ethernetClientVars
  BY <1>1, <1>8 DEF ethernetClientVars, clientVars, serverVars, LeakInv, Known, Loses
<1>9. QED
  BY <1>2, <1>3, <1>4, <1>5, <1>6, <1>7, <1>8 DEF ClientNext

(* Every open descriptor has an owner that can close it: copies and        *)
(* destructors of clients, accepted connections and servers lose none, in  *)
(* every program but those Loses describes.                                *)
THEOREM NothingLost == ClientSpec => []NoLeak
<1>1. ClientInit => LeakInv
  <2>1. SUFFICES ASSUME ClientInit
                 PROVE  Known
    BY OwnedInit DEF LeakInv
  <2>2. \A f \in Fd : table[f] \notin Impl \cup Server
    BY <2>1, DistinctAssumption DEF ClientInit
  <2>3. QED
    BY <2>1, <2>2 DEF ClientInit, Known
<1>2. LeakInv /\ [ClientNext]_ethernetClientVars => LeakInv'
  BY LeakStep
<1>3. LeakInv => NoLeak
  BY DEF LeakInv, Known, NoLeak, Sharing
<1>4. QED
  BY <1>1, <1>2, <1>3, PTL DEF ClientSpec
=============================================================================
