---------------------------- MODULE EthernetClient ----------------------------
(***************************************************************************)
(* Who owns a socket descriptor: SocketImpl objects, the EthernetClient    *)
(* handles that share them, and EthernetServer objects, over the process's *)
(* descriptor table.  The kernel gives out the lowest free descriptor, so  *)
(* one that is closed twice may be somebody else's the second time.        *)
(***************************************************************************)
EXTENDS Integers, FiniteSets

CONSTANTS
  Fd,       \* the descriptors of the process, numbers above 0
  Impl,     \* SocketImpl objects
  Handle,   \* EthernetClient objects
  Server,   \* EthernetServer objects
  Nobody,   \* no object
  Sketches  \* what sketches and their surroundings do: sets of events

(* Descriptors 0, 1 and 2 belong to the standard streams. *)
ASSUME DistinctAssumption ==
  /\ Fd \subseteq Nat \ {0}
  /\ Nobody \notin Impl \cup Server /\ Impl \cap Server = {}

(* "serve"       the sketch has servers                                    *)
(* "stop"        the sketch calls EthernetClient::stop()                   *)
(* "copy"        the sketch copies clients                                 *)
(* "reuse"       the sketch connects a client again although it does not   *)
(*               count as connected any more                               *)
(* "unresolved"  a host name may fail to resolve                           *)
(* "rebegin"     the sketch calls EthernetServer::begin() on a server      *)
(*               that has begun                                            *)
(* "unheard"     listen() may fail                                         *)
VARIABLES
  events,       \* what this sketch does
  table,        \* the object that opened each descriptor, or Nobody
  sock,         \* SocketImpl::sock, -1 if there never was one
  impl,         \* EthernetClient::p_sock, Nobody if it is null
  is_connected, \* EthernetClient::is_connected
  handles,      \* the EthernetClient objects that exist
  servers,      \* the EthernetServer objects that exist
  server_fd,    \* EthernetServer::server_fd, 0 if there is none
  status,       \* EthernetServer::_status
  registered,   \* active_servers(): how often each server is in the list
  foreign       \* history: an object closed or used another's descriptor

clientVars == <<impl, is_connected, handles>>
serverVars == <<servers, server_fd, status, registered>>
ethernetClientVars == <<events, table, sock, clientVars, serverVars, foreign>>
-----------------------------------------------------------------------------
FreeFds(t) == {f \in Fd : t[f] = Nobody}
Lowest(S) == CHOOSE f \in S : \A g \in S : f <= g

Sharing(i) == {h \in handles : impl[h] = i}
UnusedImpls == {i \in Impl : Sharing(i) = {}}

IsForeign(o, f) == f \in Fd /\ table[f] \notin {o, Nobody}
Closed(f) == [g \in Fd |-> IF g = f THEN Nobody ELSE table[g]]

ClientInit ==
  /\ events \in Sketches
  /\ table = [f \in Fd |-> Nobody]
  /\ sock = [i \in Impl |-> -1]
  /\ impl = [h \in Handle |-> Nobody]
  /\ is_connected = [h \in Handle |-> FALSE]
  /\ handles = {}
  /\ servers = {}
  /\ server_fd = [s \in Server |-> 0]
  /\ status = [s \in Server |-> "disconnected"]
  /\ registered = [s \in Server |-> 0]
  /\ foreign = FALSE
-----------------------------------------------------------------------------
(* SocketImpl::close(): the descriptor is closed, `sock' keeps its number. *)
Close(i) ==
  /\ table' = Closed(sock[i])
  /\ foreign' = (foreign \/ IsForeign(i, sock[i]))

(* EthernetClient() *)
Construct(h, i) ==
  /\ h \notin handles
  /\ i \in UnusedImpls
  /\ handles' = handles \cup {h}
  /\ impl' = [impl EXCEPT ![h] = i]
  /\ sock' = [sock EXCEPT ![i] = -1]
  /\ is_connected' = [is_connected EXCEPT ![h] = FALSE]
  /\ UNCHANGED <<events, table, foreign, serverVars>>

(* A copy of a client shares its SocketImpl but has flags of its own. *)
Copy(h, g) ==
  /\ "copy" \in events
  /\ h \in handles /\ g \notin handles
  /\ handles' = handles \cup {g}
  /\ impl' = [impl EXCEPT ![g] = impl[h]]
  /\ is_connected' = [is_connected EXCEPT ![g] = is_connected[h]]
  /\ UNCHANGED <<events, table, sock, foreign, serverVars>>

(* Mutation of Destroy: SocketImpl is not shared, each client closes it. *)
DestroyEach(h) ==
  /\ h \in handles
  /\ handles' = handles \ {h}
  /\ IF impl[h] # Nobody /\ sock[impl[h]] # -1
     THEN Close(impl[h])
     ELSE UNCHANGED <<table, foreign>>
  /\ UNCHANGED <<events, sock, impl, is_connected, serverVars>>

(* A client is destroyed; with the last one that shares it SocketImpl is,  *)
(* and its destructor closes the descriptor if there ever was one.         *)
Destroy(h) ==
  /\ h \in handles
  /\ handles' = handles \ {h}
  /\ IF impl[h] # Nobody /\ Sharing(impl[h]) = {h} /\ sock[impl[h]] # -1
     THEN Close(impl[h])
     ELSE UNCHANGED <<table, foreign>>
  /\ UNCHANGED <<events, sock, impl, is_connected, serverVars>>

(* SocketImpl::connect() with the descriptor table t: a new descriptor,    *)
(* kept whether or not the connection is made; none if the table is full.  *)
ClientOpenSocket(i, t) ==
  LET free == FreeFds(t)
  IN IF free = {}
     THEN /\ sock' = [sock EXCEPT ![i] = -1]
          /\ table' = t
     ELSE /\ sock' = [sock EXCEPT ![i] = Lowest(free)]
          /\ table' = [t EXCEPT ![Lowest(free)] = i]

(* Mutation of Connect: a connection that was not made is noted, as it     *)
(* would be if the result of SocketImpl::connect() were returned.          *)
ConnectReportsFailure(h) ==
  /\ h \in handles /\ impl[h] # Nobody
  /\ is_connected[h] \/ sock[impl[h]] = -1 \/ "reuse" \in events
  /\ LET i == impl[h]
     IN /\ foreign' = (foreign \/ (is_connected[h] /\ IsForeign(i, sock[i])))
        /\ ClientOpenSocket(i, IF is_connected[h] THEN Closed(sock[i]) ELSE table)
        /\ \E ok \in BOOLEAN : is_connected' = [is_connected EXCEPT ![h] = ok]
  /\ UNCHANGED <<events, impl, handles, serverVars>>

(* EthernetClient::connect(address, port): the old connection is closed,   *)
(* the name is resolved, and the client counts as connected whatever       *)
(* SocketImpl::connect() returned.                                         *)
Connect(h) ==
  /\ h \in handles /\ impl[h] # Nobody
  /\ is_connected[h] \/ sock[impl[h]] = -1 \/ "reuse" \in events
  /\ LET i == impl[h]
         t == IF is_connected[h] THEN Closed(sock[i]) ELSE table
     IN /\ foreign' = (foreign \/ (is_connected[h] /\ IsForeign(i, sock[i])))
        /\ \/ /\ "unresolved" \in events
              /\ table' = t
              /\ is_connected' = [is_connected EXCEPT ![h] = FALSE]
              /\ UNCHANGED sock
           \/ /\ ClientOpenSocket(i, t)
              /\ is_connected' = [is_connected EXCEPT ![h] = TRUE]
  /\ UNCHANGED <<events, impl, handles, serverVars>>

(* EthernetClient::stop() *)
ClientStop(h) ==
  /\ "stop" \in events
  /\ h \in handles /\ impl[h] # Nobody
  /\ Close(impl[h])
  /\ UNCHANGED <<events, sock, clientVars, serverVars>>

(* read(), write(), available(), peek() and connected() use the descriptor *)
(* whoever has opened it.                                                  *)
Use(h) ==
  /\ h \in handles /\ impl[h] # Nobody
  /\ foreign' = (foreign \/ IsForeign(impl[h], sock[impl[h]]))
  /\ UNCHANGED <<events, table, sock, clientVars, serverVars>>
-----------------------------------------------------------------------------
(* EthernetServer() *)
ConstructServer(s) ==
  /\ "serve" \in events
  /\ s \notin servers
  /\ servers' = servers \cup {s}
  /\ server_fd' = [server_fd EXCEPT ![s] = 0]
  /\ status' = [status EXCEPT ![s] = "disconnected"]
  /\ UNCHANGED <<events, table, sock, clientVars, registered, foreign>>

(* What begin_() may leave: it assigns server_fd without looking at it,    *)
(* waits until bind() succeeds, and enters the server in the list when     *)
(* listen() does.                                                          *)
Begun(s) ==
  IF FreeFds(table) = {}
  THEN {[fd |-> -1, status |-> "failed", entries |-> 0, table |-> table]}
  ELSE LET f == Lowest(FreeFds(table))
           opened(st, n) == [fd |-> f, status |-> st, entries |-> n,
                             table |-> [table EXCEPT ![f] = s]]
       IN {opened("connected", 1)} \cup
          (IF "unheard" \in events THEN {opened("failed", 0)} ELSE {})

Listening(s, b) ==
  /\ server_fd' = [server_fd EXCEPT ![s] = b.fd]
  /\ status' = [status EXCEPT ![s] = b.status]
  /\ registered' = [registered EXCEPT ![s] = @ + b.entries]

BeginServer(s) ==
  /\ s \in servers
  /\ "rebegin" \in events \/ server_fd[s] <= 0
  /\ registered[s] < 2 \* bound
  /\ \E b \in Begun(s) : Listening(s, b) /\ table' = b.table
  /\ UNCHANGED <<events, sock, clientVars, servers, foreign>>

(* stop() closes the listening descriptor and forgets its number. *)
CloseServer(s) ==
  /\ IF server_fd[s] > 0
     THEN /\ table' = Closed(server_fd[s])
          /\ foreign' = (foreign \/ IsForeign(s, server_fd[s]))
     ELSE UNCHANGED <<table, foreign>>
  /\ server_fd' = [server_fd EXCEPT ![s] = 0]
  /\ status' = [status EXCEPT ![s] = "disconnected"]

StopServer(s) ==
  /\ s \in servers
  /\ CloseServer(s)
  /\ UNCHANGED <<events, sock, clientVars, servers, registered>>

(* ~EthernetServer(): stop(), and the first entry leaves the list. *)
DestroyServer(s) ==
  /\ s \in servers
  /\ CloseServer(s)
  /\ servers' = servers \ {s}
  /\ registered' = [registered EXCEPT ![s] = IF @ > 0 THEN @ - 1 ELSE 0]
  /\ UNCHANGED <<events, sock, clientVars>>

(* available_(): after a failed begin() the server begins again; a client  *)
(* that is waiting is accepted with a SocketImpl of its own.  Whether it   *)
(* counts as connected rests on getsockopt() with a length nobody has set. *)
(* With nothing to accept the client has no SocketImpl.                    *)
Available(s, h) ==
  /\ s \in servers /\ h \notin handles
  /\ registered[s] < 2 \* bound
  /\ \E b \in IF status[s] = "failed" THEN Begun(s)
              ELSE {[fd |-> server_fd[s], status |-> status[s],
                     entries |-> 0, table |-> table]} :
       /\ Listening(s, b)
       /\ \/ /\ table' = b.table
             /\ impl' = [impl EXCEPT ![h] = Nobody]
             /\ is_connected' = [is_connected EXCEPT ![h] = FALSE]
             /\ UNCHANGED sock
          \/ /\ b.status = "connected" /\ FreeFds(b.table) # {}
             /\ \E i \in UnusedImpls :
                  /\ table' = [b.table EXCEPT ![Lowest(FreeFds(b.table))] = i]
                  /\ sock' = [sock EXCEPT ![i] = Lowest(FreeFds(b.table))]
                  /\ impl' = [impl EXCEPT ![h] = i]
             /\ \E c \in BOOLEAN : is_connected' = [is_connected EXCEPT ![h] = c]
  /\ handles' = handles \cup {h}
  /\ UNCHANGED <<events, servers, foreign>>

ClientNext ==
  \/ \E h \in Handle, i \in Impl : Construct(h, i)
  \/ \E h, g \in Handle : Copy(h, g)
  \/ \E h \in Handle : Destroy(h)
  \/ \E h \in Handle : Connect(h)
  \/ \E h \in Handle : ClientStop(h)
  \/ \E h \in Handle : Use(h)
  \/ \E s \in Server : ConstructServer(s)
  \/ \E s \in Server : BeginServer(s)
  \/ \E s \in Server : StopServer(s)
  \/ \E s \in Server : DestroyServer(s)
  \/ \E s \in Server, h \in Handle : Available(s, h)

ClientSpec == ClientInit /\ [][ClientNext]_ethernetClientVars
-----------------------------------------------------------------------------
(* No object ever closes, reads or writes a descriptor that another one    *)
(* has opened: a close() comes once per descriptor, however many copies    *)
(* of a client there are and however often they connect.  The exceptions   *)
(* are stop() and a name that does not resolve, which close a descriptor   *)
(* and keep its number.                                                    *)
NoForeign == {"stop", "unresolved"} \cap events = {} => ~foreign

(* Ethernet.h:303 says of stop(): "close the connection", no more: no       *)
(* object ever closes or uses a descriptor that another one has opened.    *)
StopTouchesNobodyElse == ~foreign

(* What loses a descriptor: a server that begins again, or tries to after  *)
(* listen() has failed, with its old descriptor open; and a client that    *)
(* connects again with an open descriptor though it does not count as      *)
(* connected, because it was accepted or is a copy.                        *)
Loses ==
  \/ {"rebegin", "unheard"} \cap events # {}
  \/ "reuse" \in events /\ {"copy", "serve"} \cap events # {}

(* In every other program a descriptor that is open belongs to an object   *)
(* that still exists and still knows its number, so that somebody can      *)
(* close it.                                                               *)
NoLeak ==
  ~Loses =>
    \A f \in Fd :
      /\ table[f] \in Impl => sock[table[f]] = f /\ Sharing(table[f]) # {}
      /\ table[f] \in Server => server_fd[table[f]] = f /\ table[f] \in servers
=============================================================================
