--------------------------- MODULE TcpTableProofs ---------------------------
(***************************************************************************)
(* The sockets of the TCP table, for every number of connections, ports,   *)
(* peers, calls of socket() and resets from 0.0.0.0.                       *)
(***************************************************************************)
EXTENDS TcpTable, FiniteSetTheorems, TLAPS

\* The handle of a listener or of a socket that has yet to be bound leads to the
\* TCB of its own index, and only bind() makes that a listener.
OwnTcb ==
  \A h \in Handle :
    /\ type[h] \in {"LISTEN", "UNBOUND"} => conn[h] = h
    /\ type[h] = "UNBOUND" => state[h] # "LISTEN"

\* Only a connection has a peer, so that no segment of a client reaches the TCB
\* of a listener.
PeerOfConnection ==
  \A i \in Conn : state[i] \in {"FREE", "CLOSED", "LISTEN"} => peer[i] = None

\* A connection that is not established yet has not been accepted, so that
\* closing a stale handle makes nothing wait for accept again.
HalfOpenWaits == \A i \in Conn : state[i] = "SYN_RECEIVED" => i \notin accepted

\* The inductive invariant.
TableInv ==
  TypeOK /\ OwnTcb /\ OneListener /\ PeerOfConnection /\ HalfOpenWaits

-----------------------------------------------------------------------------
(* Helpers.                                                                *)

\* What the invariant needs of a step on the sockets: the TCBs stay.
LEMMA InstallTypes ==
  ASSUME TypeOK, NEW h \in Handle, NEW t \in {"UNBOUND", "ESTAB"}, NEW i \in Conn,
         Install(h, t, i)
  PROVE  /\ type' \in [Handle -> {"CLOSED", "UNBOUND", "LISTEN", "ESTAB"}]
         /\ conn' \in [Handle -> Conn \cup {None}]
         /\ fds' \in [Fd -> Handle \cup {None}]
  BY Zenon DEF Install, TypeOK, Lowest, FreeFds

LEMMA UninstallTypes ==
  ASSUME TypeOK, NEW h \in Handle, NEW fd, Uninstall(h, fd)
  PROVE  /\ type' \in [Handle -> {"CLOSED", "UNBOUND", "LISTEN", "ESTAB"}]
         /\ conn' \in [Handle -> Conn \cup {None}]
         /\ fds' \in [Fd -> Handle \cup {None}]
  BY Zenon DEF Uninstall, TypeOK

LEMMA ReleaseTypes ==
  ASSUME TypeOK, NEW S, Release(S)
  PROVE  /\ state' \in [Conn -> {"FREE", "CLOSED", "LISTEN", "SYN_RECEIVED", "ESTABLISHED"} \cup Closing]
         /\ lport' \in [Conn -> Ports \cup {None}]
         /\ peer' \in [Conn -> Peers \cup {None}]
         /\ accepted' \subseteq Conn
         /\ backlog' \in [Conn -> 0 .. NumConns]
         /\ attempts' \in [Conn -> Nat]
  BY TcpTableAssumption DEF Release, PortLeft, TypeOK, Closing

\* Giving up TCBs, whatever they are.
LEMMA ReleaseKeeps ==
  ASSUME TableInv, NEW S, Release(S)
  PROVE  OneListener' /\ PeerOfConnection' /\ HalfOpenWaits'
  <1> USE DEF TableInv, TypeOK, Release
  <1>1. PeerOfConnection'
    BY Zenon DEF PeerOfConnection
  <1>2. HalfOpenWaits'
    BY Zenon DEF HalfOpenWaits
  <1>3. OneListener'
    BY DEF OneListener
  <1> QED
    BY <1>1, <1>2, <1>3, Zenon

LEMMA ReleaseStep ==
  ASSUME TableInv, NEW S, Release(S), UNCHANGED files, strays' \in Nat
  PROVE  TableInv'
  <1>1. TypeOK'
    BY ReleaseTypes, Zenon DEF TableInv, TypeOK, files
  <1>2. OwnTcb'
    BY DEF TableInv, TypeOK, OwnTcb, Release, files, Handle
  <1> QED
    BY <1>1, <1>2, ReleaseKeeps, Zenon DEF TableInv

-----------------------------------------------------------------------------
(* Init and the system calls.                                              *)

LEMMA TableInit == Init => TableInv
  <1> SUFFICES ASSUME Init PROVE TableInv
    BY Zenon
  <1>1. 0 \in Conn /\ NumConns \in 0 .. NumConns
    BY TcpTableAssumption DEF Conn
  <1> USE <1>1, TcpTableAssumption DEF Init
  <1>2. TypeOK
    BY DEF TypeOK
  <1>3. OwnTcb /\ OneListener
    BY Zenon DEF OwnTcb, OneListener
  <1>4. PeerOfConnection /\ HalfOpenWaits
    BY Zenon DEF PeerOfConnection, HalfOpenWaits
  <1> QED
    BY <1>2, <1>3, <1>4, Zenon DEF TableInv

\* A free TCB becomes a socket that has yet to be bound, or stays free.
LEMMA SocketStep == TableInv /\ sys_socket => TableInv'
  <1> SUFFICES ASSUME TableInv, sys_socket PROVE TableInv'
    BY Zenon
  <1>1. PICK i \in Conn :
          /\ state[i] = "FREE"
          /\ sockets' = sockets + 1
          /\ \/ Install(i, "UNBOUND", i) /\ state' = [state EXCEPT ![i] = "CLOSED"]
             \/ Uninstall(i, None) /\ UNCHANGED state
          /\ lport' = [lport EXCEPT ![i] = None]
          /\ UNCHANGED <<peer, accepted, backlog, attempts, strays>>
    BY Zenon DEF sys_socket, Lowest, FreeConns
  <1>2. TypeOK'
    BY <1>1, InstallTypes, UninstallTypes DEF TableInv, TypeOK, Handle
  <1>3. OwnTcb'
    BY <1>1 DEF TableInv, TypeOK, OwnTcb, Install, Uninstall, Handle
  <1>4. OneListener' /\ PeerOfConnection' /\ HalfOpenWaits'
    BY <1>1 DEF TableInv, TypeOK, OneListener, PeerOfConnection, HalfOpenWaits
  <1> QED
    BY <1>2, <1>3, <1>4, Zenon DEF TableInv

\* The socket becomes the only listener of its port, if its TCB is in use.
LEMMA BindStep ==
  ASSUME TableInv, NEW fd \in Fd, NEW port \in Ports, sys_bind(fd, port)
  PROVE  TableInv'
  <1> DEFINE h == fds[fd]
  <1>1. h \in Handle /\ h \in Conn /\ conn[h] = h
    BY DEF TableInv, TypeOK, OwnTcb, sys_bind, Handle
  <1>2. PICK s \in {"FREE", "LISTEN"} :
        /\ state' = [state EXCEPT ![h] = s]
        /\ lport' = [lport EXCEPT ![h] = port]
        /\ peer' = [peer EXCEPT ![h] = None]
        /\ accepted' = accepted \ {h}
        /\ backlog' = [backlog EXCEPT ![h] = 1]
        /\ attempts' = [attempts EXCEPT ![h] = 0]
        /\ type' = [type EXCEPT ![h] = "LISTEN"]
        /\ \A l \in Conn : state[l] = "LISTEN" => lport[l] # port
        /\ UNCHANGED <<conn, fds, sockets, strays>>
    BY <1>1, Zenon DEF sys_bind, PortTaken, tcp_conn_find_listen, TableInv, TypeOK
  <1> HIDE DEF h
  <1>3. TypeOK'
    BY <1>1, <1>2, TcpTableAssumption DEF TableInv, TypeOK
  <1>4. OwnTcb' /\ OneListener'
    BY <1>1, <1>2 DEF TableInv, TypeOK, OwnTcb, OneListener, Handle
  <1>5. PeerOfConnection' /\ HalfOpenWaits'
    BY <1>1, <1>2 DEF TableInv, TypeOK, PeerOfConnection, HalfOpenWaits
  <1> QED
    BY <1>3, <1>4, <1>5, Zenon DEF TableInv

LEMMA ListenStep ==
  ASSUME TableInv, NEW fd \in Fd, NEW n \in 1 .. NumConns, sys_listen(fd, n)
  PROVE  TableInv'
  <1>1. backlog' \in [Conn -> 0 .. NumConns]
    <2>1. n \in 0 .. NumConns
      BY TcpTableAssumption
    <2>2. backlog' = [backlog EXCEPT ![conn[fds[fd]]] = n]
      BY Zenon DEF sys_listen
    <2> QED
      BY <2>1, <2>2, Zenon DEF TableInv, TypeOK
  <1>2. UNCHANGED <<state, lport, peer, accepted, attempts, type, conn, fds, sockets, strays>>
    BY Zenon DEF sys_listen, files
  <1> QED
    BY <1>1, <1>2 DEF TableInv, TypeOK, OwnTcb, OneListener, PeerOfConnection, HalfOpenWaits

\* An established connection gets a closed handle, or is dropped.
LEMMA AcceptStep ==
  ASSUME TableInv, NEW fd \in Fd, sys_accept(fd)
  PROVE  TableInv'
  <1>1. PICK c \in Conn, h \in Handle :
          /\ state[c] = "ESTABLISHED" /\ type[h] = "CLOSED"
          /\ \/ /\ Install(h, "ESTAB", c)
                /\ accepted' = accepted \cup {c}
                /\ UNCHANGED <<state, lport, peer, backlog, attempts>>
             \/ Release({c}) /\ Uninstall(h, None)
          /\ UNCHANGED <<sockets, strays>>
    BY Zenon DEF sys_accept, Lowest
  <1>2. CASE Install(h, "ESTAB", c) /\ accepted' = accepted \cup {c}
             /\ UNCHANGED <<state, lport, peer, backlog, attempts>>
    <2>1. TypeOK'
      BY <1>1, <1>2, InstallTypes, Zenon DEF TableInv, TypeOK
    <2>2. OwnTcb'
      BY <1>1, <1>2 DEF TableInv, TypeOK, OwnTcb, Install
    <2>3. OneListener' /\ PeerOfConnection' /\ HalfOpenWaits'
      BY <1>1, <1>2 DEF TableInv, TypeOK, OneListener, PeerOfConnection, HalfOpenWaits
    <2> QED
      BY <2>1, <2>2, <2>3, Zenon DEF TableInv
  <1>3. CASE Release({c}) /\ Uninstall(h, None)
    <2>1. TypeOK'
      BY <1>1, <1>3, ReleaseTypes, UninstallTypes, Zenon DEF TableInv, TypeOK
    <2>2. OwnTcb'
      BY <1>1, <1>3 DEF TableInv, TypeOK, OwnTcb, Release, Uninstall, Handle
    <2> QED
      BY <1>3, <2>1, <2>2, ReleaseKeeps, Zenon DEF TableInv
  <1> QED
    BY <1>1, <1>2, <1>3, Zenon

\* Closing an accepted connection, also through a handle that is stale.
LEMMA CloseConnection ==
  ASSUME TableInv, NEW h \in Handle, NEW fd, NEW c,
         tcp_close(c), UNCHANGED <<sockets, strays>>,
         Uninstall(h, fd) \/ UNCHANGED files
  PROVE  TableInv'
  <1>1. TypeOK'
    <2>1. /\ state' \in [Conn -> {"FREE", "CLOSED", "LISTEN", "SYN_RECEIVED", "ESTABLISHED"} \cup Closing]
          /\ attempts' \in [Conn -> Nat]
          /\ accepted' \subseteq Conn
      BY Zenon DEF TableInv, TypeOK, tcp_close, Closing
    <2> QED
      BY <2>1, UninstallTypes, Zenon DEF TableInv, TypeOK, tcp_close, files
  <1>2. \A i \in Conn : state'[i] = IF i = c /\ state[i] = "ESTABLISHED" THEN "FIN_WAIT_1" ELSE state[i]
    BY Zenon DEF TableInv, TypeOK, tcp_close
  <1>3. accepted' = accepted \ {c} /\ UNCHANGED <<lport, peer>>
    BY Zenon DEF tcp_close
  <1>4. OwnTcb'
    <2>1. \A g \in Handle : type'[g] # "CLOSED" => type'[g] = type[g] /\ conn'[g] = conn[g]
      BY Zenon DEF TableInv, TypeOK, Uninstall, files
    <2> QED
      BY <1>2, <2>1 DEF TableInv, OwnTcb, Handle
  <1>5. OneListener'
    BY <1>2, <1>3 DEF TableInv, OneListener
  <1>6. PeerOfConnection' /\ HalfOpenWaits'
    BY <1>2, <1>3, Zenon DEF TableInv, PeerOfConnection, HalfOpenWaits
  <1> QED
    BY <1>1, <1>4, <1>5, <1>6, Zenon DEF TableInv

\* Closing a socket that is bound or not: its TCB goes, with all that wait for it.
LEMMA CloseSocket ==
  ASSUME TableInv, NEW h \in Handle, NEW fd \in Fd, Uninstall(h, fd),
         UNCHANGED <<sockets, strays>>, NEW S, Release(S)
  PROVE  TableInv'
  <1>1. TypeOK'
    BY ReleaseTypes, UninstallTypes, Zenon DEF TableInv, TypeOK
  <1>2. OwnTcb'
    BY DEF TableInv, TypeOK, OwnTcb, Release, Uninstall, Handle
  <1> QED
    BY <1>1, <1>2, ReleaseKeeps, Zenon DEF TableInv

LEMMA CloseStep ==
  ASSUME TableInv, NEW fd \in Fd, sys_close(fd)
  PROVE  TableInv'
  <1>1. fds[fd] \in Handle
    BY Zenon DEF TableInv, TypeOK, sys_close
  <1> QED
    BY <1>1, CloseConnection, CloseSocket, Zenon DEF sys_close

-----------------------------------------------------------------------------
(* Segments and timers.                                                    *)

LEMMA SynStep ==
  ASSUME TableInv, NEW p \in Peers, NEW port \in Ports, tcp_handle_syn(p, port)
  PROVE  TableInv'
  <1>1. PICK i \in Conn :
          /\ state[i] = "FREE"
          /\ NewConn(i, p, port)
          /\ state' = [state EXCEPT ![i] = "SYN_RECEIVED"]
          /\ UNCHANGED <<backlog, type, conn, fds, sockets, strays>>
    BY Zenon DEF tcp_handle_syn, Lowest, FreeConns, files
  <1>2. TypeOK'
    BY <1>1, Zenon DEF TableInv, TypeOK, NewConn
  <1>3. OwnTcb' /\ OneListener'
    BY <1>1 DEF TableInv, TypeOK, OwnTcb, OneListener, NewConn, Handle
  <1>4. PeerOfConnection' /\ HalfOpenWaits'
    BY <1>1, Zenon DEF TableInv, TypeOK, PeerOfConnection, HalfOpenWaits, NewConn
  <1> QED
    BY <1>2, <1>3, <1>4, Zenon DEF TableInv

LEMMA RecycleStep ==
  ASSUME TableInv, NEW p \in Peers, NEW port \in Ports, tcp_handle_recycle(p, port)
  PROVE  TableInv'
  <1>1. PICK c \in Conn :
          /\ state[c] \in Closing
          /\ \/ Release({c})
             \/ \E i \in Lowest(FreeConns \cup {c}) :
                  /\ state' = [state EXCEPT ![c] = "FREE", ![i] = "SYN_RECEIVED"]
                  /\ lport' = [lport EXCEPT ![c] = PortLeft(c), ![i] = port]
                  /\ peer' = [peer EXCEPT ![c] = None, ![i] = p]
                  /\ accepted' = accepted \ {c, i}
                  /\ attempts' = [attempts EXCEPT ![c] = 0, ![i] = 0]
                  /\ UNCHANGED backlog
          /\ UNCHANGED <<files, strays>>
    BY Zenon DEF tcp_handle_recycle, tcp_conn_find_peer
  <1>2. CASE Release({c})
    BY <1>1, <1>2, ReleaseStep, Zenon DEF TableInv, TypeOK
  <1>3. ASSUME NEW i \in Conn, state[i] = "FREE" \/ i = c,
               state' = [state EXCEPT ![c] = "FREE", ![i] = "SYN_RECEIVED"],
               lport' = [lport EXCEPT ![c] = PortLeft(c), ![i] = port],
               peer' = [peer EXCEPT ![c] = None, ![i] = p],
               accepted' = accepted \ {c, i},
               attempts' = [attempts EXCEPT ![c] = 0, ![i] = 0],
               UNCHANGED backlog
        PROVE  TableInv'
    <2> USE <1>1, <1>3 DEF TableInv, TypeOK, Closing, files
    <2>1. TypeOK'
      <3>1. PortLeft(c) \in Ports \cup {None}
        BY Zenon DEF PortLeft
      <3> QED
        BY <3>1, Zenon
    <2>2. \A j \in Conn \ {c, i} : state'[j] = state[j] /\ lport'[j] = lport[j]
      BY Zenon
    <2>3. state'[c] # "LISTEN" /\ state'[i] # "LISTEN"
      BY Zenon
    <2>4. OwnTcb' /\ OneListener'
      BY <2>2, <2>3 DEF OwnTcb, OneListener, Handle
    <2>5. PeerOfConnection' /\ HalfOpenWaits'
      BY Zenon DEF PeerOfConnection, HalfOpenWaits
    <2> QED
      BY <2>1, <2>4, <2>5, Zenon
  <1> QED
    BY <1>1, <1>2, <1>3, Zenon DEF Lowest, FreeConns

\* A segment moves a connection on; it neither makes nor ends a listener.
LEMMA SegmentStep ==
  ASSUME TableInv, NEW c \in Conn, NEW acks \in BOOLEAN, NEW fin \in BOOLEAN,
         tcp_handle_segment(c, acks, fin)
  PROVE  TableInv'
  <1> DEFINE s == AfterSegment(state[c], acks, fin)
  <1>1. s \in {"FREE", "ESTABLISHED"} \cup Closing
    <2>1. peer[c] # None /\ s # state[c]
      BY Zenon DEF tcp_handle_segment
    <2>2. state[c] \notin {"FREE", "CLOSED", "LISTEN"}
      BY <2>1, Zenon DEF TableInv, PeerOfConnection
    <2> QED
      BY <2>1, <2>2, Zenon DEF AfterSegment, Closing
  <1>2. CASE s = "FREE"
    BY <1>2, ReleaseStep, Zenon DEF tcp_handle_segment, TableInv, TypeOK
  <1>3. CASE s # "FREE"
    <2>1. /\ state' = [state EXCEPT ![c] = s] /\ peer[c] # None
          /\ attempts' \in [Conn -> Nat]
          /\ UNCHANGED <<lport, peer, accepted, backlog, type, conn, fds, sockets, strays>>
      BY <1>3 DEF tcp_handle_segment, Release, TableInv, TypeOK, files
    <2> HIDE DEF s
    <2> USE <1>1, <1>3, <2>1 DEF TableInv, TypeOK, Closing
    <2>2. TypeOK'
      BY Zenon
    <2>3. OwnTcb' /\ OneListener'
      BY DEF OwnTcb, OneListener, Handle
    <2>4. PeerOfConnection' /\ HalfOpenWaits'
      BY Zenon DEF PeerOfConnection, HalfOpenWaits
    <2> QED
      BY <2>2, <2>3, <2>4, Zenon
  <1> QED
    BY <1>2, <1>3, Zenon

\* A step that only counts retransmissions.
LEMMA CountStep ==
  ASSUME TableInv, attempts' \in [Conn -> Nat],
         UNCHANGED <<state, lport, peer, accepted, backlog, files, strays>>
  PROVE  TableInv'
  BY DEF TableInv, TypeOK, OwnTcb, OneListener, PeerOfConnection, HalfOpenWaits, files

LEMMA TimerStep ==
  ASSUME TableInv, NEW c \in Conn,
         \/ tcp_handle_dup_syn(c) \/ tcp_handle_rst(c) \/ tcp_tick(c) \/ tcp_give_up(c)
  PROVE  TableInv'
  <1>1. CASE tcp_handle_dup_syn(c)
    BY <1>1, CountStep, Zenon DEF tcp_handle_dup_syn, TableInv, TypeOK
  <1>2. CASE Release({c}) /\ UNCHANGED <<files, strays>>
    BY <1>2, ReleaseStep, Zenon DEF TableInv, TypeOK
  <1>3. CASE attempts' = [attempts EXCEPT ![c] = tcp_rto_retry(c)]
             /\ UNCHANGED <<state, lport, peer, accepted, backlog, files, strays>>
    <2>1. attempts' \in [Conn -> Nat]
      BY <1>3 DEF TableInv, TypeOK, tcp_rto_retry
    <2> QED
      BY <1>3, <2>1, CountStep, Zenon
  <1> QED
    BY <1>1, <1>2, <1>3, Zenon DEF tcp_handle_rst, tcp_tick, tcp_give_up

\* A reset from 0.0.0.0 takes the TCB and leaves its handle as it is.
LEMMA StrayStep == TableInv /\ tcp_handle_stray => TableInv'
  <1> SUFFICES ASSUME TableInv, tcp_handle_stray PROVE TableInv'
    BY Zenon
  <1>1. strays' \in Nat
    BY DEF tcp_handle_stray, TableInv, TypeOK
  <1> QED
    BY <1>1, ReleaseStep, Zenon DEF tcp_handle_stray

\* The kernel's test service closes a connection without a handle.
LEMMA TickCloseStep ==
  ASSUME TableInv, NEW c \in Conn, tcp_tick_close(c)
  PROVE  TableInv'
  BY CloseConnection, Zenon DEF tcp_tick_close, files, Handle

LEMMA TableStep == TableInv /\ [Next]_vars => TableInv'
  <1> SUFFICES ASSUME TableInv, [Next]_vars PROVE TableInv'
    BY Zenon
  <1>1. CASE UNCHANGED vars
    BY <1>1, CountStep, Zenon DEF vars, files, TableInv, TypeOK
  <1>2. CASE Next
    BY Zenon, <1>2, SocketStep, BindStep, ListenStep, AcceptStep, CloseStep, SynStep, RecycleStep,
       SegmentStep, TimerStep, TickCloseStep, StrayStep DEF Next
  <1> QED
    BY <1>1, <1>2, Zenon

-----------------------------------------------------------------------------
(* The backlog.                                                            *)

Waiting(port) == {i \in Conn : Pending(i, port)}

\* A step adds at most one connection to those that wait at a port, and only
\* a SYN that was welcome does.
LEMMA WaitingGrows ==
  ASSUME TableInv, Next, NEW port \in Ports
  PROVE  \/ Waiting(port)' \subseteq Waiting(port)
         \/ Welcome(port) /\ \E i \in Conn : Waiting(port)' \subseteq Waiting(port) \cup {i}
  <1> USE DEF TableInv, TypeOK, Waiting, Pending
  <1>1. ASSUME NEW S, Release(S) PROVE Waiting(port)' \subseteq Waiting(port)
    BY <1>1, Zenon DEF Release
  <1>2. ASSUME NEW c, tcp_close(c) PROVE Waiting(port)' \subseteq Waiting(port)
    BY <1>2, Zenon DEF tcp_close, HalfOpenWaits
  <1>3. CASE sys_socket
    <2>1. PICK i : /\ UNCHANGED state \/ state' = [state EXCEPT ![i] = "CLOSED"]
                   /\ lport' = [lport EXCEPT ![i] = None]
                   /\ accepted' = accepted /\ state[i] = "FREE"
      BY <1>3, Zenon DEF sys_socket, Lowest, FreeConns
    <2> QED
      BY <2>1, Zenon
  <1>4. ASSUME NEW fd \in Fd, NEW at \in Ports, sys_bind(fd, at)
        PROVE  Waiting(port)' \subseteq Waiting(port)
    BY <1>4, Zenon DEF sys_bind, OwnTcb
  <1>5. ASSUME NEW fd \in Fd,
               \/ \E n \in 1 .. NumConns : sys_listen(fd, n)
               \/ sys_accept(fd)
               \/ sys_close(fd)
        PROVE  Waiting(port)' \subseteq Waiting(port)
    BY <1>1, <1>2, <1>5, Zenon DEF sys_listen, sys_accept, sys_close
  <1>6. ASSUME NEW p \in Peers, NEW at \in Ports, tcp_handle_syn(p, at)
        PROVE  \/ Waiting(port)' \subseteq Waiting(port)
               \/ Welcome(port) /\ \E i \in Conn : Waiting(port)' \subseteq Waiting(port) \cup {i}
    <2>1. PICK i \in Conn : Welcome(at) /\ NewConn(i, p, at) /\ state' = [state EXCEPT ![i] = "SYN_RECEIVED"]
      BY <1>6, Zenon DEF tcp_handle_syn, Lowest, FreeConns
    <2>2. Waiting(port)' \subseteq Waiting(port) \cup {i}
      BY <2>1, Zenon DEF NewConn
    <2>3. at # port => Waiting(port)' \subseteq Waiting(port)
      BY <2>1, Zenon DEF NewConn
    <2> QED
      BY <2>1, <2>2, <2>3, Zenon
  <1>7. ASSUME NEW p \in Peers, NEW at \in Ports, tcp_handle_recycle(p, at)
        PROVE  \/ Waiting(port)' \subseteq Waiting(port)
               \/ Welcome(port) /\ \E i \in Conn : Waiting(port)' \subseteq Waiting(port) \cup {i}
    <2>1. PICK c \in Conn : \/ Release({c})
                            \/ \E i \in Lowest(FreeConns \cup {c}) :
                                 /\ Welcome(at)
                                 /\ state' = [state EXCEPT ![c] = "FREE", ![i] = "SYN_RECEIVED"]
                                 /\ lport' = [lport EXCEPT ![c] = PortLeft(c), ![i] = at]
                                 /\ accepted' = accepted \ {c, i}
      BY <1>7, Zenon DEF tcp_handle_recycle, tcp_conn_find_peer
    <2>2. ASSUME NEW i \in Conn, Welcome(at),
                 state' = [state EXCEPT ![c] = "FREE", ![i] = "SYN_RECEIVED"],
                 lport' = [lport EXCEPT ![c] = PortLeft(c), ![i] = at],
                 accepted' = accepted \ {c, i}
          PROVE  \/ Waiting(port)' \subseteq Waiting(port)
                 \/ Welcome(port) /\ Waiting(port)' \subseteq Waiting(port) \cup {i}
      <3>1. \A j \in Conn \ {c, i} : j \in Waiting(port)' => j \in Waiting(port)
        BY <2>2, Zenon
      <3>2. c # i => c \notin Waiting(port)'
        BY <2>2, Zenon
      <3>3. at # port => i \notin Waiting(port)'
        BY <2>2, Zenon
      <3> QED
        BY <2>2, <3>1, <3>2, <3>3, Zenon
    <2>3. FreeConns \cup {c} \subseteq Conn
      BY Zenon DEF FreeConns
    <2> QED
      BY <1>1, <2>1, <2>2, <2>3, Zenon DEF Lowest
  <1>8. ASSUME NEW c \in Conn,
               \/ tcp_handle_dup_syn(c) \/ tcp_handle_rst(c) \/ tcp_tick(c) \/ tcp_give_up(c)
               \/ tcp_tick_close(c)
        PROVE  Waiting(port)' \subseteq Waiting(port)
    BY <1>1, <1>2, <1>8, Zenon DEF tcp_handle_dup_syn, tcp_handle_rst, tcp_tick, tcp_give_up, tcp_tick_close
  <1>9. ASSUME NEW c \in Conn, NEW acks \in BOOLEAN, NEW fin \in BOOLEAN,
               tcp_handle_segment(c, acks, fin)
        PROVE  Waiting(port)' \subseteq Waiting(port)
    <2> DEFINE s == AfterSegment(state[c], acks, fin)
    <2>1. s # state[c] /\ s = "ESTABLISHED" => state[c] = "SYN_RECEIVED"
      BY Zenon DEF AfterSegment
    <2>2. s # state[c] => s # "SYN_RECEIVED"
      BY Zenon DEF AfterSegment
    <2>3. \/ Release({c})
          \/ state' = [state EXCEPT ![c] = s] /\ s # state[c] /\ UNCHANGED <<lport, accepted>>
      BY <1>9, Zenon DEF tcp_handle_segment
    <2> HIDE DEF s
    <2> QED
      BY <1>1, <2>1, <2>2, <2>3, Zenon
  <1>10. CASE tcp_handle_stray
    BY <1>1, <1>10, Zenon DEF tcp_handle_stray
  <1> HIDE DEF TableInv, TypeOK, Waiting, Pending
  <1> QED
    BY <1>3, <1>4, <1>5, <1>6, <1>7, <1>8, <1>9, <1>10, Zenon DEF Next

\* No SYN takes the connections that wait for accept past the backlog of their
\* listener (tcp_handle(), "accept queue full").
THEOREM BacklogHolds == Spec => BacklogKept
  <1>1. ASSUME TableInv, [Next]_vars PROVE [BacklogStep]_vars
    <2> SUFFICES ASSUME Next, NEW port \in Ports, NEW l \in Conn,
                        state[l] = "LISTEN", lport[l] = port,
                        tcp_pending_count(port)' > tcp_pending_count(port)
                 PROVE  tcp_pending_count(port)' <= backlog[l]
      BY <1>1, Zenon DEF BacklogStep
    <2>1. IsFiniteSet(Conn)
      BY FS_Interval, TcpTableAssumption DEF Conn
    <2>2. /\ IsFiniteSet(Waiting(port)) /\ IsFiniteSet(Waiting(port)')
          /\ tcp_pending_count(port) = Cardinality(Waiting(port))
          /\ tcp_pending_count(port)' = Cardinality(Waiting(port)')
          /\ Cardinality(Waiting(port)) \in Nat /\ Cardinality(Waiting(port)') \in Nat
      <3>1. Waiting(port) \subseteq Conn /\ Waiting(port)' \subseteq Conn
        BY Zenon DEF Waiting
      <3>2. IsFiniteSet(Waiting(port)) /\ IsFiniteSet(Waiting(port)')
        BY <2>1, <3>1, FS_Subset, Zenon
      <3> QED
        BY <3>2, FS_CardinalityType, Zenon DEF tcp_pending_count, Waiting
    <2>3. ~(Waiting(port)' \subseteq Waiting(port))
      <3> SUFFICES ASSUME Waiting(port)' \subseteq Waiting(port) PROVE FALSE
        BY Zenon
      <3>1. Cardinality(Waiting(port)') <= Cardinality(Waiting(port))
        BY <2>2, FS_Subset, Zenon
      <3> QED
        BY <2>2, <3>1
    <2>4. PICK i \in Conn : Welcome(port) /\ Waiting(port)' \subseteq Waiting(port) \cup {i}
      BY <1>1, <2>3, WaitingGrows, Zenon
    <2>5. Cardinality(Waiting(port)') <= Cardinality(Waiting(port)) + 1
      <3>1. /\ IsFiniteSet(Waiting(port) \cup {i})
            /\ Cardinality(Waiting(port) \cup {i}) <= Cardinality(Waiting(port)) + 1
        BY <2>2, FS_AddElement
      <3>2. /\ Cardinality(Waiting(port)') <= Cardinality(Waiting(port) \cup {i})
            /\ Cardinality(Waiting(port) \cup {i}) \in Nat
        BY <2>4, <3>1, FS_Subset, FS_CardinalityType, Zenon
      <3> QED
        BY <2>2, <3>1, <3>2
    <2>6. tcp_pending_count(port) < backlog[l] /\ backlog[l] \in Int
      BY <1>1, <2>4 DEF Welcome, tcp_conn_find_listen, TableInv, OneListener, TypeOK
    <2> QED
      BY <2>2, <2>5, <2>6
  <1> QED
    BY <1>1, TableInit, TableStep, PTL DEF Spec, BacklogKept

-----------------------------------------------------------------------------
(* The listeners.                                                          *)

\* What a step does to a TCB that is a listener or has yet to become one.
LEMMA SocketKept ==
  ASSUME TableInv, Next, NEW i \in Conn, state[i] \in {"LISTEN", "CLOSED"}, strays' = strays
  PROVE  \/ state'[i] \in {state[i], "LISTEN"} /\ (state[i] = "LISTEN" => lport'[i] = lport[i])
         \/ type[i] = "UNBOUND" /\ type'[i] = "CLOSED" /\ state[i] # "LISTEN"
         \/ type[i] = "LISTEN" /\ type'[i] = "CLOSED" /\ Release(Dropped(i))
  <1> DEFINE Same == state'[i] = state[i] /\ lport'[i] = lport[i]
             Goal == \/ state'[i] \in {state[i], "LISTEN"} /\ (state[i] = "LISTEN" => lport'[i] = lport[i])
                     \/ type[i] = "UNBOUND" /\ type'[i] = "CLOSED" /\ state[i] # "LISTEN"
                     \/ type[i] = "LISTEN" /\ type'[i] = "CLOSED" /\ Release(Dropped(i))
  <1> SUFFICES Goal
    OBVIOUS
  <1> USE DEF TableInv, TypeOK
  <1>1. ASSUME NEW S, Release(S), i \notin S PROVE Same
    BY <1>1, Zenon DEF Release
  <1>2. ASSUME NEW c, tcp_close(c) PROVE Same
    BY <1>2, Zenon DEF tcp_close
  <1>3. CASE sys_socket
    BY <1>3, Zenon DEF sys_socket, Lowest, FreeConns
  <1>4. ASSUME NEW fd \in Fd, NEW port \in Ports, sys_bind(fd, port) PROVE Goal
    <2>1. fds[fd] \in Handle /\ conn[fds[fd]] = fds[fd] /\ state[fds[fd]] # "LISTEN"
      BY <1>4, Zenon DEF sys_bind, OwnTcb
    <2>2. CASE fds[fd] = i
      BY <1>4, <2>1, <2>2, Zenon DEF sys_bind
    <2>3. CASE fds[fd] # i
      BY <1>4, <2>1, <2>3, Zenon DEF sys_bind
    <2> QED
      BY <2>2, <2>3, Zenon
  <1>5. ASSUME NEW fd \in Fd, NEW n \in 1 .. NumConns, sys_listen(fd, n) PROVE Same
    BY <1>5, Zenon DEF sys_listen
  <1>6. ASSUME NEW fd \in Fd, sys_accept(fd) PROVE Same
    <2>1. PICK c : state[c] = "ESTABLISHED" /\ (Release({c}) \/ UNCHANGED <<state, lport>>)
      BY <1>6, Zenon DEF sys_accept, Lowest
    <2> QED
      BY <1>1, <2>1, Zenon
  <1>7. ASSUME NEW fd \in Fd, sys_close(fd) PROVE Goal
    <2>1. fds[fd] \in Handle /\ type'[fds[fd]] = "CLOSED"
      BY <1>7, Zenon DEF sys_close, Uninstall
    <2>2. CASE type[fds[fd]] = "ESTAB"
      BY <1>2, <1>7, <2>2, Zenon DEF sys_close
    <2>3. CASE type[fds[fd]] = "UNBOUND"
      <3>1. Release({fds[fd]}) /\ state[fds[fd]] # "LISTEN"
        BY <1>7, <2>1, <2>3, Zenon DEF sys_close, OwnTcb
      <3> QED
        BY <1>1, <2>1, <2>3, <3>1, Zenon
    <2>4. CASE type[fds[fd]] = "LISTEN"
      <3>1. Release(Dropped(fds[fd]))
        BY <1>7, <2>1, <2>4, Zenon DEF sys_close, OwnTcb
      <3>2. i \in Dropped(fds[fd]) => i = fds[fd]
        BY Zenon DEF Dropped, Pending
      <3> QED
        BY <1>1, <2>1, <2>4, <3>1, <3>2, Zenon
    <2> QED
      BY <1>7, <2>2, <2>3, <2>4, Zenon DEF sys_close
  <1>8. ASSUME NEW p \in Peers, NEW port \in Ports, tcp_handle_syn(p, port) PROVE Same
    BY <1>8, Zenon DEF tcp_handle_syn, NewConn, Lowest, FreeConns
  <1>9. ASSUME NEW p \in Peers, NEW port \in Ports, tcp_handle_recycle(p, port) PROVE Same
    <2>1. PICK c \in Conn :
            /\ c # i
            /\ \/ Release({c})
               \/ \E j \in Lowest(FreeConns \cup {c}) :
                    /\ state' = [state EXCEPT ![c] = "FREE", ![j] = "SYN_RECEIVED"]
                    /\ lport' = [lport EXCEPT ![c] = PortLeft(c), ![j] = port]
      BY <1>9, Zenon DEF tcp_handle_recycle, tcp_conn_find_peer, Closing
    <2> QED
      BY <1>1, <2>1, Zenon DEF Lowest, FreeConns
  <1>10. ASSUME NEW c \in Conn,
                \/ tcp_handle_dup_syn(c) \/ tcp_handle_rst(c) \/ tcp_tick(c) \/ tcp_give_up(c)
                \/ tcp_tick_close(c)
         PROVE  Same
    <2>1. \/ c # i /\ Release({c})
          \/ UNCHANGED <<state, lport>>
          \/ tcp_close(c)
      BY <1>10, Zenon DEF tcp_handle_dup_syn, tcp_handle_rst, tcp_tick, tcp_give_up, tcp_tick_close,
                          PeerOfConnection
    <2> QED
      BY <1>1, <1>2, <2>1, Zenon
  <1>11. ASSUME NEW c \in Conn, NEW acks \in BOOLEAN, NEW fin \in BOOLEAN,
                tcp_handle_segment(c, acks, fin)
         PROVE  Same
    <2>1. c # i
      BY <1>11, Zenon DEF tcp_handle_segment, PeerOfConnection
    <2> QED
      BY <1>1, <1>11, <2>1, Zenon DEF tcp_handle_segment
  <1>12. Same => Goal
    BY Zenon
  <1> HIDE DEF Same, Goal, TableInv, TypeOK
  <1>13. ~tcp_handle_stray
    <2>1. strays \in Nat
      BY Zenon DEF TableInv, TypeOK
    <2>2. tcp_handle_stray => strays' = strays + 1
      BY Zenon DEF tcp_handle_stray
    <2> QED
      BY <2>1, <2>2
  <1> QED
    BY <1>3, <1>4, <1>5, <1>6, <1>7, <1>8, <1>9, <1>10, <1>11, <1>12, <1>13, Zenon DEF Next

\* A port has one listener, and the TCB of a listener or of a socket that has yet
\* to be bound stays what it is until its own handle is closed, but for a reset
\* from 0.0.0.0, port 0: net_socket_bind(), tcp_handle() and tcp_tick() give it
\* to nobody else, whatever stale handles are closed.
THEOREM ListenersStay == Spec => ListenersKept
  <1>1. ASSUME TableInv, TableInv', [Next]_vars PROVE [ListenerStep]_vars
    <2> SUFFICES ASSUME Next PROVE ListenerStep
      BY <1>1, Zenon
    <2>1. OneListener'
      BY <1>1, Zenon DEF TableInv
    <2> QED
      BY <1>1, <2>1, SocketKept, Zenon DEF ListenerStep
  <1> QED
    BY <1>1, TableInit, TableStep, PTL DEF Spec, ListenersKept

\* A connection that waits for accept has a listener that can accept it, unless a
\* reset from 0.0.0.0, port 0 took the listener: tcp_drop_pending() takes all of
\* them with their listener, and only a SYN that has one adds to them.
THEOREM NoOrphanedConnection == Spec => PendingHasListener
  <1>1. ASSUME TableInv, [Next]_vars PROVE [PendingStep]_vars
    <2> SUFFICES ASSUME Next, NEW port \in Ports, Orphaned(port)', strays' = strays
                 PROVE  Orphaned(port)
      BY <1>1, Zenon DEF PendingStep
    <2>1. Waiting(port)' # {} /\ \A l \in Conn : ~(state'[l] = "LISTEN" /\ lport'[l] = port)
      BY Zenon DEF Orphaned, Waiting, tcp_conn_find_listen
    <2>2. tcp_conn_find_listen(port) = {}
      <3> SUFFICES ASSUME NEW l \in Conn, state[l] = "LISTEN", lport[l] = port PROVE FALSE
        BY Zenon DEF tcp_conn_find_listen
      <3>1. Release(Dropped(l))
        BY <1>1, <2>1, SocketKept, Zenon
      <3>2. \A i \in Conn : Pending(i, port) => state'[i] = "FREE"
        BY <3>1, Zenon DEF Release, Dropped
      <3>3. \A i \in Conn : Pending(i, port)' => Pending(i, port)
        BY <1>1, <3>1, Zenon DEF Release, Pending, TableInv, TypeOK
      <3> QED
        BY <2>1, <3>2, <3>3, Zenon DEF Waiting, Pending
    <2>3. ~Welcome(port)
      BY <2>2, Zenon DEF Welcome
    <2>4. Waiting(port) # {}
      BY <1>1, <2>1, <2>3, WaitingGrows, Zenon
    <2> QED
      BY <2>2, <2>4, Zenon DEF Orphaned, Waiting
  <1> QED
    BY <1>1, TableInit, TableStep, PTL DEF Spec, PendingHasListener

-----------------------------------------------------------------------------
(* Accepted connections.                                                   *)

\* Steps that neither accept nor touch a handle.
LEMMA HeldSame ==
  ASSUME UNCHANGED files, accepted' \subseteq accepted,
         \A c \in accepted' : state'[c] = "ESTABLISHED" => state[c] = "ESTABLISHED"
  PROVE  AcceptedStep
  BY Zenon DEF AcceptedStep, Held, files

LEMMA HeldRelease ==
  ASSUME TableInv, UNCHANGED files, NEW S, Release(S)
  PROVE  AcceptedStep
  <1>1. accepted' \subseteq accepted /\ \A c \in accepted' : state'[c] = state[c]
    BY Zenon DEF TableInv, TypeOK, Release
  <1> QED
    BY <1>1, HeldSame, Zenon

\* A closed handle holds no connection, so that accept() takes none away.
LEMMA HeldAccept ==
  ASSUME TableInv, NEW fd \in Fd, sys_accept(fd)
  PROVE  AcceptedStep
  <1>1. PICK c \in Conn, h \in Handle :
          /\ type[h] = "CLOSED"
          /\ \/ /\ Install(h, "ESTAB", c)
                /\ accepted' = accepted \cup {c}
                /\ UNCHANGED state
             \/ /\ Release({c})
                /\ Uninstall(h, None)
    BY Zenon DEF sys_accept, Lowest
  <1> SUFFICES ASSUME NEW e \in accepted', state'[e] = "ESTABLISHED",
                      e \in accepted => Held(e)
               PROVE  Held(e)'
    BY Zenon DEF AcceptedStep
  <1>2. CASE Install(h, "ESTAB", c) /\ accepted' = accepted \cup {c} /\ UNCHANGED state
    <2>1. PICK d \in Fd : fds[d] = None /\ fds' = [fds EXCEPT ![d] = h]
      BY <1>2, Zenon DEF Install, Lowest, FreeFds
    <2>2. /\ \A a \in Fd : fds'[a] = IF a = d THEN h ELSE fds[a]
          /\ \A g \in Handle : /\ type'[g] = IF g = h THEN "ESTAB" ELSE type[g]
                               /\ conn'[g] = IF g = h THEN c ELSE conn[g]
      BY <1>2, <2>1, Zenon DEF Install, TableInv, TypeOK
    <2>3. h # None
      BY TcpTableAssumption DEF Handle, Conn
    <2>4. CASE e = c
      BY <2>1, <2>2, <2>3, <2>4, Zenon DEF Held
    <2>5. CASE e # c
      <3>1. PICK a \in Fd : fds[a] # None /\ type[fds[a]] = "ESTAB" /\ conn[fds[a]] = e
        BY <1>2, <2>5, Zenon DEF Held
      <3>2. fds[a] \in Handle /\ fds[a] # h /\ a # d
        BY <1>1, <2>1, <3>1, Zenon DEF TableInv, TypeOK
      <3> QED
        BY <2>2, <3>1, <3>2, Zenon DEF Held
    <2> QED
      BY <2>4, <2>5, Zenon
  <1>3. CASE Release({c}) /\ Uninstall(h, None)
    <2>1. e \in accepted
      BY <1>3, Zenon DEF Release
    <2>2. PICK a \in Fd : fds[a] # None /\ type[fds[a]] = "ESTAB" /\ conn[fds[a]] = e
      BY <2>1, Zenon DEF Held
    <2>3. fds[a] \in Handle /\ fds[a] # h /\ a # None
      BY <1>1, <2>2, TcpTableAssumption DEF TableInv, TypeOK, Fd
    <2> QED
      BY <1>3, <2>2, <2>3, Zenon DEF Held, Uninstall, TableInv, TypeOK
  <1> QED
    BY <1>1, <1>2, <1>3, Zenon

\* Closing a descriptor ends the connection of its handle, if it has one.
LEMMA HeldClose ==
  ASSUME TableInv, NEW fd \in Fd, sys_close(fd)
  PROVE  AcceptedStep
  <1> DEFINE h == fds[fd]
  <1>1. h \in Handle /\ h # None /\ Uninstall(h, fd)
    BY Zenon DEF sys_close, TableInv, TypeOK
  <1>2. /\ accepted' \subseteq accepted
        /\ type[h] = "ESTAB" => conn[h] \notin accepted'
    BY Zenon DEF sys_close, tcp_close, Release
  <1> SUFFICES ASSUME NEW e \in accepted', Held(e)
               PROVE  Held(e)'
    BY <1>2, Zenon DEF AcceptedStep
  <1>3. PICK a \in Fd : fds[a] # None /\ type[fds[a]] = "ESTAB" /\ conn[fds[a]] = e
    BY Zenon DEF Held
  <1>4. fds[a] \in Handle /\ fds[a] # h /\ a # fd
    BY <1>2, <1>3, Zenon DEF TableInv, TypeOK
  <1> HIDE DEF h
  <1> QED
    BY <1>1, <1>3, <1>4, Zenon DEF Held, Uninstall, TableInv, TypeOK

LEMMA HeldBind ==
  ASSUME TableInv, NEW fd \in Fd, NEW port \in Ports, sys_bind(fd, port)
  PROVE  AcceptedStep
  <1>1. /\ accepted' \subseteq accepted /\ UNCHANGED <<conn, fds>>
        /\ \A g \in Handle : type[g] = "ESTAB" => type'[g] = "ESTAB"
    BY Zenon DEF sys_bind, TableInv, TypeOK
  <1>2. \A a \in Fd : fds[a] # None => fds[a] \in Handle
    BY Zenon DEF TableInv, TypeOK
  <1> QED
    BY <1>1, <1>2, Zenon DEF AcceptedStep, Held

LEMMA HeldStep == TableInv /\ [Next]_vars => [AcceptedStep]_vars
  <1> SUFFICES ASSUME TableInv, Next PROVE AcceptedStep
    BY Zenon
  <1>1. CASE sys_socket
    <2>1. sockets' # sockets
      BY <1>1 DEF sys_socket, TableInv, TypeOK
    <2> QED
      BY <2>1, Zenon DEF AcceptedStep
  <1>2. ASSUME NEW fd \in Fd, NEW port \in Ports, sys_bind(fd, port) PROVE AcceptedStep
    BY <1>2, HeldBind, Zenon
  <1>3. ASSUME NEW fd \in Fd, NEW n \in 1 .. NumConns, sys_listen(fd, n) PROVE AcceptedStep
    BY <1>3, HeldSame, Zenon DEF sys_listen
  <1>4. ASSUME NEW fd \in Fd, sys_accept(fd) \/ sys_close(fd) PROVE AcceptedStep
    BY <1>4, HeldAccept, HeldClose, Zenon
  <1>5. ASSUME NEW p \in Peers, NEW port \in Ports,
               tcp_handle_syn(p, port) \/ tcp_handle_recycle(p, port)
        PROVE  AcceptedStep
    <2>1. \/ \E S : Release(S)
          \/ \E c, i : /\ accepted' = accepted \ {c, i}
                       /\ state' = [state EXCEPT ![c] = "FREE", ![i] = "SYN_RECEIVED"]
          \/ \E i : /\ accepted' = accepted \ {i}
                    /\ state' = [state EXCEPT ![i] = "SYN_RECEIVED"]
      BY <1>5, Zenon DEF tcp_handle_syn, tcp_handle_recycle, NewConn
    <2>2. accepted' \subseteq accepted /\ \A e \in accepted' : state'[e] = state[e]
      BY <2>1, Zenon DEF TableInv, TypeOK, Release
    <2> QED BY <1>5, <2>2, HeldSame, Zenon DEF tcp_handle_syn, tcp_handle_recycle
  <1>6. ASSUME NEW c \in Conn, tcp_handle_dup_syn(c) \/ tcp_handle_rst(c) \/ tcp_tick(c) \/ tcp_give_up(c)
        PROVE  AcceptedStep
    <2>1. UNCHANGED files /\ (Release({c}) \/ UNCHANGED <<state, accepted>>)
      BY <1>6, Zenon DEF tcp_handle_dup_syn, tcp_handle_rst, tcp_tick, tcp_give_up
    <2> QED BY <2>1, HeldSame, HeldRelease, Zenon
  <1>7. ASSUME NEW c \in Conn, tcp_tick_close(c) PROVE AcceptedStep
    <2>1. /\ UNCHANGED files /\ accepted' \subseteq accepted
          /\ \A e \in accepted' : state'[e] = "ESTABLISHED" => state[e] = "ESTABLISHED"
      BY <1>7, Zenon DEF tcp_tick_close, tcp_close, TableInv, TypeOK
    <2> QED BY <2>1, HeldSame, Zenon
  <1>8. ASSUME NEW c \in Conn, NEW acks \in BOOLEAN, NEW fin \in BOOLEAN,
                tcp_handle_segment(c, acks, fin)
         PROVE  AcceptedStep
    <2> DEFINE s == AfterSegment(state[c], acks, fin)
    <2>1. s # state[c] /\ s = "ESTABLISHED" => state[c] = "SYN_RECEIVED"
      BY Zenon DEF AfterSegment
    <2>2. /\ UNCHANGED files
          /\ \/ Release({c})
             \/ state' = [state EXCEPT ![c] = s] /\ s # state[c] /\ UNCHANGED accepted
      BY <1>8, Zenon DEF tcp_handle_segment
    <2> HIDE DEF s
    <2>3. CASE Release({c})
      BY <2>2, <2>3, HeldRelease, Zenon
    <2>4. CASE state' = [state EXCEPT ![c] = s] /\ s # state[c] /\ UNCHANGED accepted
      <3>1. \A e \in accepted' : state'[e] = "ESTABLISHED" => state[e] = "ESTABLISHED"
        BY <2>1, <2>4, Zenon DEF TableInv, TypeOK, HalfOpenWaits
      <3> QED BY <2>2, <2>4, <3>1, HeldSame, Zenon
    <2> QED BY <2>2, <2>3, <2>4, Zenon
  <1>9. CASE tcp_handle_stray
    BY <1>9, HeldRelease, Zenon DEF tcp_handle_stray
  <1> QED
    BY <1>1, <1>2, <1>3, <1>4, <1>5, <1>6, <1>7, <1>8, <1>9, Zenon DEF Next

\* An accepted connection that is still established keeps its handle and its
\* descriptor, after aborted accepts, resets and recycled TCBs too: the one call
\* that may take them away is socket(), by which net_socket_open() overwrites the
\* handle of the TCB that it found.
THEOREM AcceptedStaysHeld == Spec => AcceptedHeld
  BY HeldStep, TableInit, TableStep, PTL DEF Spec, AcceptedHeld

=============================================================================
