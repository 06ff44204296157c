------------------------------ MODULE TcpTable ------------------------------
(***************************************************************************)
(* The TCP connection table of net/net_tcp.c with the socket handles and   *)
(* the descriptors that refer to it (net/net.c, kernel/syscall.c).  The    *)
(* bytes of a connection are left out: a segment is told apart by its      *)
(* flags, by whether its sequence number is the expected one and by        *)
(* whether it acknowledges all that was sent.                              *)
(*                                                                         *)
(* A system call runs with interrupts off and is one step.  The handling   *)
(* of a segment is one step as long as e1000_poll() is not entered again   *)
(* while it runs, which the comment at e1000.c:297 takes for granted and   *)
(* the e1000_reentry run refutes: the properties are about the boots in    *)
(* which the poll of a tick finds no other poll under way.                 *)
(***************************************************************************)
EXTENDS Integers, FiniteSets

CONSTANTS
  NumConns,   \* TCP_MAX_CONNS
  NumFds,     \* descriptors left for sockets
  Ports,      \* local ports
  KernelPort, \* the port of the kernel's own listener (81), or None
  Peers,      \* remote hosts with their port
  R2Syn,      \* TCP_RTO_RETRY_SYNRCVD
  R2Data,     \* TCP_RTO_RETRY_DATA
  MaxSockets, \* bound: how often programs call socket()
  MaxStrays,  \* bound: resets that arrive from 0.0.0.0, port 0
  None

ASSUME TcpTableAssumption ==
  /\ NumConns \in Nat \ {0} /\ NumFds \in Nat
  /\ KernelPort \in Ports \cup {None} /\ None \notin Ports \cup Peers \cup Nat
  /\ R2Syn \in Nat /\ R2Data \in Nat /\ MaxSockets \in Nat /\ MaxStrays \in Nat

Conn == 0 .. NumConns - 1
Handle == Conn
Fd == 0 .. NumFds - 1

VARIABLES
  state,    \* tcp_conns[].state; "FREE" when used is false, "LAST_ACKED" for
            \* LAST_ACK with rto_deadline 0
  lport,    \* tcp_conns[].lport
  peer,     \* tcp_conns[].peer_ip and peer_port, None for 0.0.0.0 and 0
  accepted, \* the connections with accepted set
  backlog,  \* tcp_conns[].backlog
  attempts, \* tcp_conns[].rto_attempts
  type,     \* tcp_handles[].type
  conn,     \* tcp_handles[].tcp.conn
  fds,      \* the handle of a descriptor, or None
  sockets,  \* how often socket() was called
  strays    \* how many resets came from 0.0.0.0, port 0

files == <<type, conn, fds, sockets>>
vars == <<state, lport, peer, accepted, backlog, attempts, files, strays>>

\* The first element of a table that a loop over it finds.
Lowest(S) == {x \in S : \A y \in S : x <= y}

Pending(i, port) ==
  i \notin accepted /\ lport[i] = port /\ state[i] \in {"SYN_RECEIVED", "ESTABLISHED"}

tcp_pending_count(port) == Cardinality({i \in Conn : Pending(i, port)})

tcp_conn_find_listen(port) == {i \in Conn : state[i] = "LISTEN" /\ lport[i] = port}
FreeConns == {i \in Conn : state[i] = "FREE"}
FreeFds == {fd \in Fd : fds[fd] = None}

\* After net_init(): the kernel's listener has the first TCB and no handle.
Init ==
  LET k == IF KernelPort = None THEN {} ELSE {0}
  IN /\ state = [i \in Conn |-> IF i \in k THEN "LISTEN" ELSE "FREE"]
     /\ lport = [i \in Conn |-> IF i \in k THEN KernelPort ELSE None]
     /\ peer = [i \in Conn |-> None]
     /\ accepted = {}
     /\ backlog = [i \in Conn |-> IF i \in k THEN NumConns ELSE 0]
     /\ attempts = [i \in Conn |-> 0]
     /\ type = [h \in Handle |-> "CLOSED"]
     /\ conn = [h \in Handle |-> None]
     /\ fds = [fd \in Fd |-> None]
     /\ sockets = 0
     /\ strays = 0

-----------------------------------------------------------------------------
(* System calls.                                                           *)

\* The port in a TCB that is given up is read by the handle of a listener alone.
PortLeft(i) == IF type[i] = "LISTEN" THEN lport[i] ELSE None

\* The TCBs in S are given up: used = false.  What else they hold is dead.
Release(S) ==
  /\ state' = [i \in Conn |-> IF i \in S THEN "FREE" ELSE state[i]]
  /\ lport' = [i \in Conn |-> IF i \in S THEN PortLeft(i) ELSE lport[i]]
  /\ peer' = [i \in Conn |-> IF i \in S THEN None ELSE peer[i]]
  /\ accepted' = accepted \ S
  /\ backlog' = [i \in Conn |-> IF i \in S THEN 0 ELSE backlog[i]]
  /\ attempts' = [i \in Conn |-> IF i \in S THEN 0 ELSE attempts[i]]

\* Handle h is of type t for connection i; vfs_socket_install() gives it a descriptor.
Install(h, t, i) ==
  /\ \E fd \in Lowest(FreeFds) : fds' = [fds EXCEPT ![fd] = h]
  /\ type' = [type EXCEPT ![h] = t]
  /\ conn' = [conn EXCEPT ![h] = i]

\* Handle h is no longer of use, and fd is free when it is one.
Uninstall(h, fd) ==
  /\ type' = [type EXCEPT ![h] = "CLOSED"]
  /\ conn' = [conn EXCEPT ![h] = None]
  /\ fds' = [d \in Fd |-> IF d = fd THEN None ELSE fds[d]]

\* SYS_SOCKET: net_socket_open() takes the first free TCB and the handle with
\* the same index; without a descriptor net_socket_close() undoes both.
sys_socket ==
  \E i \in Lowest(FreeConns) :
    /\ sockets < MaxSockets
    /\ sockets' = sockets + 1
    /\ \/ /\ Install(i, "UNBOUND", i)
          /\ state' = [state EXCEPT ![i] = "CLOSED"]
       \/ /\ FreeFds = {}
          /\ Uninstall(i, None)
          /\ UNCHANGED state
    /\ lport' = [lport EXCEPT ![i] = None]
    /\ UNCHANGED <<peer, accepted, backlog, attempts, strays>>

\* net_socket_bind(): -98 when the port has a listener.  It does not look at
\* what has become of the TCB: a free one stays free, a connection is lost.
PortTaken_Never(port) == FALSE
PortTaken(port) == tcp_conn_find_listen(port) # {}

sys_bind(fd, port) ==
  LET h == fds[fd]
  IN /\ h # None
     /\ type[h] = "UNBOUND"
     /\ ~PortTaken(port)
     /\ state' = [state EXCEPT ![conn[h]] = IF @ = "FREE" THEN @ ELSE "LISTEN"]
     /\ lport' = [lport EXCEPT ![conn[h]] = port]
     /\ peer' = [peer EXCEPT ![conn[h]] = None]
     /\ accepted' = accepted \ {conn[h]}
     /\ backlog' = [backlog EXCEPT ![conn[h]] = 1]
     /\ attempts' = [attempts EXCEPT ![conn[h]] = 0]
     /\ type' = [type EXCEPT ![h] = "LISTEN"]
     /\ UNCHANGED <<conn, fds, sockets, strays>>

\* tcp_set_backlog()
sys_listen(fd, n) ==
  LET h == fds[fd]
  IN /\ h # None
     /\ type[h] = "LISTEN"
     /\ backlog' = [backlog EXCEPT ![conn[h]] = n]
     /\ UNCHANGED <<state, lport, peer, accepted, attempts, files, strays>>

\* SYS_ACCEPT: the first established connection of the port gets the first
\* closed handle; without a descriptor tcp_abort_socket() drops it.
sys_accept(fd) ==
  LET s == fds[fd]
      ready == {i \in Conn : Pending(i, lport[conn[s]]) /\ state[i] = "ESTABLISHED"}
      closed == {h \in Handle : type[h] = "CLOSED"}
  IN /\ s # None
     /\ type[s] = "LISTEN"
     /\ \E c \in Lowest(ready), h \in Lowest(closed) :
          \/ /\ Install(h, "ESTAB", c)
             /\ accepted' = accepted \cup {c}
             /\ UNCHANGED <<state, lport, peer, backlog, attempts>>
          \/ /\ FreeFds = {}
             /\ Release({c})
             /\ Uninstall(h, None)
     /\ UNCHANGED <<sockets, strays>>

tcp_close_NoFin(c) == UNCHANGED <<state, attempts, accepted, lport, peer, backlog>>

\* tcp_close() of connection c: FIN is sent from ESTABLISHED; the model has no
\* CLOSE_WAIT, which tcp_handle() leaves in the step in which it enters it.
tcp_close(c) ==
  /\ state' = [state EXCEPT ![c] = IF @ = "ESTABLISHED" THEN "FIN_WAIT_1" ELSE @]
  /\ attempts' = [attempts EXCEPT ![c] = IF state[c] = "ESTABLISHED" THEN 0 ELSE @]
  /\ accepted' = accepted \ {c}
  /\ UNCHANGED <<lport, peer, backlog>>

\* The connections that go with listener c: itself and those of tcp_drop_pending().
Dropped_Half(c) == {c} \cup {i \in Conn : Pending(i, lport[c]) /\ state[i] = "SYN_RECEIVED"}
Dropped(c) == {c} \cup {i \in Conn : Pending(i, lport[c])}

\* SYS_CLOSE: net_socket_close() by the type of the handle.  A handle that is
\* closed already keeps its descriptor (-9).
sys_close(fd) ==
  LET h == fds[fd]
  IN /\ h # None
     /\ type[h] # "CLOSED"
     /\ \/ type[h] = "ESTAB" /\ tcp_close(conn[h])
        \/ type[h] = "UNBOUND" /\ Release({conn[h]})
        \/ type[h] = "LISTEN" /\ Release(Dropped(conn[h]))
     /\ Uninstall(h, fd)
     /\ UNCHANGED <<sockets, strays>>

-----------------------------------------------------------------------------
(* tcp_handle(): a segment of peer p for the local port.                   *)

\* tcp_conn_find_peer(): by the remote side alone, whatever the state is.
tcp_conn_find_peer(p) == {i \in Conn : state[i] # "FREE" /\ peer[i] = p}

Closing == {"FIN_WAIT_1", "FIN_WAIT_2", "CLOSING", "LAST_ACK", "LAST_ACKED", "TIME_WAIT"}

\* A SYN to port is welcome: there is a listener, and its queue is not full.
Welcome_OffByOne(port) ==
  \E l \in tcp_conn_find_listen(port) : tcp_pending_count(port) <= backlog[l]
Welcome(port) ==
  \E l \in tcp_conn_find_listen(port) : tcp_pending_count(port) < backlog[l]

\* The SYN of p takes TCB i over.
NewConn(i, p, port) ==
  /\ lport' = [lport EXCEPT ![i] = port]
  /\ peer' = [peer EXCEPT ![i] = p]
  /\ accepted' = accepted \ {i}
  /\ attempts' = [attempts EXCEPT ![i] = 0]

\* A SYN while no TCB is of p.
tcp_handle_syn(p, port) ==
  \E i \in Lowest(FreeConns) :
    /\ tcp_conn_find_peer(p) = {}
    /\ Welcome(port)
    /\ NewConn(i, p, port)
    /\ state' = [state EXCEPT ![i] = "SYN_RECEIVED"]
    /\ UNCHANGED <<backlog, files, strays>>

\* A SYN for an old incarnation that is closing: its TCB is given up first, and
\* is then free for this SYN, unless there is no listener or its queue is full.
tcp_handle_recycle(p, port) ==
  \E c \in tcp_conn_find_peer(p) :
    /\ state[c] \in Closing
    /\ \/ ~Welcome(port) /\ Release({c})
       \/ \E i \in Lowest(FreeConns \cup {c}) :
            /\ Welcome(port)
            /\ state' = [state EXCEPT ![c] = "FREE", ![i] = "SYN_RECEIVED"]
            /\ lport' = [lport EXCEPT ![c] = PortLeft(c), ![i] = port]
            /\ peer' = [peer EXCEPT ![c] = None, ![i] = p]
            /\ accepted' = accepted \ {c, i}
            /\ attempts' = [attempts EXCEPT ![c] = 0, ![i] = 0]
            /\ UNCHANGED backlog
    /\ UNCHANGED <<files, strays>>

\* The same SYN again: the SYN-ACK is repeated and its timer starts anew.
tcp_handle_dup_syn(c) ==
  /\ state[c] = "SYN_RECEIVED"
  /\ attempts' = [attempts EXCEPT ![c] = 0]
  /\ UNCHANGED <<state, lport, peer, accepted, backlog, files, strays>>

\* RST with the expected sequence number.
tcp_handle_rst(c) ==
  /\ peer[c] # None
  /\ Release({c})
  /\ UNCHANGED <<files, strays>>

\* The same from 0.0.0.0, port 0, which is what the TCB of a listener or of a
\* socket that has yet to be bound holds for a peer: the first of them is given
\* up, and the handle is not told.  Every other segment from there is dropped.
tcp_handle_stray ==
  \E c \in Lowest(tcp_conn_find_peer(None)) :
    /\ strays < MaxStrays
    /\ strays' = strays + 1
    /\ Release({c})
    /\ UNCHANGED files

\* The state after a segment without SYN or RST: acks, it acknowledges all that
\* was sent; fin, it is the FIN in sequence, or in LAST_ACK the same FIN again,
\* for which tcp_handle() returns with the timer off.
AfterSegment(s, acks, fin) ==
  CASE s = "SYN_RECEIVED" /\ acks -> "ESTABLISHED"
    [] s = "ESTABLISHED" /\ fin -> "LAST_ACK"
    [] s = "FIN_WAIT_1" /\ acks /\ fin -> "TIME_WAIT"
    [] s = "FIN_WAIT_1" /\ ~acks /\ fin -> "CLOSING"
    [] s = "FIN_WAIT_1" /\ acks /\ ~fin -> "FIN_WAIT_2"
    [] s = "FIN_WAIT_2" /\ fin -> "TIME_WAIT"
    [] s = "CLOSING" /\ (acks \/ fin) -> "TIME_WAIT"
    [] s \in {"LAST_ACK", "LAST_ACKED"} /\ acks -> IF fin THEN "LAST_ACKED" ELSE "FREE"
    [] OTHER -> s

\* A segment that changes the state of connection c.  An acknowledgement of all
\* that was sent, and the own FIN, start the count of retransmissions anew.
tcp_handle_segment(c, acks, fin) ==
  LET s == AfterSegment(state[c], acks, fin)
  IN /\ peer[c] # None
     /\ s # state[c]
     /\ \/ s = "FREE" /\ Release({c})
        \/ /\ s # "FREE"
           /\ state' = [state EXCEPT ![c] = s]
           /\ attempts' = [attempts EXCEPT ![c] = IF acks \/ s = "LAST_ACK" THEN 0 ELSE @]
           /\ UNCHANGED <<lport, peer, accepted, backlog>>
     /\ UNCHANGED <<files, strays>>

-----------------------------------------------------------------------------
(* tcp_tick()                                                              *)

R2(c) == IF state[c] = "SYN_RECEIVED" THEN R2Syn ELSE R2Data

tcp_rto_retry_Uncounted(c) == attempts[c]
tcp_rto_retry(c) == attempts[c] + 1

\* A timer of connection c runs out: TIME_WAIT ends, the SYN-ACK or the FIN is
\* sent again, or the connection is given up.  Data of an established
\* connection that is never acknowledged comes to the same end.
tcp_tick(c) ==
  /\ \/ state[c] = "TIME_WAIT" /\ Release({c})
     \/ /\ state[c] \in {"SYN_RECEIVED", "FIN_WAIT_1", "CLOSING", "LAST_ACK"}
        /\ attempts[c] < R2(c)
        /\ attempts' = [attempts EXCEPT ![c] = tcp_rto_retry(c)]
        /\ UNCHANGED <<state, lport, peer, accepted, backlog>>
     \/ /\ state[c] \in {"SYN_RECEIVED", "FIN_WAIT_1", "CLOSING", "LAST_ACK"}
        /\ attempts[c] >= R2(c)
        /\ Release({c})
  /\ UNCHANGED <<files, strays>>

tcp_give_up(c) ==
  /\ state[c] = "ESTABLISHED"
  /\ Release({c})
  /\ UNCHANGED <<files, strays>>

\* The test service of the kernel's port closes its connections by itself.
tcp_tick_close(c) ==
  /\ state[c] = "ESTABLISHED"
  /\ lport[c] = KernelPort
  /\ tcp_close(c)
  /\ UNCHANGED <<files, strays>>

Next ==
  \/ sys_socket
  \/ \E fd \in Fd :
       \/ \E port \in Ports : sys_bind(fd, port)
       \/ \E n \in 1 .. NumConns : sys_listen(fd, n)
       \/ sys_accept(fd)
       \/ sys_close(fd)
  \/ \E p \in Peers, port \in Ports : tcp_handle_syn(p, port) \/ tcp_handle_recycle(p, port)
  \/ \E c \in Conn :
       \/ tcp_handle_dup_syn(c)
       \/ tcp_handle_rst(c)
       \/ \E acks, fin \in BOOLEAN : tcp_handle_segment(c, acks, fin)
       \/ tcp_tick(c)
       \/ tcp_give_up(c)
       \/ tcp_tick_close(c)
  \/ tcp_handle_stray

Spec == Init /\ [][Next]_vars

\* tcp_tick() runs on every timer interrupt, over the whole table.
FairSpec == Spec /\ \A c \in Conn : WF_vars(tcp_tick(c))

-----------------------------------------------------------------------------
(* Properties.                                                             *)

\* The tables stay within their types: every pointer of a handle or descriptor
\* is null or an element of its table.
TypeOK ==
  /\ state \in [Conn -> {"FREE", "CLOSED", "LISTEN", "SYN_RECEIVED", "ESTABLISHED"} \cup Closing]
  /\ lport \in [Conn -> Ports \cup {None}]
  /\ peer \in [Conn -> Peers \cup {None}]
  /\ accepted \subseteq Conn
  /\ backlog \in [Conn -> 0 .. NumConns]
  /\ attempts \in [Conn -> Nat]
  /\ type \in [Handle -> {"CLOSED", "UNBOUND", "LISTEN", "ESTAB"}]
  /\ conn \in [Handle -> Conn \cup {None}]
  /\ fds \in [Fd -> Handle \cup {None}]
  /\ sockets \in Nat /\ strays \in Nat

\* A port has one listener (net_socket_bind, the EADDRINUSE check), and the
\* TCB of a listener, the kernel's included, or of a socket that has yet to be
\* bound stays what it is until its own handle is closed, whatever stale
\* handles, recycled TCBs and closed connections do to the table.  The one
\* exception is a reset from 0.0.0.0, port 0, which tcp_conn_find_peer() takes
\* for a segment of such a TCB.
OneListener ==
  \A i, j \in Conn :
    state[i] = "LISTEN" /\ state[j] = "LISTEN" /\ lport[i] = lport[j] => i = j
ListenerStep ==
  /\ OneListener'
  /\ \A i \in Conn :
       state[i] \in {"LISTEN", "CLOSED"} =>
         \/ state'[i] \in {state[i], "LISTEN"} /\ (state[i] = "LISTEN" => lport'[i] = lport[i])
         \/ type[i] \in {"LISTEN", "UNBOUND"} /\ type'[i] = "CLOSED"
         \/ strays' # strays
ListenersKept == [][ListenerStep]_vars

\* A connection that waits for accept has a listener that can still accept it:
\* closing the listener takes all of them with it (tcp_drop_pending), and no
\* later segment or stale handle brings one back.  Only a reset from 0.0.0.0,
\* port 0 takes a listener and leaves them behind.
Orphaned(port) == tcp_conn_find_listen(port) = {} /\ \E i \in Conn : Pending(i, port)
PendingStep == \A port \in Ports : Orphaned(port)' => Orphaned(port) \/ strays' # strays
PendingHasListener == [][PendingStep]_vars

\* An accepted connection that is still established has a handle with a
\* descriptor, so that it can be closed, even after aborted accepts and recycled
\* TCBs.  The one call that may take it away is socket(), which overwrites the
\* handle of the TCB that it found (net_socket_open), in use or not.
Held(c) == \E fd \in Fd : fds[fd] # None /\ type[fds[fd]] = "ESTAB" /\ conn[fds[fd]] = c
AcceptedStep ==
  \A c \in accepted' :
    state'[c] = "ESTABLISHED" =>
      Held(c)' \/ (c \in accepted /\ ~Held(c)) \/ sockets' # sockets
AcceptedHeld == [][AcceptedStep]_vars

\* No SYN takes the connections that wait for accept past the backlog of their
\* listener (tcp_handle, "accept queue full"), although a backlog may be
\* lowered below the number already waiting.
BacklogStep ==
  \A port \in Ports, l \in Conn :
    /\ state[l] = "LISTEN" /\ lport[l] = port
    /\ tcp_pending_count(port)' > tcp_pending_count(port)
    => tcp_pending_count(port)' <= backlog[l]
BacklogKept == [][BacklogStep]_vars

\* A connection that is being set up or torn down leaves that state, by the
\* peer or by the timers of tcp_tick(), unless the peer repeats its SYN for ever.
\* FIN_WAIT_2 and LAST_ACKED are not among these states: there no timer runs, and
\* the TCB is in use until the peer sends a FIN, an ACK, a RST or a new SYN.
Timed == {"SYN_RECEIVED", "FIN_WAIT_1", "CLOSING", "LAST_ACK", "TIME_WAIT"}
TimedEnds(c) ==
  \/ []<><<state[c] = "SYN_RECEIVED" /\ attempts[c] > attempts'[c]>>_vars
  \/ state[c] \in Timed ~> state[c] \notin Timed

=============================================================================
