-------------------------------- MODULE Net --------------------------------
(***************************************************************************)
(* The link to the uplink: the main loop's attempts to connect, the two    *)
(* buffers of the socket, the handshake, the loss of the link and what     *)
(* happens to the tree of servers.  The network behind the uplink changes  *)
(* all the time, whether the services are linked or not.                   *)
(*                                                                         *)
(* Operators ending in _slip are faulty variants, used by no specification *)
(* (README, "What the properties can see").                                *)
(***************************************************************************)
EXTENDS Naturals, FiniteSets, SequencesExt

CONSTANTS
  Hub,        \* the uplink; its name and its SID are one value
  Leaves,     \* the other servers of the network
  None,       \* no server, no line
  SendQSize,  \* SENDQSIZE, in lines
  MaxWire,    \* bound: lines under way when the network goes on changing
  MaxBreaks,  \* bound: losses of the link and signals
  MaxRetries, \* MAX_RECO_ATTEMPTS
  Race        \* whether SIGUSR2 may come between a connection made and the timer cleared

ASSUME NetBounds == {SendQSize, MaxWire, MaxBreaks, MaxRetries} \subseteq Nat /\ Race \in BOOLEAN
ASSUME NetFinite == IsFiniteSet(Leaves)
ASSUME NetNames == Hub \notin Leaves /\ None \notin Leaves \cup {Hub}

VARIABLES
  up,        \* whether the process runs
  connected, \* core->connected; net->fd is open
  timer,     \* next_connect_time: unset, in the future, due, or due and about to be cleared
  retries,   \* connect_retries
  outq,      \* the output buffer
  partial,   \* the first part of a line, the rest of which is not read yet
  eos,       \* core->eos
  rserver,   \* remote_server
  rsid,      \* remote_sid
  servers,   \* the services' servers
  listening, \* whether the uplink accepts connections
  link,      \* what the uplink thinks of the services' connection
  inq,       \* lines the uplink sent and the services have not read
  topo,      \* the network: leaf -> the server behind which it is, or None
  breaks     \* losses and signals so far

service == <<up, connected, timer, retries, outq, partial, eos, rserver, rsid, servers>>
network == <<listening, link, inq, topo, breaks>>
vars == <<service, network>>

Names == Leaves \cup {Hub}

Server == [name : Names, hub : Names \cup {None}]

Line == [cmd : {"PROTOCTL", "SERVER", "NETINFO"}, name : {Hub}, from : {None}]
        \cup [cmd : {"SID"}, name : Leaves, from : Names]
        \cup [cmd : {"SQUIT"}, name : Leaves, from : {None}]

ASSUME NetLines == None \notin Line

FromHub(c) == [cmd |-> c, name |-> Hub, from |-> None]

\* Stands for the second part of the line that is in partial.
Rest == [cmd |-> "REST", name |-> None, from |-> None]

Handshake == <<"PASS", "SERVER", "other", "EOS">>

TypeOK ==
  /\ {up, connected, eos, listening} \subseteq BOOLEAN
  /\ timer \in {"unset", "waiting", "due", "clearing"} /\ retries \in 0 .. MaxRetries
  /\ Range(outq) \subseteq Range(Handshake) /\ Len(outq) <= SendQSize
  /\ partial \in Line \cup {None}
  /\ {rserver, rsid} \subseteq {Hub, None}
  /\ servers \subseteq Server
  /\ link \in {"none", "accepted", "passed", "linked", "broken"}
  /\ Range(inq) \subseteq Line \cup {Rest}
  /\ topo \in [Leaves -> Names \cup {None}]
  /\ breaks \in 0 .. MaxBreaks

-----------------------------------------------------------------------------
(* The server tree *)

\* Whether there is a server called x, by its name or its SID.
find_server(x) == \E s \in servers : s.name = x

\* x and the servers behind it.
Behind_slip(x, S) == {s \in S : s.name = x \/ s.hub = x}   \* one level only

\* S has with a server those that name it as their hub, and x itself.
Closed(x, S, T) == \A s \in S : s.name = x \/ (\E t \in T : s.hub = t.name) => s \in T

Behind(x, S) == {s \in S : \A T \in SUBSET S : Closed(x, S, T) => s \in T}

detach_server_recursive(x) == servers \ Behind(x, servers)

-----------------------------------------------------------------------------
(* The buffers *)

\* The output buffer after lines were queued: what does not fit is dropped, line by line.
Queued(q, lines) ==
  LET all == q \o lines IN IF Len(all) > SendQSize THEN SubSeq(all, 1, SendQSize) ELSE all

\* net_init; the _slip keeps what is queued.
net_init_slip == partial' = None /\ UNCHANGED outq

net_init == outq' = <<>> /\ partial' = None

\* The link is closed.  graceful only sends a last SQUIT, which ends the link as
\* the close does.
net_disconnect ==
  /\ connected' = FALSE /\ eos' = FALSE
  /\ servers' = detach_server_recursive(rserver)
  /\ net_init
  /\ link' = "none" /\ inq' = <<>>
  /\ UNCHANGED <<rserver, rsid, listening, topo>>

-----------------------------------------------------------------------------
(* The main loop *)

\* The loop is not between net_connect and timerclear.
Running == up /\ timer # "clearing"

ConnectTimer == Running /\ timer = "waiting" /\ timer' = "due"
                /\ UNCHANGED <<up, connected, retries, outq, partial, eos, rserver, rsid, servers, network>>

\* net_connect comes back: the handshake is queued behind whatever is in the buffer.
\* Nobody looks whether there is a connection already (AttemptsWhileApart).
Connect ==
  /\ Running /\ timer = "due" /\ listening
  /\ outq' = Queued(outq, Handshake)
  /\ connected' = TRUE /\ retries' = 0 /\ timer' = "clearing" /\ link' = "accepted"
  /\ UNCHANGED <<up, partial, eos, rserver, rsid, servers, listening, inq, topo, breaks>>

\* The timer is left as it was.
TimerClear_slip == up /\ timer = "clearing" /\ timer' = "due"
                   /\ UNCHANGED <<up, connected, retries, outq, partial, eos, rserver, rsid, servers, network>>

TimerClear == up /\ timer = "clearing" /\ timer' = "unset"
              /\ UNCHANGED <<up, connected, retries, outq, partial, eos, rserver, rsid, servers, network>>

\* net_connect fails: again later, or the process saves and ends.
GivesUp(n) == n > MaxRetries

ConnectFails ==
  /\ Running /\ timer = "due" /\ ~listening
  /\ IF GivesUp(retries + 1) THEN up' = FALSE /\ UNCHANGED <<retries, timer>>
     ELSE retries' = retries + 1 /\ timer' = "waiting" /\ UNCHANGED up
  /\ UNCHANGED <<connected, outq, partial, eos, rserver, rsid, servers, network>>

\* net_poll or one of its calls fails.
PollError ==
  /\ Running /\ connected /\ link = "broken"
  /\ net_disconnect /\ timer' = "due" /\ UNCHANGED <<up, retries, breaks>>

\* Any signal that comes during poll() is such a failure.
PollInterrupted ==
  /\ Running /\ connected /\ breaks < MaxBreaks
  /\ net_disconnect /\ timer' = "due" /\ breaks' = breaks + 1 /\ UNCHANGED <<up, retries>>

\* SIGUSR2, whether connected or not.  The timer set here is lost when the loop
\* is about to clear it.
SIGUSR2 ==
  /\ up /\ breaks < MaxBreaks /\ (timer = "clearing" => Race)
  /\ net_disconnect
  /\ timer' = IF timer = "clearing" THEN timer ELSE "due"
  /\ breaks' = breaks + 1 /\ UNCHANGED <<up, retries>>

\* The periodic checks and the commands queue lines, connected or not.  A turn
\* that has an attempt due does not come so far.
Checks ==
  /\ Running /\ timer # "due" /\ Len(outq) < SendQSize
  /\ outq' = Queued(outq, <<"other">>)
  /\ UNCHANGED <<up, connected, timer, retries, partial, eos, rserver, rsid, servers, network>>

-----------------------------------------------------------------------------
(* Lines from the uplink *)

m_protoctl ==
  /\ rsid' = Hub
  /\ servers' = servers \cup {[name |-> s, hub |-> None] : s \in {r \in {rserver} : r # None /\ ~find_server(r)}}
  /\ outq' = Queued(outq, <<"other">>)   \* loadallfakes
  /\ UNCHANGED <<eos, rserver>>

m_server ==
  /\ rserver' = Hub
  /\ servers' = servers \cup {[name |-> Hub, hub |-> None] : s \in {r \in {rsid} : r # None /\ ~find_server(r)}}
  /\ UNCHANGED <<eos, outq, rsid>>

\* The _slip hangs every server below the uplink.
m_sid_slip(line) ==
  /\ servers' = IF find_server(line.from) /\ ~find_server(line.name)
                THEN servers \cup {[name |-> line.name, hub |-> rserver]} ELSE servers
  /\ UNCHANGED <<eos, outq, rserver, rsid>>

m_sid(line) ==
  /\ servers' = IF find_server(line.from) /\ ~find_server(line.name)
                THEN servers \cup {[name |-> line.name, hub |-> line.from]} ELSE servers
  /\ UNCHANGED <<eos, outq, rserver, rsid>>

m_squit(line) ==
  servers' = detach_server_recursive(line.name) /\ UNCHANGED <<eos, outq, rserver, rsid>>

m_eos ==
  /\ eos' = TRUE
  /\ outq' = IF eos THEN outq ELSE Queued(outq, <<"other">>)   \* joinallchans
  /\ UNCHANGED <<servers, rserver, rsid>>

parse_line(line) ==
  \/ line.cmd = "PROTOCTL" /\ m_protoctl
  \/ line.cmd = "SERVER" /\ m_server
  \/ line.cmd = "SID" /\ m_sid(line)
  \/ line.cmd = "SQUIT" /\ m_squit(line)
  \/ line.cmd = "NETINFO" /\ m_eos

\* A chunk is read that ends in the middle of a line.
ReadPart ==
  /\ Running /\ connected /\ inq # <<>> /\ Head(inq) # Rest
  /\ partial' = Head(inq) /\ inq' = <<Rest>> \o Tail(inq)
  /\ UNCHANGED <<up, connected, timer, retries, outq, eos, rserver, rsid, servers, listening, link, topo, breaks>>

\* A line is complete and handled; one without the part before it is not a line.
ReadLine ==
  /\ Running /\ connected /\ inq # <<>>
  /\ inq' = Tail(inq) /\ partial' = None
  /\ CASE partial = None /\ Head(inq) # Rest -> parse_line(Head(inq))
       [] partial # None /\ Head(inq) = Rest -> parse_line(partial)
       [] OTHER -> UNCHANGED <<outq, eos, rserver, rsid, servers>>
  /\ UNCHANGED <<up, connected, timer, retries, listening, link, topo, breaks>>

-----------------------------------------------------------------------------
(* The uplink and the network behind it *)

InNetwork == {l \in Leaves : topo[l] # None}

\* The uplink tells of its servers, each after the one it is behind.
Bursts ==
  {<<FromHub("PROTOCTL"), FromHub("SERVER")>>
     \o [i \in DOMAIN o |-> [cmd |-> "SID", name |-> o[i], from |-> topo[o[i]]]]
     \o <<FromHub("NETINFO")>> :
   o \in {p \in SetToSeqs(InNetwork) :
            \A i \in DOMAIN p : topo[p[i]] = Hub \/ \E j \in 1 .. i - 1 : p[j] = topo[p[i]]}}

\* The uplink reads one line; before PASS and SERVER it takes no other.
Flush ==
  /\ up /\ connected /\ outq # <<>> /\ link # "broken"
  /\ outq' = Tail(outq)
  /\ CASE link = "accepted" /\ Head(outq) = "PASS" -> link' = "passed" /\ UNCHANGED inq
       [] link = "passed" /\ Head(outq) = "SERVER" -> link' = "linked" /\ inq' \in Bursts
       [] OTHER -> UNCHANGED <<link, inq>>
  /\ UNCHANGED <<up, connected, timer, retries, partial, eos, rserver, rsid, servers, listening, topo, breaks>>

\* The uplink closes a connection that does not say who it is.
HandshakeTimeout ==
  /\ \/ link = "accepted" /\ "PASS" \notin Range(outq)
     \/ link = "passed" /\ "SERVER" \notin Range(outq)
  /\ link' = "broken" /\ UNCHANGED <<service, listening, inq, topo, breaks>>

\* The link is lost with a part of what was on its way; the uplink may be gone.
Break ==
  /\ breaks < MaxBreaks /\ listening /\ breaks' = breaks + 1
  /\ listening' \in BOOLEAN
  /\ link' = IF link = "none" THEN link ELSE "broken"
  /\ \E n \in 0 .. Len(inq) : inq' = SubSeq(inq, 1, n)
  /\ UNCHANGED <<service, topo>>

UplinkBack == ~listening /\ listening' = TRUE /\ UNCHANGED <<service, link, inq, topo, breaks>>

Tell(line) == inq' = IF link = "linked" THEN Append(inq, line) ELSE inq

NetLink(l, x) ==
  /\ topo[l] = None /\ x \in InNetwork \cup {Hub} /\ Len(inq) < MaxWire
  /\ topo' = [topo EXCEPT ![l] = x]
  /\ Tell([cmd |-> "SID", name |-> l, from |-> x])
  /\ UNCHANGED <<service, listening, link, breaks>>

\* A server leaves with all behind it; the uplink names only the first.
NetSplit(l) ==
  /\ topo[l] # None /\ Len(inq) < MaxWire
  /\ LET gone == {s.name : s \in Behind(l, {[name |-> k, hub |-> topo[k]] : k \in InNetwork})}
     IN topo' = [k \in Leaves |-> IF k \in gone THEN None ELSE topo[k]]
  /\ Tell([cmd |-> "SQUIT", name |-> l, from |-> None])
  /\ UNCHANGED <<service, listening, link, breaks>>

-----------------------------------------------------------------------------

\* The process has made its first connection.
Init ==
  /\ up = TRUE /\ connected = TRUE /\ timer = "unset" /\ retries = 0
  /\ outq = Queued(<<>>, Handshake) /\ partial = None /\ eos = FALSE
  /\ rserver = None /\ rsid = None /\ servers = {}
  /\ listening = TRUE /\ link = "accepted" /\ inq = <<>>
  /\ topo = [l \in Leaves |-> None] /\ breaks = 0

Loop == ConnectTimer \/ Connect \/ TimerClear \/ ConnectFails \/ PollError \/ ReadPart \/ ReadLine \/ Checks

Environment ==
  \/ Flush \/ HandshakeTimeout \/ PollInterrupted \/ SIGUSR2 \/ Break \/ UplinkBack
  \/ \E l \in Leaves : NetSplit(l) \/ \E x \in Names : NetLink(l, x)

Next == Loop \/ Environment

Spec == Init /\ [][Next]_vars

\* The loop goes on turning; an open connection delivers, and the uplink closes
\* one that never names itself.
FairSpec ==
  /\ Spec
  /\ WF_vars(ConnectTimer) /\ WF_vars(Connect \/ ConnectFails) /\ WF_vars(TimerClear)
  /\ WF_vars(PollError) /\ WF_vars(ReadLine) /\ WF_vars(Flush) /\ WF_vars(HandshakeTimeout)

-----------------------------------------------------------------------------
(* Properties *)

\* Servers hang together: all but the uplink are behind one the services know,
\* and none outlives the connection that told of it (net_disconnect).
OneTree ==
  /\ \A s \in servers : IF s.name = Hub THEN s.hub = None ELSE find_server(s.hub)
  /\ ~connected => servers = {} /\ ~eos /\ partial = None

\* With the burst over and every line read, the services' tree is the network's,
\* whatever happened on the connections before (m_sid, m_squit, cleanup_reconnect).
TreesAgreeAtRest ==
  link = "linked" /\ eos /\ inq = <<>> /\ partial = None =>
    servers = {[name |-> Hub, hub |-> None]} \cup {[name |-> l, hub |-> topo[l]] : l \in InNetwork}

\* An attempt to connect is never made over an open connection, and as long as
\* there is none an attempt is coming, whoever closed it and when
\* (child_run_loop_once and sighandler share next_connect_time).
AttemptsWhileApart ==
  /\ connected => timer \in {"unset", "clearing"}
  /\ ~Race /\ ~connected => timer \in {"waiting", "due"}

\* A process that lost its link is linked again with the burst over, or ends
\* (child_run_loop_once).
Reconnects == (up /\ ~connected) ~> (~up \/ eos)

=============================================================================
