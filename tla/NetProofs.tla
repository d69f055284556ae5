----------------------------- MODULE NetProofs -----------------------------
(***************************************************************************)
(* Proofs about Net, for any finite set of servers and any bounds: every   *)
(* variable keeps its type, the services' servers are one tree that goes   *)
(* with the link, attempts to connect are made exactly while there is no   *)
(* connection, and with everything read the tree is the network's.         *)
(***************************************************************************)
EXTENDS Net, FiniteSetTheorems, TLAPS

-----------------------------------------------------------------------------
(* Servers behind a server *)

\* The servers behind one are closed, and the least such set.
LEMMA BehindClosed ==
  ASSUME NEW x, NEW S
  PROVE  Behind(x, S) \subseteq S /\ Closed(x, S, Behind(x, S))
  BY DEF Behind, Closed

LEMMA BehindLeast ==
  ASSUME NEW x, NEW S, NEW T \in SUBSET S, Closed(x, S, T)
  PROVE  Behind(x, S) \subseteq T
  BY DEF Behind

\* All of S hang together below the uplink.
Rooted(S) == Behind(Hub, S) = S

\* Who hangs together still does with one more below them, and with any of them gone.
LEMMA RootedAdd ==
  ASSUME NEW S, Rooted(S), NEW s, s.name = Hub \/ \E t \in S : t.name = s.hub
  PROVE  Rooted(S \cup {s})
<1>1. PICK R : R = S \cup {s}
  OBVIOUS
<1>2. ASSUME NEW T \in SUBSET R, Closed(Hub, R, T) PROVE R \subseteq T
  <2>1. T \cap S \in SUBSET S /\ Closed(Hub, S, T \cap S)
    BY <1>1, <1>2 DEF Closed
  <2>2. S \subseteq T
    BY <2>1, BehindLeast DEF Rooted
  <2>3. s \in T
    BY <1>1, <1>2, <2>2 DEF Closed
  <2> QED BY <1>1, <2>2, <2>3
<1>3. Behind(Hub, R) = R
  BY <1>2, BehindClosed
<1> QED BY <1>1, <1>3 DEF Rooted

LEMMA RootedDetach ==
  ASSUME NEW S, Rooted(S), NEW x
  PROVE  Rooted(S \ Behind(x, S))
<1>1. PICK R, B : B = Behind(x, S) /\ R = S \ B
  OBVIOUS
<1>2. ASSUME NEW T \in SUBSET R, Closed(Hub, R, T) PROVE R \subseteq T
  <2>1. T \cup B \in SUBSET S
    BY <1>1, BehindClosed
  <2>2. Closed(x, S, B)
    BY <1>1, BehindClosed
  <2>3. Closed(Hub, S, T \cup B)
    BY <1>1, <1>2, <2>2 DEF Closed
  <2>4. S \subseteq T \cup B
    BY <2>1, <2>3, BehindLeast DEF Rooted
  <2> QED BY <1>1, <2>4
<1>3. Behind(Hub, R) = R
  BY <1>2, BehindClosed
<1> QED BY <1>1, <1>3 DEF Rooted

\* Only the uplink has no server it is behind.
Hung(S) == \A s \in S : IF s.name = Hub THEN s.hub = None ELSE \E t \in S : t.name = s.hub

LEMMA HungDetach ==
  ASSUME NEW S, Hung(S), NEW x
  PROVE  Hung(S \ Behind(x, S))
<1>1. Closed(x, S, Behind(x, S))
  BY BehindClosed
<1> QED BY <1>1 DEF Hung, Closed

-----------------------------------------------------------------------------
(* Types *)

ServiceType ==
  /\ {up, connected, eos} \subseteq BOOLEAN
  /\ timer \in {"unset", "waiting", "due", "clearing"} /\ retries \in 0 .. MaxRetries
  /\ outq \in Seq(Range(Handshake)) /\ Len(outq) <= SendQSize
  /\ partial \in Line \cup {None}
  /\ {rserver, rsid} \subseteq {Hub, None}
  /\ servers \subseteq Server

NetworkType ==
  /\ listening \in BOOLEAN
  /\ link \in {"none", "accepted", "passed", "linked", "broken"}
  /\ inq \in Seq(Line \cup {Rest})
  /\ topo \in [Leaves -> Names \cup {None}]
  /\ breaks \in 0 .. MaxBreaks

TypeInv == ServiceType /\ NetworkType

LEMMA Bounds ==
  /\ SendQSize \in Nat /\ MaxBreaks \in Nat /\ MaxRetries \in Nat
  /\ Hub \notin Leaves /\ None \notin Names /\ Race \in BOOLEAN
  BY NetBounds, NetNames DEF Names

\* The lines there are, and what each says.
LEMMA Lines ==
  /\ \A c \in {"PROTOCTL", "SERVER", "NETINFO"} : FromHub(c) \in Line
  /\ \A l \in Leaves : [cmd |-> "SQUIT", name |-> l, from |-> None] \in Line
  /\ \A l \in Leaves, x \in Names : [cmd |-> "SID", name |-> l, from |-> x] \in Line
  /\ \A l \in Line :
       \/ l.cmd \in {"PROTOCTL", "SERVER", "NETINFO"} /\ l = FromHub(l.cmd)
       \/ l.cmd = "SID" /\ l.name \in Leaves /\ l.from \in Names
       \/ l.cmd = "SQUIT" /\ l.name \in Leaves
  /\ Rest \notin Line
  BY DEF Line, FromHub, Rest

LEMMA HandshakeRange ==
  /\ Range(Handshake) = {"PASS", "SERVER", "other", "EOS"}
  /\ Handshake \in Seq(Range(Handshake)) /\ <<"other">> \in Seq(Range(Handshake))
<1>1. /\ DOMAIN Handshake = 1 .. 4 /\ Handshake \in Seq({"PASS", "SERVER", "other", "EOS"})
      /\ Handshake[1] = "PASS" /\ Handshake[2] = "SERVER" /\ Handshake[3] = "other" /\ Handshake[4] = "EOS"
  BY DEF Handshake
<1>2. Range(Handshake) = {"PASS", "SERVER", "other", "EOS"}
  BY <1>1 DEF Range
<1> QED BY <1>1, <1>2

\* The buffer is never longer than SENDQSIZE.
LEMMA QueuedType ==
  ASSUME NEW q \in Seq(Range(Handshake)), Len(q) <= SendQSize, NEW lines \in Seq(Range(Handshake))
  PROVE  Queued(q, lines) \in Seq(Range(Handshake)) /\ Len(Queued(q, lines)) <= SendQSize
<1>1. PICK all : all = q \o lines
  OBVIOUS
<1>2. all \in Seq(Range(Handshake)) /\ Len(all) \in Nat /\ SendQSize \in Nat
  BY <1>1, Bounds
<1>3. CASE Len(all) > SendQSize
  <2>1. SubSeq(all, 1, SendQSize) \in Seq(Range(Handshake)) /\ Len(SubSeq(all, 1, SendQSize)) = SendQSize
    BY <1>2, <1>3
  <2> QED BY <1>1, <1>2, <1>3, <2>1 DEF Queued
<1>4. CASE ~(Len(all) > SendQSize)
  BY <1>1, <1>2, <1>4 DEF Queued
<1> QED BY <1>3, <1>4

LEMMA DetachType ==
  ASSUME TypeInv, NEW x PROVE detach_server_recursive(x) \subseteq Server
  BY DEF TypeInv, ServiceType, detach_server_recursive

\* The link is closed, for whatever reason.
LEMMA DisconnectTypes ==
  ASSUME TypeInv, net_disconnect, UNCHANGED <<up, retries>>,
         timer' \in {"unset", "waiting", "due", "clearing"}, breaks' \in 0 .. MaxBreaks
  PROVE  TypeInv'
<1>1. servers' \subseteq Server
  BY DetachType DEF net_disconnect
<1>2. outq' = <<>> /\ partial' = None
  BY DEF net_disconnect, net_init
<1>3. ServiceType'
  <2>1. outq' \in Seq(Range(Handshake)) /\ Len(outq') <= SendQSize
    BY <1>2, Bounds
  <2>2. {up', connected', eos'} \subseteq BOOLEAN /\ partial' \in Line \cup {None}
    BY <1>2 DEF net_disconnect, TypeInv, ServiceType
  <2>3. {rserver', rsid'} \subseteq {Hub, None} /\ retries' \in 0 .. MaxRetries
    BY DEF net_disconnect, TypeInv, ServiceType
  <2> QED BY <1>1, <2>1, <2>2, <2>3 DEF ServiceType
<1>4. NetworkType'
  BY DEF net_disconnect, TypeInv, NetworkType
<1> QED BY <1>3, <1>4 DEF TypeInv

\* A line is handled.
LEMMA ParseTypes ==
  ASSUME TypeInv, NEW line \in Line, parse_line(line)
  PROVE  /\ eos' \in BOOLEAN /\ outq' \in Seq(Range(Handshake)) /\ Len(outq') <= SendQSize
         /\ {rserver', rsid'} \subseteq {Hub, None} /\ servers' \subseteq Server
<1>1. /\ outq \in Seq(Range(Handshake)) /\ Len(outq) <= SendQSize
      /\ Queued(outq, <<"other">>) \in Seq(Range(Handshake)) /\ Len(Queued(outq, <<"other">>)) <= SendQSize
  BY QueuedType, HandshakeRange DEF TypeInv, ServiceType
<1>2. CASE line.cmd = "PROTOCTL" /\ m_protoctl
  <2>1. servers' \subseteq Server
    BY <1>2 DEF m_protoctl, TypeInv, ServiceType, Server, Names
  <2> QED BY <1>1, <1>2, <2>1 DEF m_protoctl, TypeInv, ServiceType
<1>3. CASE line.cmd = "SERVER" /\ m_server
  <2>1. servers' \subseteq Server
    BY <1>3 DEF m_server, TypeInv, ServiceType, Server, Names
  <2> QED BY <1>1, <1>3, <2>1 DEF m_server, TypeInv, ServiceType
<1>4. CASE line.cmd = "SID" /\ m_sid(line)
  <2>1. line.name \in Names /\ line.from \in Names
    BY <1>4, Lines DEF FromHub, Names
  <2>2. servers' \subseteq Server
    BY <1>4, <2>1 DEF m_sid, TypeInv, ServiceType, Server
  <2> QED BY <1>1, <1>4, <2>2 DEF m_sid, TypeInv, ServiceType
<1>5. CASE line.cmd = "SQUIT" /\ m_squit(line)
  BY <1>1, <1>5, DetachType DEF m_squit, TypeInv, ServiceType
<1>6. CASE line.cmd = "NETINFO" /\ m_eos
  BY <1>1, <1>6 DEF m_eos, TypeInv, ServiceType
<1> QED BY <1>2, <1>3, <1>4, <1>5, <1>6 DEF parse_line

\* What is read, whole or in part.
LEMMA ReadTypes ==
  ASSUME TypeInv, ReadPart \/ ReadLine PROVE TypeInv'
<1>1. inq # <<>> /\ inq \in Seq(Line \cup {Rest}) /\ Head(inq) \in Line \cup {Rest}
      /\ Tail(inq) \in Seq(Line \cup {Rest})
  BY DEF ReadPart, ReadLine, TypeInv, NetworkType
<1>2. CASE ReadPart
  <2>1. partial' \in Line
    BY <1>1, <1>2 DEF ReadPart
  <2>2. inq' \in Seq(Line \cup {Rest})
    BY <1>1, <1>2 DEF ReadPart
  <2> QED BY <1>2, <2>1, <2>2 DEF ReadPart, TypeInv, ServiceType, NetworkType
<1>3. CASE ReadLine
  <2>1. CASE \E line \in Line : parse_line(line)
    <3>1. /\ eos' \in BOOLEAN /\ outq' \in Seq(Range(Handshake)) /\ Len(outq') <= SendQSize
          /\ {rserver', rsid'} \subseteq {Hub, None} /\ servers' \subseteq Server
      BY <2>1, ParseTypes
    <3> QED BY <1>1, <1>3, <3>1 DEF ReadLine, TypeInv, ServiceType, NetworkType
  <2>2. CASE UNCHANGED <<outq, eos, rserver, rsid, servers>>
    BY <1>1, <1>3, <2>2 DEF ReadLine, TypeInv, ServiceType, NetworkType
  <2>3. (\E line \in Line : parse_line(line)) \/ UNCHANGED <<outq, eos, rserver, rsid, servers>>
    <3>1. CASE partial = None /\ Head(inq) # Rest
      BY <1>1, <1>3, <3>1 DEF ReadLine
    <3>2. CASE partial # None /\ Head(inq) = Rest
      <4>1. partial \in Line
        BY <3>2 DEF TypeInv, ServiceType
      <4> QED BY <1>3, <3>2, <4>1 DEF ReadLine
    <3>3. CASE ~(partial = None /\ Head(inq) # Rest) /\ ~(partial # None /\ Head(inq) = Rest)
      BY <1>3, <3>3 DEF ReadLine
    <3> QED BY <3>1, <3>2, <3>3
  <2> QED BY <2>1, <2>2, <2>3
<1> QED BY <1>2, <1>3

\* A tell of the burst: an order of the network's servers, each after the one it is behind.
LEMMA BurstOrder ==
  ASSUME TypeInv, NEW burst \in Bursts
  PROVE  \E o \in Seq(Leaves) :
           /\ burst = <<FromHub("PROTOCTL"), FromHub("SERVER")>>
                       \o [i \in 1 .. Len(o) |-> [cmd |-> "SID", name |-> o[i], from |-> topo[o[i]]]]
                       \o <<FromHub("NETINFO")>>
           /\ \A i \in 1 .. Len(o) : topo[o[i]] = Hub \/ \E j \in 1 .. i - 1 : o[j] = topo[o[i]]
           /\ \A i, j \in 1 .. Len(o) : o[i] = o[j] => i = j
           /\ InNetwork = {o[i] : i \in 1 .. Len(o)}
<1>1. PICK o \in SetToSeqs(InNetwork) :
        /\ burst = <<FromHub("PROTOCTL"), FromHub("SERVER")>>
                    \o [i \in DOMAIN o |-> [cmd |-> "SID", name |-> o[i], from |-> topo[o[i]]]]
                    \o <<FromHub("NETINFO")>>
        /\ \A i \in DOMAIN o : topo[o[i]] = Hub \/ \E j \in 1 .. i - 1 : o[j] = topo[o[i]]
  BY DEF Bursts
<1>2. PICK n : n = Cardinality(InNetwork)
  OBVIOUS
<1>3. IsFiniteSet(InNetwork) /\ n \in Nat
  BY <1>2, NetFinite, FS_Subset, FS_CardinalityType DEF InNetwork
<1>4. o \in [1 .. n -> InNetwork] /\ \A i, j \in 1 .. n : o[i] = o[j] => i = j
  BY <1>2 DEF SetToSeqs
<1>5. o \in Injection(1 .. n, InNetwork)
  BY <1>4 DEF Injection, IsInjective
<1>6. Cardinality(1 .. n) = n
  BY <1>3, FS_Interval
<1>7. o \in Surjection(1 .. n, InNetwork)
  BY <1>2, <1>3, <1>5, <1>6, FS_Injection
<1>8. o \in Seq(Leaves) /\ Len(o) = n /\ DOMAIN o = 1 .. Len(o)
  BY <1>3, <1>4 DEF InNetwork
<1>9. InNetwork = {o[i] : i \in 1 .. Len(o)}
  BY <1>4, <1>7, <1>8 DEF Surjection
<1> QED BY <1>1, <1>4, <1>8, <1>9

LEMMA BurstType ==
  ASSUME TypeInv, NEW burst \in Bursts PROVE burst \in Seq(Line)
<1>1. PICK o \in Seq(Leaves) :
        /\ burst = <<FromHub("PROTOCTL"), FromHub("SERVER")>>
                    \o [i \in 1 .. Len(o) |-> [cmd |-> "SID", name |-> o[i], from |-> topo[o[i]]]]
                    \o <<FromHub("NETINFO")>>
        /\ InNetwork = {o[i] : i \in 1 .. Len(o)}
  BY BurstOrder
<1>2. PICK sids : sids = [i \in 1 .. Len(o) |-> [cmd |-> "SID", name |-> o[i], from |-> topo[o[i]]]]
  OBVIOUS
<1>3. \A i \in 1 .. Len(o) : sids[i] \in Line
  <2> SUFFICES ASSUME NEW i \in 1 .. Len(o) PROVE sids[i] \in Line
    OBVIOUS
  <2>1. o[i] \in InNetwork
    BY <1>1
  <2>2. o[i] \in Leaves /\ topo[o[i]] \in Names
    BY <2>1 DEF InNetwork, TypeInv, NetworkType
  <2> QED BY <1>2, <2>2, Lines
<1>4. sids \in Seq(Line)
  BY <1>2, <1>3
<1>5. FromHub("PROTOCTL") \in Line /\ FromHub("SERVER") \in Line /\ FromHub("NETINFO") \in Line
  BY Lines
<1>6. <<FromHub("PROTOCTL"), FromHub("SERVER")>> \in Seq(Line) /\ <<FromHub("NETINFO")>> \in Seq(Line)
  BY <1>5
<1> QED BY <1>1, <1>2, <1>4, <1>6

\* The steps of the loop that only count and queue.
LEMMA LoopTypes ==
  ASSUME TypeInv, ConnectTimer \/ Connect \/ TimerClear \/ ConnectFails \/ Checks PROVE TypeInv'
<1> USE DEF network
<1>1. CASE ConnectTimer
  BY <1>1 DEF ConnectTimer, TypeInv, ServiceType, NetworkType
<1>2. CASE TimerClear
  BY <1>2 DEF TimerClear, TypeInv, ServiceType, NetworkType
<1>3. CASE Connect
  <2>1. outq' \in Seq(Range(Handshake)) /\ Len(outq') <= SendQSize
    BY <1>3, QueuedType, HandshakeRange DEF Connect, TypeInv, ServiceType
  <2> QED BY <1>3, <2>1, Bounds DEF Connect, TypeInv, ServiceType, NetworkType
<1>4. CASE ConnectFails
  <2>1. retries' \in 0 .. MaxRetries
    BY <1>4, Bounds DEF ConnectFails, GivesUp, TypeInv, ServiceType
  <2>2. timer' \in {"unset", "waiting", "due", "clearing"} /\ up' \in BOOLEAN
    BY <1>4 DEF ConnectFails, TypeInv, ServiceType
  <2> QED BY <1>4, <2>1, <2>2 DEF ConnectFails, TypeInv, ServiceType, NetworkType
<1>5. CASE Checks
  <2>1. outq' \in Seq(Range(Handshake)) /\ Len(outq') <= SendQSize
    BY <1>5, QueuedType, HandshakeRange DEF Checks, TypeInv, ServiceType
  <2> QED BY <1>5, <2>1 DEF Checks, TypeInv, ServiceType, NetworkType
<1> QED BY <1>1, <1>2, <1>3, <1>4, <1>5

\* The ways to lose the link.
LEMMA LossTypes ==
  ASSUME TypeInv, PollError \/ PollInterrupted \/ SIGUSR2 PROVE TypeInv'
<1>1. net_disconnect /\ UNCHANGED <<up, retries>>
  BY DEF PollError, PollInterrupted, SIGUSR2
<1>2. timer' \in {"unset", "waiting", "due", "clearing"}
  BY DEF PollError, PollInterrupted, SIGUSR2, TypeInv, ServiceType
<1>3. breaks' \in 0 .. MaxBreaks
  BY Bounds DEF PollError, PollInterrupted, SIGUSR2, TypeInv, NetworkType
<1> QED BY <1>1, <1>2, <1>3, DisconnectTypes

\* The uplink and the network.
LEMMA NetTypes ==
  ASSUME TypeInv,
         \/ Flush \/ HandshakeTimeout \/ Break \/ UplinkBack
         \/ \E l \in Leaves : NetSplit(l) \/ \E x \in Names : NetLink(l, x)
  PROVE  TypeInv'
<1> USE DEF service
<1>0. inq \in Seq(Line \cup {Rest})
  BY DEF TypeInv, NetworkType
<1>1. CASE Flush
  <2>1. outq' \in Seq(Range(Handshake)) /\ Len(outq') <= SendQSize
    <3>1. outq # <<>> /\ outq \in Seq(Range(Handshake)) /\ outq' = Tail(outq) /\ Len(outq) <= SendQSize
      BY <1>1 DEF Flush, TypeInv, ServiceType
    <3> QED BY <3>1, Bounds
  <2>2. link' \in {"none", "accepted", "passed", "linked", "broken"} /\ inq' \in Seq(Line \cup {Rest})
    <3>1. \A burst \in Bursts : burst \in Seq(Line \cup {Rest})
      <4> SUFFICES ASSUME NEW burst \in Bursts PROVE burst \in Seq(Line \cup {Rest})
        OBVIOUS
      <4>1. burst \in Seq(Line)
        BY BurstType
      <4> QED BY <4>1
    <3> QED BY <1>0, <1>1, <3>1 DEF Flush, TypeInv, NetworkType
  <2> QED BY <1>1, <2>1, <2>2 DEF Flush, TypeInv, ServiceType, NetworkType
<1>2. CASE HandshakeTimeout
  BY <1>2 DEF HandshakeTimeout, TypeInv, ServiceType, NetworkType
<1>3. CASE Break
  <2>1. inq' \in Seq(Line \cup {Rest})
    <3>1. PICK n \in 0 .. Len(inq) : inq' = SubSeq(inq, 1, n)
      BY <1>3 DEF Break
    <3> QED BY <1>0, <3>1
  <2>2. link' \in {"none", "accepted", "passed", "linked", "broken"} /\ breaks' \in 0 .. MaxBreaks
    BY <1>3, Bounds DEF Break, TypeInv, NetworkType
  <2> QED BY <1>3, <2>1, <2>2 DEF Break, TypeInv, ServiceType, NetworkType
<1>4. CASE UplinkBack
  BY <1>4 DEF UplinkBack, TypeInv, ServiceType, NetworkType
<1>5. ASSUME NEW l \in Leaves, NetSplit(l) PROVE TypeInv'
  <2>1. topo' \in [Leaves -> Names \cup {None}]
    BY <1>5 DEF NetSplit, TypeInv, NetworkType
  <2>2. inq' \in Seq(Line \cup {Rest})
    <3>1. [cmd |-> "SQUIT", name |-> l, from |-> None] \in Line
      BY Lines
    <3> QED BY <1>0, <1>5, <3>1 DEF NetSplit, Tell
  <2> QED BY <1>5, <2>1, <2>2 DEF NetSplit, TypeInv, ServiceType, NetworkType
<1>6. ASSUME NEW l \in Leaves, NEW x \in Names, NetLink(l, x) PROVE TypeInv'
  <2>1. topo' \in [Leaves -> Names \cup {None}]
    BY <1>6 DEF NetLink, TypeInv, NetworkType
  <2>2. inq' \in Seq(Line \cup {Rest})
    <3>1. [cmd |-> "SID", name |-> l, from |-> x] \in Line
      BY Lines
    <3> QED BY <1>0, <1>6, <3>1 DEF NetLink, Tell
  <2> QED BY <1>6, <2>1, <2>2 DEF NetLink, TypeInv, ServiceType, NetworkType
<1> QED BY <1>1, <1>2, <1>3, <1>4, <1>5, <1>6

LEMMA InitTypes == Init => TypeInv
<1> SUFFICES ASSUME Init PROVE TypeInv
  OBVIOUS
<1>1. outq \in Seq(Range(Handshake)) /\ Len(outq) <= SendQSize
  <2>1. <<>> \in Seq(Range(Handshake)) /\ Len(<<>>) <= SendQSize
    BY Bounds
  <2> QED BY <2>1, QueuedType, HandshakeRange DEF Init
<1>2. 0 \in 0 .. MaxRetries /\ 0 \in 0 .. MaxBreaks
  BY Bounds
<1>3. ServiceType
  BY <1>1, <1>2 DEF Init, ServiceType
<1>4. NetworkType
  BY <1>2 DEF Init, NetworkType
<1> QED BY <1>3, <1>4 DEF TypeInv

LEMMA NextTypes ==
  ASSUME TypeInv, [Next]_vars PROVE TypeInv'
<1>1. CASE UNCHANGED vars
  BY <1>1 DEF vars, service, network, TypeInv, ServiceType, NetworkType
<1>2. CASE Next
  BY <1>2, LoopTypes, LossTypes, ReadTypes, NetTypes DEF Next, Loop, Environment
<1> QED BY <1>1, <1>2

LEMMA TypesKept == Spec => []TypeInv
  BY InitTypes, NextTypes, PTL DEF Spec

\* Every variable keeps its type: no line is longer under way than SENDQSIZE allows, no
\* attempt is made beyond MAX_RECO_ATTEMPTS (send_raw, child_run_loop_once).
THEOREM TypeCorrect == Spec => []TypeOK
<1>1. TypeInv => TypeOK
  <2>1. \A S, q : q \in Seq(S) => Range(q) \subseteq S
    BY DEF Range
  <2> QED BY <2>1 DEF TypeInv, ServiceType, NetworkType, TypeOK
<1> QED BY <1>1, TypesKept, PTL

-----------------------------------------------------------------------------
(* One tree *)

\* OneTree needs more to last: that all servers are below the uplink, so that closing
\* the link takes them along, and that the services know the uplink's name once they know
\* a server.
TreeInv ==
  /\ Hung(servers) /\ Rooted(servers)
  /\ servers # {} => rserver = Hub
  /\ ~connected => servers = {} /\ ~eos /\ partial = None

LEMMA EmptyTree == Hung({}) /\ Rooted({})
  BY BehindClosed DEF Hung, Rooted

\* The uplink is the root of the tree it is added to.
LEMMA AddHub ==
  ASSUME NEW S, Hung(S), Rooted(S)
  PROVE  Hung(S \cup {[name |-> Hub, hub |-> None]}) /\ Rooted(S \cup {[name |-> Hub, hub |-> None]})
<1>1. PICK s : s = [name |-> Hub, hub |-> None]
  OBVIOUS
<1>2. s.name = Hub /\ s.hub = None
  BY <1>1
<1>3. Rooted(S \cup {s})
  BY <1>2, RootedAdd
<1>4. Hung(S \cup {s})
  BY <1>2 DEF Hung
<1> QED BY <1>1, <1>3, <1>4

\* Lines about servers keep the tree.
LEMMA ParseTree ==
  ASSUME TypeInv, TreeInv, NEW line \in Line, parse_line(line)
  PROVE  Hung(servers') /\ Rooted(servers') /\ (servers' # {} => rserver' = Hub)
<1>1. Hung(servers) /\ Rooted(servers) /\ (servers # {} => rserver = Hub) /\ rserver \in {Hub, None}
  BY DEF TreeInv, TypeInv, ServiceType
<1>2. CASE line.cmd = "PROTOCTL" /\ m_protoctl
  <2>1. servers' = servers \/ (rserver = Hub /\ servers' = servers \cup {[name |-> Hub, hub |-> None]})
    BY <1>1, <1>2 DEF m_protoctl
  <2> QED BY <1>1, <1>2, <2>1, AddHub DEF m_protoctl
<1>3. CASE line.cmd = "SERVER" /\ m_server
  <2>1. servers' = servers \/ servers' = servers \cup {[name |-> Hub, hub |-> None]}
    BY <1>3 DEF m_server
  <2> QED BY <1>1, <1>3, <2>1, AddHub DEF m_server
<1>4. CASE line.cmd = "SID" /\ m_sid(line)
  <2>1. CASE servers' = servers
    BY <1>1, <1>4, <2>1 DEF m_sid
  <2>2. CASE find_server(line.from) /\ servers' = servers \cup {[name |-> line.name, hub |-> line.from]}
    <3>1. line.name # Hub /\ line.name \in Leaves
      BY <1>4, Lines, Bounds DEF FromHub
    <3>2. PICK s : s = [name |-> line.name, hub |-> line.from]
      OBVIOUS
    <3>3. s.name # Hub /\ \E t \in servers : t.name = s.hub
      BY <2>2, <3>1, <3>2 DEF find_server
    <3>4. Rooted(servers \cup {s}) /\ Hung(servers \cup {s})
      <4>1. Rooted(servers \cup {s})
        BY <1>1, <3>3, RootedAdd
      <4>2. Hung(servers \cup {s})
        BY <1>1, <3>3 DEF Hung
      <4> QED BY <4>1, <4>2
    <3> QED BY <1>1, <1>4, <2>2, <3>2, <3>3, <3>4 DEF m_sid
  <2> QED BY <1>4, <2>1, <2>2 DEF m_sid
<1>5. CASE line.cmd = "SQUIT" /\ m_squit(line)
  BY <1>1, <1>5, HungDetach, RootedDetach DEF m_squit, detach_server_recursive
<1>6. CASE line.cmd = "NETINFO" /\ m_eos
  BY <1>1, <1>6 DEF m_eos
<1> QED BY <1>2, <1>3, <1>4, <1>5, <1>6 DEF parse_line

\* What ReadLine does: it handles a line, or drops a part of one.
LEMMA ReadCases ==
  ASSUME TypeInv, ReadLine
  PROVE  \/ partial = None /\ Head(inq) \in Line /\ parse_line(Head(inq))
         \/ partial \in Line /\ Head(inq) = Rest /\ parse_line(partial)
         \/ /\ partial # None <=> Head(inq) # Rest
            /\ UNCHANGED <<outq, eos, rserver, rsid, servers>>
<1>1. Head(inq) \in Line \cup {Rest} /\ partial \in Line \cup {None}
  BY DEF ReadLine, TypeInv, ServiceType, NetworkType
<1>2. CASE partial = None /\ Head(inq) # Rest
  BY <1>1, <1>2 DEF ReadLine
<1>3. CASE partial # None /\ Head(inq) = Rest
  BY <1>1, <1>3 DEF ReadLine
<1>4. CASE ~(partial = None /\ Head(inq) # Rest) /\ ~(partial # None /\ Head(inq) = Rest)
  BY <1>4 DEF ReadLine
<1> QED BY <1>2, <1>3, <1>4

\* Closing the link takes the whole tree along.
LEMMA LossTree ==
  ASSUME TypeInv, TreeInv, net_disconnect
  PROVE  TreeInv' /\ servers' = {}
<1>1. servers' = servers \ Behind(rserver, servers)
  BY DEF net_disconnect, detach_server_recursive
<1>2. servers' = {}
  BY <1>1 DEF TreeInv, Rooted
<1>3. ~eos' /\ partial' = None
  BY DEF net_disconnect, net_init
<1> QED BY <1>2, <1>3, EmptyTree DEF TreeInv

LEMMA NextTree ==
  ASSUME TypeInv, TreeInv, [Next]_vars PROVE TreeInv'
<1>1. CASE PollError \/ PollInterrupted \/ SIGUSR2
  BY <1>1, LossTree DEF PollError, PollInterrupted, SIGUSR2
<1>2. CASE ReadLine
  <2>1. connected /\ connected' = connected /\ connected \in BOOLEAN
    BY <1>2 DEF ReadLine, TypeInv, ServiceType
  <2>2. Hung(servers') /\ Rooted(servers') /\ (servers' # {} => rserver' = Hub)
    <3>1. CASE \E line \in Line : parse_line(line)
      BY <3>1, ParseTree
    <3>2. CASE UNCHANGED <<rserver, servers>>
      BY <3>2 DEF TreeInv
    <3> QED BY <1>2, <3>1, <3>2, ReadCases
  <2> QED BY <2>1, <2>2 DEF TreeInv
<1>3. CASE ReadPart \/ Connect
  BY <1>3 DEF ReadPart, Connect, TreeInv
<1>4. CASE UNCHANGED <<connected, servers, rserver, eos, partial>>
  BY <1>4 DEF TreeInv
<1>5. CASE ConnectTimer \/ TimerClear \/ ConnectFails \/ Checks
  BY <1>4, <1>5 DEF ConnectTimer, TimerClear, ConnectFails, Checks
<1>6. CASE \/ Flush \/ HandshakeTimeout \/ Break \/ UplinkBack
           \/ \E l \in Leaves : NetSplit(l) \/ \E x \in Names : NetLink(l, x)
  BY <1>4, <1>6 DEF Flush, HandshakeTimeout, Break, UplinkBack, NetSplit, NetLink, service
<1>7. CASE UNCHANGED vars
  BY <1>4, <1>7 DEF vars, service
<1> QED BY <1>1, <1>2, <1>3, <1>5, <1>6, <1>7 DEF Next, Loop, Environment

\* The services' servers hang together below the uplink, and none outlives the link that
\* told of it, at any depth of the tree and whatever is cut off (net_disconnect,
\* detach_server_recursive).
THEOREM TreeCorrect == Spec => []OneTree
<1>1. Init => TreeInv
  BY EmptyTree DEF Init, TreeInv
<1>2. TypeInv /\ TreeInv /\ [Next]_vars => TreeInv'
  BY NextTree
<1>3. TreeInv => OneTree
  BY DEF TreeInv, Hung, OneTree, find_server
<1> QED BY <1>1, <1>2, <1>3, TypesKept, PTL DEF Spec

-----------------------------------------------------------------------------
(* The attempts to connect *)

LEMMA NextAttempts ==
  ASSUME TypeInv, AttemptsWhileApart, [Next]_vars PROVE AttemptsWhileApart'
<1>1. CASE PollError \/ PollInterrupted \/ SIGUSR2
  <2>1. ~connected' /\ (timer' = "due" \/ Race)
    BY <1>1 DEF PollError, PollInterrupted, SIGUSR2, net_disconnect
  <2> QED BY <2>1 DEF AttemptsWhileApart
<1>2. CASE Connect
  <2>1. connected' /\ timer' = "clearing"
    BY <1>2 DEF Connect
  <2> QED BY <2>1 DEF AttemptsWhileApart
<1>3. CASE ConnectTimer \/ ConnectFails
  <2>1. timer \in {"waiting", "due"} /\ timer' \in {"waiting", "due"} /\ connected' = connected
    BY <1>3 DEF ConnectTimer, ConnectFails
  <2> QED BY <2>1 DEF AttemptsWhileApart
<1>4. CASE TimerClear
  <2>1. timer = "clearing" /\ timer' = "unset" /\ connected' = connected
    BY <1>4 DEF TimerClear
  <2> QED BY <2>1 DEF AttemptsWhileApart
<1>5. CASE UNCHANGED <<connected, timer>>
  BY <1>5 DEF AttemptsWhileApart
<1>6. CASE ReadPart \/ ReadLine \/ Checks
  BY <1>5, <1>6 DEF ReadPart, ReadLine, Checks
<1>7. CASE \/ Flush \/ HandshakeTimeout \/ Break \/ UplinkBack
           \/ \E l \in Leaves : NetSplit(l) \/ \E x \in Names : NetLink(l, x)
  BY <1>5, <1>7 DEF Flush, HandshakeTimeout, Break, UplinkBack, NetSplit, NetLink, service
<1>8. CASE UNCHANGED vars
  BY <1>5, <1>8 DEF vars, service
<1> QED BY <1>1, <1>2, <1>3, <1>4, <1>6, <1>7, <1>8 DEF Next, Loop, Environment

LEMMA AttemptsKept == Spec => []AttemptsWhileApart
<1>1. Init => AttemptsWhileApart
  BY DEF Init, AttemptsWhileApart
<1>2. TypeInv /\ AttemptsWhileApart /\ [Next]_vars => AttemptsWhileApart'
  BY NextAttempts
<1> QED BY <1>1, <1>2, TypesKept, PTL DEF Spec

\* The loop never connects over an open connection, though it does not look for one, and,
\* unless a SIGUSR2 falls between a connection made and the timer cleared, an attempt is set as
\* long as there is none: the half of Reconnects that needs no fairness (child_run_loop_once,
\* sighandler).
THEOREM AttemptsCorrect == Spec => []AttemptsWhileApart
<1> QED BY AttemptsKept, PTL

-----------------------------------------------------------------------------
(* The services' tree and the network's *)

HubRec == [name |-> Hub, hub |-> None]

\* The network behind the uplink, and with it.
Behinds(t) == {[name |-> l, hub |-> t[l]] : l \in {k \in Leaves : t[k] # None}}

Whole(t) == {HubRec} \cup Behinds(t)

\* The lines that come once the uplink has named itself.
LateLine == {l \in Line : l.cmd \in {"SID", "SQUIT", "NETINFO"}}

\* The servers S after such a line.
After(S, l) ==
  CASE l.cmd = "SID"   -> IF (\E s \in S : s.name = l.from) /\ ~ \E s \in S : s.name = l.name
                          THEN S \cup {[name |-> l.name, hub |-> l.from]} ELSE S
    [] l.cmd = "SQUIT" -> S \ Behind(l.name, S)
    [] OTHER           -> S

\* Whether the lines of q make F of S.
Replays(S, q, F) ==
  \E tr \in [0 .. Len(q) -> SUBSET Server] :
    /\ tr[0] = S /\ tr[Len(q)] = F
    /\ \A i \in 1 .. Len(q) : tr[i] = After(tr[i - 1], q[i])

LEMMA ReplayNone ==
  ASSUME NEW S, NEW F, Replays(S, <<>>, F) PROVE S = F
  BY DEF Replays

\* One line is read.
LEMMA ReplayHead ==
  ASSUME NEW S, NEW F, NEW q \in Seq(LateLine), q # <<>>, Replays(S, q, F)
  PROVE  Replays(After(S, Head(q)), Tail(q), F)
<1>1. PICK tr \in [0 .. Len(q) -> SUBSET Server] :
        /\ tr[0] = S /\ tr[Len(q)] = F
        /\ \A i \in 1 .. Len(q) : tr[i] = After(tr[i - 1], q[i])
  BY DEF Replays
<1>2. PICK n : n = Len(q) - 1
  OBVIOUS
<1>3. n \in Nat /\ Len(q) = n + 1 /\ Len(Tail(q)) = n /\ Head(q) = q[1]
      /\ \A i \in 1 .. n : Tail(q)[i] = q[i + 1]
  BY <1>2
<1>4. PICK rest : rest = [i \in 0 .. n |-> tr[i + 1]]
  OBVIOUS
<1>5. rest \in [0 .. n -> SUBSET Server] /\ rest[0] = tr[1] /\ rest[n] = tr[n + 1]
  BY <1>1, <1>3, <1>4
<1>6. rest[0] = After(S, Head(q))
  <2>1. 1 \in 1 .. Len(q)
    BY <1>3
  <2>2. tr[1] = After(tr[1 - 1], q[1]) /\ 1 - 1 = 0
    BY <1>1, <2>1
  <2> QED BY <1>1, <1>3, <1>5, <2>2
<1>7. \A i \in 1 .. n : rest[i] = After(rest[i - 1], Tail(q)[i])
  <2> SUFFICES ASSUME NEW i \in 1 .. n PROVE rest[i] = After(rest[i - 1], Tail(q)[i])
    OBVIOUS
  <2>1. i + 1 \in 1 .. Len(q) /\ (i + 1) - 1 = i /\ i \in 0 .. n /\ i - 1 \in 0 .. n /\ (i - 1) + 1 = i
    BY <1>3
  <2>2. tr[i + 1] = After(tr[(i + 1) - 1], q[i + 1])
    BY <1>1, <2>1
  <2>3. rest[i] = tr[i + 1] /\ rest[i - 1] = tr[i]
    BY <1>4, <2>1
  <2> QED BY <1>3, <2>1, <2>2, <2>3
<1> QED BY <1>1, <1>3, <1>5, <1>6, <1>7 DEF Replays

\* One more line is on its way.
LEMMA ReplayAppend ==
  ASSUME NEW S, NEW F, NEW q \in Seq(LateLine), Replays(S, q, F),
         NEW line \in LateLine, NEW G \in SUBSET Server, G = After(F, line)
  PROVE  Replays(S, Append(q, line), G)
<1>1. PICK tr \in [0 .. Len(q) -> SUBSET Server] :
        /\ tr[0] = S /\ tr[Len(q)] = F
        /\ \A i \in 1 .. Len(q) : tr[i] = After(tr[i - 1], q[i])
  BY DEF Replays
<1>2. PICK n, p : n = Len(q) /\ p = Append(q, line)
  OBVIOUS
<1>3. n \in Nat /\ Len(p) = n + 1 /\ p[n + 1] = line /\ \A i \in 1 .. n : p[i] = q[i]
  BY <1>2
<1>4. PICK more : more = [i \in 0 .. n + 1 |-> IF i = n + 1 THEN G ELSE tr[i]]
  OBVIOUS
<1>5. more \in [0 .. n + 1 -> SUBSET Server] /\ more[n + 1] = G /\ \A i \in 0 .. n : more[i] = tr[i]
  <2>1. \A i \in 0 .. n + 1 : i = n + 1 \/ i \in 0 .. Len(q)
    BY <1>2, <1>3
  <2>2. n + 1 \in 0 .. n + 1 /\ \A i \in 0 .. n : i # n + 1 /\ i \in 0 .. n + 1
    BY <1>3
  <2>3. \A i \in 0 .. n + 1 : (IF i = n + 1 THEN G ELSE tr[i]) \in SUBSET Server
    BY <1>1, <2>1
  <2>4. more \in [0 .. n + 1 -> SUBSET Server]
    BY <1>4, <2>3
  <2>5. more[n + 1] = G /\ \A i \in 0 .. n : more[i] = tr[i]
    BY <1>4, <2>2
  <2> QED BY <2>4, <2>5
<1>6. \A i \in 1 .. n + 1 : more[i] = After(more[i - 1], p[i])
  <2> SUFFICES ASSUME NEW i \in 1 .. n + 1 PROVE more[i] = After(more[i - 1], p[i])
    OBVIOUS
  <2>1. CASE i = n + 1
    <3>1. i - 1 = n /\ n \in 0 .. n
      BY <1>3, <2>1
    <3> QED BY <1>1, <1>2, <1>3, <1>5, <2>1, <3>1
  <2>2. CASE i # n + 1
    <3>1. i \in 1 .. n /\ i \in 0 .. n /\ i - 1 \in 0 .. n
      BY <1>3, <2>2
    <3> QED BY <1>1, <1>2, <1>3, <1>5, <3>1
  <2> QED BY <2>1, <2>2
<1>7. more[0] = S
  <2>1. 0 \in 0 .. n
    BY <1>3
  <2>2. more[0] = tr[0]
    BY <1>5, <2>1
  <2>3. tr[0] = S
    BY <1>1
  <2> QED BY <2>2, <2>3
<1>8. /\ more \in [0 .. Len(p) -> SUBSET Server]
      /\ more[0] = S /\ more[Len(p)] = G
      /\ \A i \in 1 .. Len(p) : more[i] = After(more[i - 1], p[i])
  BY <1>3, <1>5, <1>6, <1>7
<1> QED BY <1>2, <1>8, Zenon DEF Replays

\* The uplink's burst makes the network of the uplink alone.
LEMMA BurstReplays ==
  ASSUME TypeInv, NEW burst \in Bursts
  PROVE  \E q \in Seq(LateLine) :
           /\ burst = <<FromHub("PROTOCTL"), FromHub("SERVER")>> \o q
           /\ Replays({HubRec}, q, Whole(topo))
<1>1. PICK o \in Seq(Leaves) :
        /\ burst = <<FromHub("PROTOCTL"), FromHub("SERVER")>>
                    \o [i \in 1 .. Len(o) |-> [cmd |-> "SID", name |-> o[i], from |-> topo[o[i]]]]
                    \o <<FromHub("NETINFO")>>
        /\ \A i \in 1 .. Len(o) : topo[o[i]] = Hub \/ \E j \in 1 .. i - 1 : o[j] = topo[o[i]]
        /\ \A i, j \in 1 .. Len(o) : o[i] = o[j] => i = j
        /\ InNetwork = {o[i] : i \in 1 .. Len(o)}
  BY BurstOrder
<1>2. PICK n, sids, q :
        /\ n = Len(o)
        /\ sids = [i \in 1 .. Len(o) |-> [cmd |-> "SID", name |-> o[i], from |-> topo[o[i]]]]
        /\ q = sids \o <<FromHub("NETINFO")>>
  OBVIOUS
<1>3. \A i \in 1 .. n : o[i] \in Leaves /\ o[i] # Hub /\ topo[o[i]] \in Names /\ o[i] \in InNetwork
  <2> SUFFICES ASSUME NEW i \in 1 .. n
               PROVE  o[i] \in Leaves /\ o[i] # Hub /\ topo[o[i]] \in Names /\ o[i] \in InNetwork
    OBVIOUS
  <2>1. o[i] \in InNetwork
    BY <1>1, <1>2
  <2> QED BY <2>1, Bounds DEF InNetwork, TypeInv, NetworkType
<1>4. sids \in Seq(LateLine) /\ FromHub("NETINFO") \in LateLine
  <2>1. \A i \in 1 .. n : sids[i] \in LateLine
    BY <1>2, <1>3, Lines DEF LateLine
  <2>2. sids \in Seq(LateLine)
    BY <1>2, <2>1
  <2>3. FromHub("NETINFO") \in Line /\ FromHub("NETINFO").cmd = "NETINFO"
    BY Lines DEF FromHub
  <2> QED BY <2>2, <2>3 DEF LateLine
<1>5. n \in Nat /\ Len(sids) = n /\ q \in Seq(LateLine) /\ Len(q) = n + 1
  <2>1. n \in Nat /\ Len(sids) = n /\ <<FromHub("NETINFO")>> \in Seq(LateLine)
    BY <1>2, <1>4
  <2> QED BY <1>2, <1>4, <2>1
<1>6. (\A i \in 1 .. n : q[i] = sids[i]) /\ q[n + 1] = FromHub("NETINFO")
  BY <1>2, <1>4, <1>5
<1>7. burst = <<FromHub("PROTOCTL"), FromHub("SERVER")>> \o q
  <2>1. <<FromHub("PROTOCTL"), FromHub("SERVER")>> \in Seq(Line) /\ sids \in Seq(Line)
        /\ <<FromHub("NETINFO")>> \in Seq(Line)
    BY <1>4, Lines DEF LateLine
  <2>2. PICK head, tail : head = <<FromHub("PROTOCTL"), FromHub("SERVER")>> /\ tail = <<FromHub("NETINFO")>>
    OBVIOUS
  <2>3. burst = (head \o sids) \o tail /\ q = sids \o tail
    BY <1>1, <1>2, <2>2
  <2>4. head \in Seq(Line) /\ tail \in Seq(Line)
    BY <2>1, <2>2
  <2> QED BY <2>1, <2>2, <2>3, <2>4
<1>8. PICK told : told = [i \in 0 .. n + 1 |->
                            {HubRec} \cup {[name |-> o[k], hub |-> topo[o[k]]] : k \in {j \in 1 .. n : j <= i}}]
  OBVIOUS
<1>9. told \in [0 .. n + 1 -> SUBSET Server]
  <2>1. HubRec \in Server
    BY DEF HubRec, Server, Names
  <2>2. \A k \in 1 .. n : [name |-> o[k], hub |-> topo[o[k]]] \in Server
    BY <1>3 DEF Server, Names
  <2> QED BY <1>8, <2>1, <2>2
<1>10. \A i \in 0 .. n + 1 :
         told[i] = {HubRec} \cup {[name |-> o[k], hub |-> topo[o[k]]] : k \in {j \in 1 .. n : j <= i}}
  BY <1>8
<1>11. told[0] = {HubRec}
  <2>1. 0 \in 0 .. n + 1 /\ {j \in 1 .. n : j <= 0} = {}
    BY <1>5
  <2> QED BY <1>10, <2>1
<1>12. told[n + 1] = Whole(topo)
  <2>1. n + 1 \in 0 .. n + 1 /\ {j \in 1 .. n : j <= n + 1} = 1 .. n
    BY <1>5
  <2>2. InNetwork = {k \in Leaves : topo[k] # None} /\ InNetwork = {o[k] : k \in 1 .. n}
    BY <1>1, <1>2 DEF InNetwork
  <2>3. Behinds(topo) = {[name |-> o[k], hub |-> topo[o[k]]] : k \in 1 .. n}
    BY <2>2 DEF Behinds
  <2> QED BY <1>10, <2>1, <2>3 DEF Whole
<1>13. \A i \in 1 .. n + 1 : told[i] = After(told[i - 1], q[i])
  <2> SUFFICES ASSUME NEW i \in 1 .. n + 1 PROVE told[i] = After(told[i - 1], q[i])
    OBVIOUS
  <2>0. i \in 0 .. n + 1 /\ i - 1 \in 0 .. n + 1
    BY <1>5
  <2>1. CASE i = n + 1
    <3>1. {j \in 1 .. n : j <= i} = {j \in 1 .. n : j <= i - 1}
      BY <1>5, <2>1
    <3>2. told[i] = told[i - 1]
      BY <1>10, <2>0, <3>1
    <3> QED BY <1>6, <2>1, <3>2 DEF After, FromHub
  <2>2. CASE i # n + 1
    <3>1. i \in 1 .. n
      BY <1>5, <2>2
    <3>2. q[i] = [cmd |-> "SID", name |-> o[i], from |-> topo[o[i]]]
      BY <1>2, <1>6, <3>1
    <3>3. \E s \in told[i - 1] : s.name = topo[o[i]]
      <4>1. CASE topo[o[i]] = Hub
        <5>1. HubRec \in told[i - 1] /\ HubRec.name = Hub
          BY <1>10, <2>0 DEF HubRec
        <5> QED BY <4>1, <5>1
      <4>2. CASE \E j \in 1 .. i - 1 : o[j] = topo[o[i]]
        <5>1. PICK j \in 1 .. i - 1 : o[j] = topo[o[i]]
          BY <4>2
        <5>2. j \in 1 .. n /\ j <= i - 1
          BY <1>5, <3>1, <5>1
        <5>3. [name |-> o[j], hub |-> topo[o[j]]] \in told[i - 1]
          BY <1>10, <2>0, <5>2
        <5> QED BY <5>1, <5>3
      <4> QED BY <1>1, <1>2, <3>1, <4>1, <4>2
    <3>4. ~ \E s \in told[i - 1] : s.name = o[i]
      <4> SUFFICES ASSUME NEW s \in told[i - 1], s.name = o[i] PROVE FALSE
        OBVIOUS
      <4>1. s # HubRec
        BY <1>3, <3>1 DEF HubRec
      <4>2. PICK k \in {j \in 1 .. n : j <= i - 1} : s = [name |-> o[k], hub |-> topo[o[k]]]
        BY <1>10, <2>0, <4>1
      <4>3. o[k] = o[i] /\ k # i /\ k \in 1 .. Len(o) /\ i \in 1 .. Len(o)
        BY <1>2, <1>5, <3>1, <4>2
      <4> QED BY <1>1, <4>3
    <3>5. told[i] = told[i - 1] \cup {[name |-> o[i], hub |-> topo[o[i]]]}
      <4>1. {j \in 1 .. n : j <= i} = {j \in 1 .. n : j <= i - 1} \cup {i}
        BY <1>5, <3>1
      <4> QED BY <1>10, <2>0, <4>1
    <3> QED BY <3>2, <3>3, <3>4, <3>5 DEF After
  <2> QED BY <2>1, <2>2
<1>14. Replays({HubRec}, q, Whole(topo))
  BY <1>5, <1>9, <1>11, <1>12, <1>13 DEF Replays
<1> QED BY <1>5, <1>7, <1>14

\* A server links: the line that tells of it does to the whole network what the network does.
LEMMA LinkAfter ==
  ASSUME TypeInv, NEW l \in Leaves, NEW x \in Names, NetLink(l, x)
  PROVE  Whole(topo') = After(Whole(topo), [cmd |-> "SID", name |-> l, from |-> x])
<1>1. topo[l] = None /\ topo' = [topo EXCEPT ![l] = x] /\ topo \in [Leaves -> Names \cup {None}]
      /\ (x = Hub \/ (x \in Leaves /\ topo[x] # None)) /\ x # None /\ l # Hub
  BY Bounds DEF NetLink, InNetwork, TypeInv, NetworkType
<1>2. Behinds(topo') = Behinds(topo) \cup {[name |-> l, hub |-> x]}
  <2>1. {k \in Leaves : topo'[k] # None} = {k \in Leaves : topo[k] # None} \cup {l} /\ topo'[l] = x
    BY <1>1
  <2>2. \A k \in {j \in Leaves : topo[j] # None} : topo'[k] = topo[k]
    BY <1>1
  <2>3. Behinds(topo') = {[name |-> k, hub |-> topo'[k]] : k \in {j \in Leaves : topo[j] # None} \cup {l}}
    BY <2>1 DEF Behinds
  <2> QED BY <2>1, <2>2, <2>3 DEF Behinds
<1>3. \E s \in Whole(topo) : s.name = x
  <2>1. CASE x = Hub
    <3>1. HubRec \in Whole(topo) /\ HubRec.name = Hub
      BY DEF Whole, HubRec
    <3> QED BY <2>1, <3>1
  <2>2. CASE x # Hub
    <3>1. [name |-> x, hub |-> topo[x]] \in Behinds(topo)
      BY <1>1, <2>2 DEF Behinds
    <3> QED BY <3>1 DEF Whole
  <2> QED BY <2>1, <2>2
<1>4. ~ \E s \in Whole(topo) : s.name = l
  BY <1>1 DEF Whole, Behinds, HubRec
<1> QED BY <1>2, <1>3, <1>4 DEF After, Whole

\* Servers leave: so does the line that names the first of them.
LEMMA SplitAfter ==
  ASSUME TypeInv, NEW l \in Leaves, NetSplit(l)
  PROVE  Whole(topo') = After(Whole(topo), [cmd |-> "SQUIT", name |-> l, from |-> None])
<1>1. PICK B, gone : B = Behind(l, Behinds(topo)) /\ gone = {s.name : s \in B}
  OBVIOUS
<1>2. topo' = [k \in Leaves |-> IF k \in gone THEN None ELSE topo[k]]
  BY <1>1 DEF NetSplit, Behinds, InNetwork
<1>3. B \subseteq Behinds(topo) /\ Closed(l, Behinds(topo), B) /\ l # Hub /\ None \notin Leaves
  BY <1>1, BehindClosed, Bounds DEF Names
<1>4. Behind(l, Whole(topo)) = B
  <2>1. Closed(l, Whole(topo), B)
    BY <1>3 DEF Closed, Whole, HubRec, Behinds
  <2>2. Behind(l, Whole(topo)) \subseteq B
    BY <1>3, <2>1, BehindLeast DEF Whole
  <2>3. PICK C : C = Behind(l, Whole(topo))
    OBVIOUS
  <2>4. Closed(l, Whole(topo), C)
    BY <2>3, BehindClosed
  <2>5. Closed(l, Behinds(topo), C \cap Behinds(topo))
    BY <2>4 DEF Closed, Whole
  <2>6. B \subseteq C \cap Behinds(topo)
    BY <1>1, <2>5, BehindLeast
  <2> QED BY <2>2, <2>3, <2>6
<1>5. Behinds(topo') = Behinds(topo) \ B
  <2>1. \A k \in Leaves : k \in gone <=> [name |-> k, hub |-> topo[k]] \in B
    <3>1. \A s \in B : s = [name |-> s.name, hub |-> topo[s.name]]
      BY <1>3 DEF Behinds
    <3> QED BY <1>1, <3>1
  <2>2. {k \in Leaves : topo'[k] # None} = {k \in Leaves : topo[k] # None /\ k \notin gone}
    BY <1>2
  <2>3. \A k \in {j \in Leaves : topo[j] # None /\ j \notin gone} : topo'[k] = topo[k]
    BY <1>2
  <2>4. Behinds(topo') = {[name |-> k, hub |-> topo[k]] : k \in {j \in Leaves : topo[j] # None /\ j \notin gone}}
    BY <2>2, <2>3 DEF Behinds
  <2> QED BY <2>1, <2>4 DEF Behinds
<1>6. HubRec \notin B
  BY <1>3, Bounds DEF Behinds, HubRec
<1> QED BY <1>4, <1>5, <1>6 DEF After, Whole

\* A line about the servers is handled.
LEMMA ParseAfter ==
  ASSUME NEW line \in LateLine, parse_line(line)
  PROVE  servers' = After(servers, line)
<1>1. line.cmd \in {"SID", "SQUIT", "NETINFO"}
  BY DEF LateLine
<1>2. CASE line.cmd = "SID" /\ m_sid(line)
  BY <1>2 DEF After, m_sid, find_server
<1>3. CASE line.cmd = "SQUIT" /\ m_squit(line)
  BY <1>3 DEF After, m_squit, detach_server_recursive
<1>4. CASE line.cmd = "NETINFO" /\ m_eos
  BY <1>4 DEF After, m_eos
<1> QED BY <1>1, <1>2, <1>3, <1>4 DEF parse_line

\* Reading p makes of the servers S, with sid the uplink's as far as it is known, the servers F:
\* nothing of the burst is read, or the uplink's name is still to come, or all the rest is
\* about other servers.
Leads(p, S, sid, F) ==
  \/ S = {} /\ \E q \in Seq(LateLine) : /\ p = <<FromHub("PROTOCTL"), FromHub("SERVER")>> \o q
                                        /\ Replays({HubRec}, q, F)
  \/ /\ S \subseteq {HubRec} /\ sid = Hub
     /\ \E q \in Seq(LateLine) : p = <<FromHub("SERVER")>> \o q /\ Replays({HubRec}, q, F)
  \/ p \in Seq(LateLine) /\ Replays(S, p, F)

\* p is what the services have still to read, the line they have begun included.
Reading(p) ==
  \/ partial = None /\ inq = p
  \/ partial \in Line /\ p # <<>> /\ Head(p) = partial /\ inq = <<Rest>> \o Tail(p)

\* TreesAgreeAtRest needs more to last: as long as the link holds, what is under way makes
\* of the services' servers those of the network as it is now.
AgreeInv ==
  /\ ~connected => link = "none"
  /\ link \in {"none", "accepted", "passed"} => inq = <<>> /\ partial = None /\ servers = {}
  /\ link = "linked" => \E p \in Seq(Line) : Reading(p) /\ Leads(p, servers, rsid, Whole(topo))

LEMMA LateLines == \A q \in Seq(LateLine) : q \in Seq(Line)
  BY DEF LateLine

\* A line is handled: what was to be read after it is to be read now.
LEMMA ParseLeads ==
  ASSUME TypeInv, NEW F, NEW p \in Seq(Line), p # <<>>, Leads(p, servers, rsid, F), parse_line(Head(p))
  PROVE  Leads(Tail(p), servers', rsid', F)
<1>1. CASE /\ servers = {}
           /\ \E q \in Seq(LateLine) : /\ p = <<FromHub("PROTOCTL"), FromHub("SERVER")>> \o q
                                       /\ Replays({HubRec}, q, F)
  <2>1. PICK q \in Seq(LateLine) : /\ p = <<FromHub("PROTOCTL"), FromHub("SERVER")>> \o q
                                   /\ Replays({HubRec}, q, F)
    BY <1>1
  <2>2. Head(p) = FromHub("PROTOCTL") /\ Tail(p) = <<FromHub("SERVER")>> \o q
    BY <2>1
  <2>3. m_protoctl
    BY <2>2 DEF parse_line, FromHub
  <2>4. rsid' = Hub /\ servers' \subseteq {HubRec}
    BY <1>1, <2>3 DEF m_protoctl, HubRec, TypeInv, ServiceType
  <2> QED BY <2>1, <2>2, <2>4 DEF Leads
<1>2. CASE /\ servers \subseteq {HubRec} /\ rsid = Hub
           /\ \E q \in Seq(LateLine) : p = <<FromHub("SERVER")>> \o q /\ Replays({HubRec}, q, F)
  <2>1. PICK q \in Seq(LateLine) : p = <<FromHub("SERVER")>> \o q /\ Replays({HubRec}, q, F)
    BY <1>2
  <2>2. Head(p) = FromHub("SERVER") /\ Tail(p) = q
    BY <2>1
  <2>3. m_server
    BY <2>2 DEF parse_line, FromHub
  <2>4. servers' = {HubRec}
    <3>1. servers' = servers \cup {HubRec : s \in {r \in {Hub} : r # None /\ ~find_server(r)}} /\ Hub # None
      BY <1>2, <2>3, Bounds DEF m_server, HubRec, Names
    <3>2. CASE servers = {}
      BY <3>1, <3>2 DEF find_server
    <3>3. CASE servers # {}
      BY <1>2, <3>1, <3>3
    <3> QED BY <3>2, <3>3
  <2> QED BY <2>1, <2>2, <2>4 DEF Leads
<1>3. CASE p \in Seq(LateLine) /\ Replays(servers, p, F)
  <2>1. Head(p) \in LateLine /\ Tail(p) \in Seq(LateLine)
    BY <1>3
  <2>2. servers' = After(servers, Head(p))
    BY <2>1, ParseAfter
  <2> QED BY <1>3, <2>1, <2>2, ReplayHead DEF Leads
<1> QED BY <1>1, <1>2, <1>3 DEF Leads

\* The network changes and a line tells of it.
LEMMA TellLeads ==
  ASSUME NEW S, NEW sid, NEW F, NEW p \in Seq(Line), Leads(p, S, sid, F),
         NEW line \in LateLine, NEW G \in SUBSET Server, G = After(F, line)
  PROVE  Leads(Append(p, line), S, sid, G)
<1>1. \A q \in Seq(LateLine) : Append(q, line) \in Seq(LateLine)
  OBVIOUS
<1>2. ASSUME NEW q \in Seq(LateLine), p = <<FromHub("PROTOCTL"), FromHub("SERVER")>> \o q
      PROVE  Append(p, line) = <<FromHub("PROTOCTL"), FromHub("SERVER")>> \o Append(q, line)
  <2>1. <<FromHub("PROTOCTL"), FromHub("SERVER")>> \in Seq(Line) /\ q \in Seq(Line) /\ line \in Line
    BY Lines, LateLines DEF LateLine
  <2> QED BY <1>2, <2>1
<1>3. ASSUME NEW q \in Seq(LateLine), p = <<FromHub("SERVER")>> \o q
      PROVE  Append(p, line) = <<FromHub("SERVER")>> \o Append(q, line)
  <2>1. <<FromHub("SERVER")>> \in Seq(Line) /\ q \in Seq(Line) /\ line \in Line
    BY Lines, LateLines DEF LateLine
  <2> QED BY <1>3, <2>1
<1>4. \A q \in Seq(LateLine) : \A T : Replays(T, q, F) => Replays(T, Append(q, line), G)
  BY ReplayAppend
<1> QED BY <1>1, <1>2, <1>3, <1>4 DEF Leads

\* What is under way when a line is read, or a part of one.
LEMMA ReadAgrees ==
  ASSUME TypeInv, AgreeInv, link = "linked", ReadPart \/ ReadLine
  PROVE  \E p \in Seq(Line) : Reading(p)' /\ Leads(p, servers', rsid', Whole(topo'))
<1>1. PICK p \in Seq(Line) : Reading(p) /\ Leads(p, servers, rsid, Whole(topo))
  BY DEF AgreeInv
<1>2. inq # <<>> /\ topo' = topo /\ Rest \notin Line /\ None \notin Line
  BY Lines, NetLines DEF ReadPart, ReadLine
<1>3. p # <<>> /\ Head(p) \in Line /\ Tail(p) \in Seq(Line)
  BY <1>1, <1>2 DEF Reading
<1>4. \/ partial = None /\ inq = p /\ Head(inq) # Rest
      \/ partial = Head(p) /\ partial # None /\ inq = <<Rest>> \o Tail(p) /\ Head(inq) = Rest /\ Tail(inq) = Tail(p)
  BY <1>1, <1>2, <1>3 DEF Reading
<1>5. CASE ReadPart
  <2>1. partial' = Head(p) /\ inq' = <<Rest>> \o Tail(p)
    BY <1>4, <1>5 DEF ReadPart
  <2>2. UNCHANGED <<servers, rsid>>
    BY <1>5 DEF ReadPart
  <2>3. Reading(p)'
    BY <1>3, <2>1 DEF Reading
  <2> QED BY <1>1, <1>2, <2>2, <2>3
<1>6. CASE ReadLine
  <2>1. parse_line(Head(p))
    BY <1>4, <1>6 DEF ReadLine
  <2>2. Leads(Tail(p), servers', rsid', Whole(topo))
    BY <1>1, <1>3, <2>1, ParseLeads
  <2>3. partial' = None /\ inq' = Tail(p)
    BY <1>4, <1>6 DEF ReadLine
  <2>4. Reading(Tail(p))'
    BY <2>3 DEF Reading
  <2> QED BY <1>2, <1>3, <2>2, <2>4
<1> QED BY <1>5, <1>6

\* A change of the network while the services are linked.
LEMMA TellAgrees ==
  ASSUME TypeInv, AgreeInv, link = "linked", NEW line \in LateLine, Tell(line),
         UNCHANGED service, topo' \in [Leaves -> Names \cup {None}],
         Whole(topo') = After(Whole(topo), line)
  PROVE  \E p \in Seq(Line) : Reading(p)' /\ Leads(p, servers', rsid', Whole(topo'))
<1>1. PICK p \in Seq(Line) : Reading(p) /\ Leads(p, servers, rsid, Whole(topo))
  BY DEF AgreeInv
<1>2. Whole(topo') \in SUBSET Server
  BY DEF Whole, Behinds, HubRec, Server, Names
<1>3. Leads(Append(p, line), servers, rsid, Whole(topo'))
  BY <1>1, <1>2, TellLeads
<1>4. line \in Line /\ Append(p, line) \in Seq(Line) /\ Append(p, line) # <<>>
  BY DEF LateLine
<1>5. inq' = Append(inq, line) /\ partial' = partial /\ servers' = servers /\ rsid' = rsid
  BY DEF Tell, service
<1>6. Reading(Append(p, line))'
  <2>1. CASE partial = None /\ inq = p
    BY <1>5, <2>1 DEF Reading
  <2>2. CASE partial \in Line /\ p # <<>> /\ Head(p) = partial /\ inq = <<Rest>> \o Tail(p)
    <3>1. Head(Append(p, line)) = Head(p) /\ Tail(Append(p, line)) = Append(Tail(p), line)
          /\ Tail(p) \in Seq(Line)
      BY <1>4, <2>2
    <3>2. Append(<<Rest>> \o Tail(p), line) = <<Rest>> \o Append(Tail(p), line)
      <4>1. PICK A : A = Line \cup {Rest}
        OBVIOUS
      <4>2. <<Rest>> \in Seq(A) /\ Tail(p) \in Seq(A) /\ line \in A
        BY <1>4, <3>1, <4>1
      <4> QED BY <4>2
    <3> QED BY <1>4, <1>5, <2>2, <3>1, <3>2 DEF Reading
  <2> QED BY <1>1, <2>1, <2>2 DEF Reading
<1> QED BY <1>3, <1>4, <1>5, <1>6

\* The burst begins.
LEMMA FlushAgrees ==
  ASSUME TypeInv, AgreeInv, Flush PROVE AgreeInv'
<1>1. connected /\ connected' = connected /\ UNCHANGED <<partial, servers, rsid, topo>>
  BY DEF Flush
<1>2. CASE link = "passed" /\ Head(outq) = "SERVER" /\ link' = "linked" /\ inq' \in Bursts
  <2>1. partial = None /\ servers = {}
    BY <1>2 DEF AgreeInv
  <2>2. PICK q \in Seq(LateLine) : /\ inq' = <<FromHub("PROTOCTL"), FromHub("SERVER")>> \o q
                                   /\ Replays({HubRec}, q, Whole(topo))
    BY <1>2, BurstReplays
  <2>3. inq' \in Seq(Line)
    BY <1>2, BurstType
  <2>4. Leads(inq', servers', rsid', Whole(topo'))
    BY <1>1, <2>1, <2>2 DEF Leads
  <2>5. PICK p \in Seq(Line) : p = inq'
    BY <2>3
  <2>6. Reading(p)' /\ Leads(p, servers', rsid', Whole(topo'))
    BY <1>1, <2>1, <2>4, <2>5 DEF Reading
  <2> QED BY <1>1, <1>2, <2>6 DEF AgreeInv
<1>3. CASE link = "accepted" /\ link' = "passed" /\ inq' = inq
  BY <1>1, <1>3 DEF AgreeInv
<1>4. CASE link' = link /\ inq' = inq
  BY <1>1, <1>4 DEF AgreeInv, Reading
<1> QED BY <1>2, <1>3, <1>4 DEF Flush

LEMMA NextAgrees ==
  ASSUME TypeInv, TreeInv, AttemptsWhileApart, AgreeInv, [Next]_vars PROVE AgreeInv'
<1>1. CASE PollError \/ PollInterrupted \/ SIGUSR2
  <2>1. net_disconnect
    BY <1>1 DEF PollError, PollInterrupted, SIGUSR2
  <2> QED BY <2>1, LossTree DEF net_disconnect, net_init, AgreeInv
<1>2. CASE ReadPart \/ ReadLine
  <2>1. inq # <<>> /\ connected /\ connected' = connected /\ link' = link
    BY <1>2 DEF ReadPart, ReadLine
  <2>2. link \notin {"none", "accepted", "passed"}
    BY <2>1 DEF AgreeInv
  <2> QED BY <1>2, <2>1, <2>2, ReadAgrees DEF AgreeInv
<1>3. CASE Connect
  <2>1. inq = <<>> /\ partial = None /\ servers = {}
    BY <1>3 DEF Connect, AttemptsWhileApart, AgreeInv
  <2> QED BY <1>3, <2>1 DEF Connect, AgreeInv
<1>4. CASE UNCHANGED <<connected, link, inq, partial, servers, rsid, topo>>
  BY <1>4 DEF AgreeInv, Reading
<1>5. CASE ConnectTimer \/ TimerClear \/ ConnectFails \/ Checks \/ UplinkBack
  BY <1>4, <1>5 DEF ConnectTimer, TimerClear, ConnectFails, Checks, UplinkBack, network, service
<1>6. CASE Flush
  BY <1>6, FlushAgrees
<1>7. CASE HandshakeTimeout
  BY <1>7 DEF HandshakeTimeout, AgreeInv, service
<1>8. CASE Break
  <2>1. UNCHANGED <<connected, partial, servers>> /\ link' = IF link = "none" THEN link ELSE "broken"
    BY <1>8 DEF Break, service
  <2>2. link = "none" => inq' = <<>>
    <3> SUFFICES ASSUME link = "none" PROVE inq' = <<>>
      OBVIOUS
    <3>1. inq = <<>>
      BY DEF AgreeInv
    <3>2. PICK n \in 0 .. 0 : inq' = SubSeq(<<>>, 1, n)
      BY <1>8, <3>1 DEF Break
    <3> QED BY <3>2
  <2> QED BY <2>1, <2>2 DEF AgreeInv
<1>9. ASSUME NEW l \in Leaves, NetSplit(l) PROVE AgreeInv'
  <2>1. PICK line : line = [cmd |-> "SQUIT", name |-> l, from |-> None]
    OBVIOUS
  <2>2. line \in LateLine
    BY <2>1, Lines DEF LateLine
  <2>3. Tell(line) /\ UNCHANGED <<service, link>> /\ Whole(topo') = After(Whole(topo), line)
    BY <1>9, <2>1, SplitAfter DEF NetSplit
  <2>4. topo' \in [Leaves -> Names \cup {None}]
    BY <1>9, NetTypes DEF TypeInv, NetworkType
  <2>5. CASE link = "linked"
    BY <2>2, <2>3, <2>4, <2>5, TellAgrees DEF AgreeInv, service
  <2>6. CASE link # "linked"
    BY <2>3, <2>6 DEF AgreeInv, Tell, service
  <2> QED BY <2>5, <2>6
<1>10. ASSUME NEW l \in Leaves, NEW x \in Names, NetLink(l, x) PROVE AgreeInv'
  <2>1. PICK line : line = [cmd |-> "SID", name |-> l, from |-> x]
    OBVIOUS
  <2>2. line \in LateLine
    BY <2>1, Lines DEF LateLine
  <2>3. Tell(line) /\ UNCHANGED <<service, link>> /\ Whole(topo') = After(Whole(topo), line)
    BY <1>10, <2>1, LinkAfter DEF NetLink
  <2>4. topo' \in [Leaves -> Names \cup {None}]
    BY <1>10, NetTypes DEF TypeInv, NetworkType
  <2>5. CASE link = "linked"
    BY <2>2, <2>3, <2>4, <2>5, TellAgrees DEF AgreeInv, service
  <2>6. CASE link # "linked"
    BY <2>3, <2>6 DEF AgreeInv, Tell, service
  <2> QED BY <2>5, <2>6
<1>11. CASE UNCHANGED vars
  BY <1>4, <1>11 DEF vars, service, network
<1> QED BY <1>1, <1>2, <1>3, <1>5, <1>6, <1>7, <1>8, <1>9, <1>10, <1>11 DEF Next, Loop, Environment

\* With the burst over and every line read, the services' tree is the network's: whatever
\* changed while the burst was under way, and however often the link was lost before
\* (m_protoctl, m_server, m_sid, m_squit, cleanup_reconnect).
THEOREM TreesAgree == Spec => []TreesAgreeAtRest
<1>1. Init => TypeInv /\ TreeInv /\ AgreeInv
  BY InitTypes, EmptyTree DEF Init, TreeInv, AgreeInv
<1>2. TypeInv /\ TreeInv /\ AttemptsWhileApart /\ AgreeInv /\ [Next]_vars
        => (TypeInv /\ TreeInv /\ AgreeInv)'
  BY NextTypes, NextTree, NextAgrees
<1>3. TypeInv /\ TreeInv /\ AgreeInv => TreesAgreeAtRest
  <2> SUFFICES ASSUME AgreeInv, link = "linked", inq = <<>>, partial = None
               PROVE  servers = Whole(topo)
    BY DEF TreesAgreeAtRest, Whole, Behinds, HubRec, InNetwork
  <2>1. PICK p \in Seq(Line) : Reading(p) /\ Leads(p, servers, rsid, Whole(topo))
    BY DEF AgreeInv
  <2>2. p = <<>>
    BY <2>1, NetLines DEF Reading
  <2>3. \A q \in Seq(LateLine) : <<FromHub("PROTOCTL"), FromHub("SERVER")>> \o q # <<>> /\ <<FromHub("SERVER")>> \o q # <<>>
    OBVIOUS
  <2>4. Replays(servers, <<>>, Whole(topo))
    BY <2>1, <2>2, <2>3 DEF Leads
  <2> QED BY <2>4, ReplayNone
<1> QED BY <1>1, <1>2, <1>3, AttemptsKept, PTL DEF Spec

=============================================================================
