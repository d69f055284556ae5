------------------------------- MODULE Watch -------------------------------
(***************************************************************************)
(* Who may come in: the count of connections per address, the trusts that  *)
(* raise its limit, and SecServ, which kills or bans connections with bad  *)
(* nick names and changes that limit with its security level.  The network *)
(* and the services tell each other of connections, kills and bans through *)
(* two queues and do not wait.                                             *)
(*                                                                         *)
(* Operators ending in _slip are faulty variants, used by no specification *)
(* (README, "What the properties can see").                                *)
(***************************************************************************)
EXTENDS Integers, FiniteSets, SequencesExt

CONSTANTS
  Conns,       \* connections; no name is taken while a KILL of it is under way
  Addresses,   \* where they come from, as <<host, ip>>; none is localhost
  Keys,        \* hosts and ranges of addresses that may have a trust
  Covers,      \* the ips that a key stands for
  TrustLimits, \* limits of trusts
  Nobody,      \* no address, no trust
  Configured,  \* maxclones of the configuration
  MaxKills,    \* maxkills of SecServ
  MaxGlines,   \* maxglines of SecServ
  MaxPending,  \* bound: lines under way to the services when somebody acts
  MaxSent      \* bound: lines under way to the network when somebody acts

Ips == {a[2] : a \in Addresses}

ASSUME WatchConns == IsFiniteSet(Conns)
ASSUME WatchCovers == Covers \in [Keys -> SUBSET Ips]
ASSUME WatchNumbers == TrustLimits \subseteq Nat /\ Configured \in Nat
ASSUME WatchBounds == {MaxKills, MaxGlines, MaxPending, MaxSent} \subseteq Nat \ {0}
ASSUME WatchNobody == Nobody \notin Addresses /\ Nobody \notin TrustLimits

VARIABLES
  online,     \* the network: connection -> its address, or Nobody
  glined,     \* the network: ips that are banned
  toServices, \* lines the services have not read
  toNet,      \* lines the uplink has not read
  nicks,      \* the services' nicks: connection -> its address, or Nobody
  clones,     \* core->clones: ip -> count, 0 without an entry
  trusts,     \* key -> limit, or Nobody
  maxclones,  \* config->maxclones, which SecServ changes
  seclev, perm, kills, glines, rmode, old_maxclones,   \* SecServ
  listed      \* the configuration names SecServ among the modules to load

network == <<online, glined>>
sec == <<maxclones, seclev, perm, kills, glines, rmode, old_maxclones>>
vars == <<network, toServices, toNet, nicks, clones, trusts, sec, listed>>

\* bad: the nick name has three digits or more after its first letter.
Line == [cmd : {"UID", "NICK"}, who : Conns, from : Addresses, bad : BOOLEAN]
        \cup [cmd : {"QUIT"}, who : Conns]

Order == [cmd : {"KILL"}, who : Conns] \cup [cmd : {"GLINE"}, ip : Ips]

TypeOK ==
  /\ online \in [Conns -> Addresses \cup {Nobody}] /\ glined \subseteq Ips
  /\ Range(toServices) \subseteq Line /\ Range(toNet) \subseteq Order
  /\ nicks \in [Conns -> Addresses \cup {Nobody}]
  /\ clones \in [Ips -> 0 .. Cardinality(Conns)]
  /\ trusts \in [Keys -> TrustLimits \cup {Nobody}]
  /\ {maxclones, old_maxclones} \subseteq {1, 2, Configured} /\ listed \in BOOLEAN
  /\ seclev \in 0 .. 4 /\ perm \in 0 .. 2
  /\ kills \in 0 .. MaxKills /\ glines \in 0 .. MaxGlines /\ rmode \in BOOLEAN

Users(table, ip) == {n \in Conns : table[n] # Nobody /\ table[n][2] = ip}

-----------------------------------------------------------------------------
(* Clones and trusts *)

\* find_trust_strict by host, then find_trust by ip, which takes the first of
\* several that fit.
TrustsFor(a) ==
  LET set == {k \in Keys : trusts[k] # Nobody}
  IN IF a[1] \in set THEN {a[1]} ELSE {k \in set : a[2] \in Covers[k]}

\* How many connections the address may have.
Limits(a) == IF TrustsFor(a) = {} THEN {maxclones} ELSE {trusts[k] : k \in TrustsFor(a)}

\* new_nick and delete_nick; the _slip releases no count.
Released_slip(a) == clones

Released(a) == [clones EXCEPT ![a[2]] = @ - 1]

Counted(a) == [clones EXCEPT ![a[2]] = @ + 1]

userquit(n) == nicks' = [nicks EXCEPT ![n] = Nobody] /\ clones' = Released(nicks[n])

-----------------------------------------------------------------------------
(* SecServ *)

\* set_seclev, which does nothing for a level that is none or is in force.
set_seclev_slip(l) ==   \* the channels keep their mode
  IF l \notin 0 .. 4 \ {seclev} THEN UNCHANGED <<seclev, maxclones, rmode>>
  ELSE seclev' = l /\ rmode' = (rmode \/ l = 3)
       /\ maxclones' = CASE l \in {0, 1} -> old_maxclones [] l \in {2, 3} -> 2 [] l = 4 -> 1

set_seclev(l) ==
  IF l \notin 0 .. 4 \ {seclev} THEN UNCHANGED <<seclev, maxclones, rmode>>
  ELSE /\ seclev' = l
       /\ maxclones' = CASE l \in {0, 1} -> old_maxclones [] l \in {2, 3} -> 2 [] l = 4 -> 1
       /\ rmode' = CASE l <= 2 -> rmode /\ seclev <= 2 [] l = 3 -> TRUE [] l = 4 -> rmode

\* A counter is compared with its limit only, and stops there.
Up(counter, limit) == IF counter < limit THEN counter + 1 ELSE limit

\* The level rises by itself.
MayRise_slip == TRUE

MayRise == perm < 2

Escalate(full, l) == IF full /\ MayRise THEN set_seclev(l) ELSE UNCHANGED <<seclev, maxclones, rmode>>

\* check_nick kills or bans, or lets pass; a killed nick is freed at once, and
\* what the handler then does with it touches nothing of this module.
Kills(bad) == seclev = 4 \/ (bad /\ seclev = 1)
Bans(bad) == bad /\ seclev \in {2, 3}

KillNick ==
  /\ kills' = Up(kills, MaxKills)
  /\ Escalate(seclev = 1 /\ kills' >= MaxKills, 2)
  /\ UNCHANGED <<perm, glines, old_maxclones>>

GlineNick ==
  /\ glines' = Up(glines, MaxGlines)
  /\ Escalate(seclev = 2 /\ glines' >= MaxGlines, 3)
  /\ UNCHANGED <<perm, kills, old_maxclones>>

KillOf(n) == [cmd |-> "KILL", who |-> n]
GlineOf(a) == [cmd |-> "GLINE", ip |-> a[2]]

\* _killuser; the _slip sends nothing.
WithKill_slip(n) == toNet

WithKill(n) == Append(toNet, KillOf(n))

-----------------------------------------------------------------------------
(* Lines from the uplink *)

Reads(cmd) == toServices # <<>> /\ Head(toServices).cmd = cmd /\ toServices' = Tail(toServices)

\* A new connection: refused, or counted and looked at.
m_uid ==
  LET l == Head(toServices)
  IN /\ Reads("UID")
     /\ \E limit \in Limits(l.from) :
          IF clones[l.from[2]] >= limit \/ Kills(l.bad)
          THEN /\ toNet' = WithKill(l.who) /\ UNCHANGED <<nicks, clones>>
               /\ IF clones[l.from[2]] >= limit THEN UNCHANGED sec ELSE KillNick
          ELSE /\ nicks' = [nicks EXCEPT ![l.who] = l.from] /\ clones' = Counted(l.from)
               /\ IF Bans(l.bad) THEN GlineNick /\ toNet' = Append(toNet, GlineOf(l.from))
                  ELSE UNCHANGED <<toNet, sec>>
     /\ UNCHANGED <<network, trusts, listed>>

\* A change of nick name, of a connection that the services know or not.
m_nick ==
  LET l == Head(toServices)
  IN /\ Reads("NICK")
     /\ CASE nicks[l.who] # Nobody /\ Kills(l.bad) ->
               userquit(l.who) /\ KillNick /\ toNet' = WithKill(l.who)
          [] nicks[l.who] # Nobody /\ Bans(l.bad) ->
               GlineNick /\ toNet' = Append(toNet, GlineOf(l.from)) /\ UNCHANGED <<nicks, clones>>
          [] OTHER -> UNCHANGED <<nicks, clones, toNet, sec>>
     /\ UNCHANGED <<network, trusts, listed>>

m_quit ==
  LET n == Head(toServices).who
  IN /\ Reads("QUIT")
     /\ IF nicks[n] # Nobody THEN userquit(n) ELSE UNCHANGED <<nicks, clones>>
     /\ UNCHANGED <<network, toNet, trusts, sec, listed>>

\* PING: reset_vars.  Counters go back, and the level if nobody fixed it.
m_ping ==
  /\ IF seclev > 1 /\ perm = 0 THEN set_seclev(seclev - 1) ELSE UNCHANGED <<seclev, maxclones, rmode>>
  /\ kills' = 0 /\ glines' = 0
  /\ UNCHANGED <<network, toServices, toNet, nicks, clones, trusts, perm, old_maxclones, listed>>

\* The uplink is lost and found: its burst tells of everybody again.
cleanup_reconnect ==
  /\ toNet' = <<>>
  /\ nicks' = [n \in Conns |-> Nobody] /\ clones' = [i \in Ips |-> 0]
  /\ \E s \in SetToSeqs({n \in Conns : online[n] # Nobody}), bad \in SUBSET Conns :
       toServices' = [i \in DOMAIN s |->
                        [cmd |-> "UID", who |-> s[i], from |-> online[s[i]], bad |-> s[i] \in bad]]
  /\ UNCHANGED <<network, trusts, sec, listed>>

-----------------------------------------------------------------------------
(* Operators *)

\* SECLEV with a level and perhaps a perm; the owner may give any, lower ranks
\* are refused some.
secserv_cmds(l, p) ==
  /\ perm' = p /\ set_seclev(l)
  /\ UNCHANGED <<network, toServices, toNet, nicks, clones, trusts, kills, glines, old_maxclones, listed>>

oper_trustadd(k, limit) ==
  /\ trusts' = [trusts EXCEPT ![k] = limit]
  /\ UNCHANGED <<network, toServices, toNet, nicks, clones, sec, listed>>

oper_trustdel(k) ==
  /\ trusts[k] # Nobody /\ trusts' = [trusts EXCEPT ![k] = Nobody]
  /\ UNCHANGED <<network, toServices, toNet, nicks, clones, sec, listed>>

\* SIGHUP and REHASH read the configuration, whatever the level.  SecServ is
\* loaded anew, if it is listed, before the number of clones is read.
loadconf ==
  /\ maxclones' = Configured
  /\ IF listed
     THEN /\ seclev' = 1 /\ perm' = 0 /\ kills' = 0 /\ glines' = 0 /\ rmode' = FALSE
          /\ old_maxclones' = maxclones
     ELSE UNCHANGED <<seclev, perm, kills, glines, rmode, old_maxclones>>
  /\ UNCHANGED <<network, toServices, toNet, nicks, clones, trusts, listed>>

Command ==
  \/ \E l \in 0 .. 4, p \in 0 .. 2 : secserv_cmds(l, p)
  \/ \E k \in Keys : oper_trustdel(k) \/ \E limit \in TrustLimits : oper_trustadd(k, limit)

-----------------------------------------------------------------------------
(* The network *)

Acts == Len(toServices) < MaxPending /\ Len(toNet) < MaxSent

Told(n) == \E i \in DOMAIN toServices : toServices[i].who = n

Connect(n, a, bad) ==
  /\ Acts /\ online[n] = Nobody /\ ~Told(n) /\ KillOf(n) \notin Range(toNet)
  /\ a[2] \notin glined
  /\ online' = [online EXCEPT ![n] = a]
  /\ toServices' = Append(toServices, [cmd |-> "UID", who |-> n, from |-> a, bad |-> bad])
  /\ UNCHANGED <<glined, toNet, nicks, clones, trusts, sec, listed>>

Rename(n, bad) ==
  /\ Acts /\ online[n] # Nobody
  /\ toServices' = Append(toServices, [cmd |-> "NICK", who |-> n, from |-> online[n], bad |-> bad])
  /\ UNCHANGED <<network, toNet, nicks, clones, trusts, sec, listed>>

Leave(n) ==
  /\ Acts /\ online[n] # Nobody
  /\ online' = [online EXCEPT ![n] = Nobody]
  /\ toServices' = Append(toServices, [cmd |-> "QUIT", who |-> n])
  /\ UNCHANGED <<glined, toNet, nicks, clones, trusts, sec, listed>>

\* A KILL is not told back to where it came from; who is banned quits.
Obey ==
  LET o == Head(toNet)
  IN /\ toNet # <<>> /\ toNet' = Tail(toNet)
     /\ IF o.cmd = "KILL"
        THEN online' = [online EXCEPT ![o.who] = Nobody] /\ UNCHANGED <<glined, toServices>>
        ELSE /\ glined' = glined \cup {o.ip}
             /\ online' = [n \in Conns |-> IF n \in Users(online, o.ip) THEN Nobody ELSE online[n]]
             /\ \E s \in SetToSeqs(Users(online, o.ip)) :
                  toServices' = toServices \o [i \in DOMAIN s |-> [cmd |-> "QUIT", who |-> s[i]]]
     /\ UNCHANGED <<nicks, clones, trusts, sec, listed>>

GlineExpires(ip) ==
  /\ ip \in glined /\ glined' = glined \ {ip}
  /\ UNCHANGED <<online, toServices, toNet, nicks, clones, trusts, sec, listed>>

-----------------------------------------------------------------------------

Init ==
  /\ online = [n \in Conns |-> Nobody] /\ glined = {}
  /\ toServices = <<>> /\ toNet = <<>>
  /\ nicks = [n \in Conns |-> Nobody] /\ clones = [i \in Ips |-> 0]
  /\ trusts = [k \in Keys |-> Nobody]
  /\ maxclones = Configured /\ old_maxclones = Configured /\ listed \in BOOLEAN
  /\ seclev = 1 /\ perm = 0 /\ kills = 0 /\ glines = 0 /\ rmode = FALSE

Network ==
  \/ \E n \in Conns :
       Leave(n) \/ \E bad \in BOOLEAN : Rename(n, bad) \/ \E a \in Addresses : Connect(n, a, bad)
  \/ Obey \/ \E ip \in Ips : GlineExpires(ip)

Next == m_uid \/ m_nick \/ m_quit \/ m_ping \/ cleanup_reconnect \/ loadconf \/ Command \/ Network

Spec == Init /\ [][Next]_vars

-----------------------------------------------------------------------------
(* Properties *)

\* The count of an address is the number of its nicks, however they come and go
\* (new_nick, DeleteWildNick, clear_nicks).
CountsMatch == \A ip \in Ips : clones[ip] = Cardinality(Users(nicks, ip))

\* With nothing under way the services know exactly the connections there are, so
\* nobody is refused for one that has gone (m_uid, userquit, check_nick).
TablesAgreeAtRest == toServices = <<>> /\ toNet = <<>> => nicks = online

\* What a level brings is in force at that level and goes with it, however it was
\* reached and left: SecServ holds the channels restricted (rmode) at 3, never below,
\* and at 4 if it did before; at the levels without a limit of clones of their own the
\* configured one is back, but where SecServ may be loaded anew at a higher level
\* (set_seclev, reset_vars, check_nick).
LevelIsInForce ==
  /\ (seclev <= 2 => ~rmode) /\ (seclev = 3 => rmode)
  /\ ~listed /\ seclev <= 1 => maxclones = Configured

\* What an operator fixed stays: without a command, a permanent level does not
\* move, and one that may only rise does not fall, but for SecServ's being loaded anew
\* (reset_vars, check_nick).
FixedLevelStays ==
  [][seclev' # seclev => Command \/ (listed /\ loadconf) \/ (perm < 2 /\ (perm = 1 => seclev' > seclev))]_vars

=============================================================================
