----------------------------- MODULE WatchProofs -----------------------------
(***************************************************************************)
(* Proofs about Watch, for any connections, addresses, trusts and limits,  *)
(* and about Flood, the other guard against too much, for any settings.    *)
(*                                                                         *)
(* The counts are right because a UID is read only for a connection that   *)
(* the services do not have, and the tables agree at rest because of what  *)
(* is under way: QueueInv says what the two queues hold about a connection.*)
(***************************************************************************)
EXTENDS Watch, Flood, FiniteSetTheorems, TLAPS

-----------------------------------------------------------------------------
(* SecServ's levels *)

\* The variables of SecServ keep their types, a level's measures are in force, and
\* the limit to go back to is the configured one where SecServ is not loaded anew.
LevelInv ==
  /\ seclev \in 0 .. 4 /\ perm \in 0 .. 2 /\ rmode \in BOOLEAN
  /\ kills \in 0 .. MaxKills /\ glines \in 0 .. MaxGlines
  /\ {maxclones, old_maxclones} \subseteq {1, 2, Configured} /\ listed \in BOOLEAN
  /\ ~listed => old_maxclones = Configured
  /\ LevelIsInForce

\* A program that has started is at level 1, whose measures are none.
LEMMA LevelInit == Init => LevelInv
<1> SUFFICES ASSUME Init PROVE LevelInv
  OBVIOUS
<1>1. seclev = 1 /\ perm = 0 /\ kills = 0 /\ glines = 0 /\ MaxKills \in Nat /\ MaxGlines \in Nat
  BY WatchBounds DEF Init
<1>2. rmode = FALSE /\ maxclones = Configured /\ old_maxclones = Configured /\ listed \in BOOLEAN
  BY DEF Init
<1>3. LevelIsInForce
  BY <1>1, <1>2 DEF LevelIsInForce
<1>4. kills \in 0 .. MaxKills /\ glines \in 0 .. MaxGlines /\ seclev \in 0 .. 4 /\ perm \in 0 .. 2
  BY <1>1
<1> QED BY <1>2, <1>3, <1>4, Zenon DEF LevelInv

\* A change of the level alone.
LEMMA SetLevel ==
  ASSUME LevelInv, NEW l \in Int, set_seclev(l),
         UNCHANGED <<old_maxclones, listed>>
  PROVE  /\ seclev' \in 0 .. 4 /\ rmode' \in BOOLEAN
         /\ {maxclones', old_maxclones'} \subseteq {1, 2, Configured} /\ listed' \in BOOLEAN
         /\ ~listed' => old_maxclones' = Configured
         /\ LevelIsInForce'
<1>1. CASE l \notin 0 .. 4 \ {seclev}
  BY <1>1 DEF LevelInv, LevelIsInForce, set_seclev
<1>2. CASE l \in {0, 1} /\ l # seclev
  <2>0. l <= 2 /\ l # 3 /\ l # 4 /\ l \in 0 .. 4 \ {seclev}
    BY <1>2 DEF LevelInv
  <2>1. seclev' = l /\ maxclones' = old_maxclones /\ rmode' = (rmode /\ seclev <= 2)
    BY <1>2, <2>0, Zenon DEF set_seclev
  <2>2. ~(rmode /\ seclev <= 2)
    BY DEF LevelInv, LevelIsInForce
  <2>3. rmode' = FALSE
    BY <2>1, <2>2
  <2> QED BY <1>2, <2>1, <2>3 DEF LevelInv, LevelIsInForce
<1>3. CASE l = 2 /\ l # seclev
  <2>1. seclev' = l /\ maxclones' = 2 /\ rmode' = (rmode /\ seclev <= 2)
    BY <1>3 DEF set_seclev
  <2>2. ~(rmode /\ seclev <= 2)
    BY DEF LevelInv, LevelIsInForce
  <2>3. rmode' = FALSE
    BY <2>1, <2>2
  <2> QED BY <1>3, <2>1, <2>3 DEF LevelInv, LevelIsInForce
<1>4. CASE l = 3 /\ l # seclev
  BY <1>4 DEF LevelInv, LevelIsInForce, set_seclev
<1>5. CASE l = 4 /\ l # seclev
  BY <1>5 DEF LevelInv, LevelIsInForce, set_seclev
<1> QED BY <1>1, <1>2, <1>3, <1>4, <1>5

\* The same without a change.
LEMMA KeepLevel ==
  ASSUME LevelInv, UNCHANGED <<seclev, maxclones, rmode, old_maxclones, listed>>
  PROVE  /\ seclev' \in 0 .. 4 /\ rmode' \in BOOLEAN
         /\ {maxclones', old_maxclones'} \subseteq {1, 2, Configured} /\ listed' \in BOOLEAN
         /\ ~listed' => old_maxclones' = Configured
         /\ LevelIsInForce'
  BY DEF LevelInv, LevelIsInForce

\* Killing a nick, with the rise of the level that may follow.
LEMMA KillLevel == LevelInv /\ KillNick /\ UNCHANGED listed => LevelInv'
<1> SUFFICES ASSUME LevelInv, KillNick, UNCHANGED listed PROVE LevelInv'
  OBVIOUS
<1>1. kills' \in 0 .. MaxKills /\ perm' \in 0 .. 2 /\ glines' \in 0 .. MaxGlines
  BY WatchBounds DEF LevelInv, KillNick, Up
<1>2. CASE set_seclev(2)
  BY <1>1, <1>2, SetLevel DEF LevelInv, KillNick
<1>3. CASE UNCHANGED <<seclev, maxclones, rmode>>
  BY <1>1, <1>3, KeepLevel DEF LevelInv, KillNick
<1> QED BY <1>2, <1>3 DEF KillNick, Escalate

\* The same for a ban.
LEMMA GlineLevel == LevelInv /\ GlineNick /\ UNCHANGED listed => LevelInv'
<1> SUFFICES ASSUME LevelInv, GlineNick, UNCHANGED listed PROVE LevelInv'
  OBVIOUS
<1>1. glines' \in 0 .. MaxGlines /\ perm' \in 0 .. 2 /\ kills' \in 0 .. MaxKills
  BY WatchBounds DEF LevelInv, GlineNick, Up
<1>2. CASE set_seclev(3)
  BY <1>1, <1>2, SetLevel DEF LevelInv, GlineNick
<1>3. CASE UNCHANGED <<seclev, maxclones, rmode>>
  BY <1>1, <1>3, KeepLevel DEF LevelInv, GlineNick
<1> QED BY <1>2, <1>3 DEF GlineNick, Escalate

\* What a step can do to SecServ.
LevelStep ==
  \/ KillNick /\ UNCHANGED listed
  \/ GlineNick /\ UNCHANGED listed
  \/ UNCHANGED <<sec, listed>>
  \/ m_ping
  \/ \E l \in 0 .. 4, p \in 0 .. 2 : secserv_cmds(l, p)
  \/ loadconf

\* Every step does one of these.
LEMMA LevelStepNext == [Next]_vars => LevelStep
<1> SUFFICES ASSUME [Next]_vars PROVE LevelStep
  OBVIOUS
<1>1. CASE m_uid
  BY <1>1 DEF m_uid, LevelStep
<1>2. CASE m_nick
  BY <1>2 DEF m_nick, LevelStep
<1>3. CASE m_quit \/ cleanup_reconnect
  BY <1>3 DEF m_quit, cleanup_reconnect, LevelStep
<1>4. CASE m_ping \/ loadconf
  BY <1>4 DEF LevelStep
<1>5. CASE Command
  BY <1>5 DEF Command, oper_trustadd, oper_trustdel, LevelStep
<1>6. CASE Network
  BY <1>6 DEF Network, Leave, Rename, Connect, Obey, GlineExpires, LevelStep
<1>7. CASE UNCHANGED vars
  BY <1>7 DEF vars, LevelStep
<1> QED BY <1>1, <1>2, <1>3, <1>4, <1>5, <1>6, <1>7 DEF Next

\* Every step keeps the level's invariant.
LEMMA LevelKept == LevelInv /\ [Next]_vars => LevelInv'
<1> SUFFICES ASSUME LevelInv, LevelStep PROVE LevelInv'
  BY LevelStepNext
<1>1. CASE KillNick /\ UNCHANGED listed
  BY <1>1, KillLevel
<1>2. CASE GlineNick /\ UNCHANGED listed
  BY <1>2, GlineLevel
<1>3. CASE UNCHANGED <<sec, listed>>
  BY <1>3 DEF sec, LevelInv, LevelIsInForce
<1>4. CASE m_ping
  <2>1. perm' \in 0 .. 2 /\ kills' \in 0 .. MaxKills /\ glines' \in 0 .. MaxGlines
    BY <1>4, WatchBounds DEF m_ping, LevelInv
  <2>2. CASE set_seclev(seclev - 1)
    BY <1>4, <2>1, <2>2, SetLevel DEF m_ping, LevelInv
  <2>3. CASE UNCHANGED <<seclev, maxclones, rmode>>
    BY <1>4, <2>1, <2>3, KeepLevel DEF m_ping, LevelInv
  <2> QED BY <1>4, <2>2, <2>3 DEF m_ping
<1>5. ASSUME NEW l \in 0 .. 4, NEW p \in 0 .. 2, secserv_cmds(l, p) PROVE LevelInv'
  BY <1>5, SetLevel DEF secserv_cmds, LevelInv
<1>6. CASE loadconf
  <2>1. CASE listed
    <3>1. seclev' = 1 /\ perm' = 0 /\ kills' = 0 /\ glines' = 0 /\ MaxKills \in Nat /\ MaxGlines \in Nat
      BY <1>6, <2>1, WatchBounds DEF loadconf
    <3>2. rmode' = FALSE /\ maxclones' = Configured /\ old_maxclones' = maxclones /\ listed' = TRUE
      BY <1>6, <2>1 DEF loadconf, LevelInv
    <3>3. LevelIsInForce'
      BY <3>1, <3>2 DEF LevelIsInForce
    <3>4. /\ kills' \in 0 .. MaxKills /\ glines' \in 0 .. MaxGlines /\ seclev' \in 0 .. 4
          /\ perm' \in 0 .. 2 /\ {maxclones', old_maxclones'} \subseteq {1, 2, Configured}
      BY <3>1, <3>2 DEF LevelInv
    <3> QED BY <3>2, <3>3, <3>4, Zenon DEF LevelInv
  <2>2. CASE ~listed
    BY <1>6, <2>2 DEF loadconf, LevelInv, LevelIsInForce
  <2> QED BY <2>1, <2>2
<1> QED BY <1>1, <1>2, <1>3, <1>4, <1>5, <1>6 DEF LevelStep

\* At every moment the measures of SecServ's level are in force and those of the
\* other levels are not (set_seclev, reset_vars, check_nick).
THEOREM LevelCorrect == Spec => []LevelIsInForce
<1>1. LevelInv => LevelIsInForce
  BY DEF LevelInv
<1> QED BY <1>1, LevelInit, LevelKept, PTL DEF Spec

\* A level that an operator fixed moves by commands and by loading SecServ only
\* (reset_vars, check_nick).
THEOREM LevelsStayFixed == Spec => FixedLevelStays
<1>1. LevelInv /\ [Next]_vars =>
        (seclev' # seclev =>
           Command \/ (listed /\ loadconf) \/ (perm < 2 /\ (perm = 1 => seclev' > seclev)))
  <2> SUFFICES ASSUME LevelInv, [Next]_vars, seclev' # seclev
               PROVE  Command \/ (listed /\ loadconf) \/ (perm < 2 /\ (perm = 1 => seclev' > seclev))
    OBVIOUS
  <2>1. CASE KillNick
    BY <2>1 DEF KillNick, Escalate, MayRise, set_seclev, LevelInv
  <2>2. CASE GlineNick
    <3>1. seclev = 2 /\ MayRise /\ set_seclev(3)
      BY <2>2 DEF GlineNick, Escalate
    <3>2. seclev' = 3 /\ seclev = 2
      BY <3>1 DEF set_seclev
    <3> QED BY <3>1, <3>2 DEF MayRise
  <2>3. CASE UNCHANGED sec
    BY <2>3 DEF sec
  <2>4. CASE m_ping
    BY <2>4 DEF m_ping
  <2>5. CASE \E l \in 0 .. 4, p \in 0 .. 2 : secserv_cmds(l, p)
    BY <2>5 DEF Command
  <2>6. CASE loadconf
    BY <2>6 DEF loadconf
  <2> QED BY <2>1, <2>2, <2>3, <2>4, <2>5, <2>6, LevelStepNext DEF LevelStep
<1> QED BY <1>1, LevelInit, LevelKept, PTL DEF Spec, FixedLevelStays

-----------------------------------------------------------------------------
(* What is under way *)

HasUid(s, n) == \E i \in 1 .. Len(s) : s[i].cmd = "UID" /\ s[i].who = n
HasUidOf(s, n, a) == \E i \in 1 .. Len(s) : s[i].cmd = "UID" /\ s[i].who = n /\ s[i].from = a
HasQuit(s, n) == \E i \in 1 .. Len(s) : s[i].cmd = "QUIT" /\ s[i].who = n
HasLine(s, n) == \E i \in 1 .. Len(s) : s[i].who = n

\* No line about a connection precedes its UID, and there is one UID at most.
UidFirst(s, n) ==
  \A i, j \in 1 .. Len(s) : s[i].cmd = "UID" /\ s[i].who = n /\ s[j].who = n => i <= j

KillSent(s, n) == \E i \in 1 .. Len(s) : s[i] = KillOf(n)

\* A connection that the services have, or are told of, is there, or its QUIT is under
\* way; one that is there is known, told of, or about to be killed; and a UID is read
\* when the services do not have the connection.
QueueOf(n) ==
  /\ UidFirst(toServices, n)
  /\ HasUid(toServices, n) => nicks[n] = Nobody
  /\ nicks[n] # Nobody \/ HasUid(toServices, n) => online[n] # Nobody \/ HasQuit(toServices, n)
  /\ HasQuit(toServices, n) => online[n] = Nobody
  /\ KillSent(toNet, n) => nicks[n] = Nobody /\ ~HasUid(toServices, n)
  /\ online[n] # Nobody =>
       nicks[n] = online[n] \/ HasUidOf(toServices, n, online[n]) \/ KillSent(toNet, n)

QueueType ==
  /\ online \in [Conns -> Addresses \cup {Nobody}] /\ nicks \in [Conns -> Addresses \cup {Nobody}]
  /\ toServices \in Seq(Line) /\ toNet \in Seq(Order)

QueueInv == QueueType /\ \A n \in Conns : QueueOf(n)

\* What reading the first line does to the predicates above.
LEMMA TailLines ==
  ASSUME NEW s \in Seq(Line), s # <<>>, NEW n \in Conns, UidFirst(s, n)
  PROVE  /\ Head(s) \in Line /\ Tail(s) \in Seq(Line)
         /\ UidFirst(Tail(s), n)
         /\ HasUid(Tail(s), n) => HasUid(s, n) /\ Head(s).who # n
         /\ HasQuit(Tail(s), n) => HasQuit(s, n)
         /\ HasQuit(s, n) => HasQuit(Tail(s), n) \/ (Head(s).cmd = "QUIT" /\ Head(s).who = n)
         /\ \A a : HasUidOf(s, n, a) =>
              HasUidOf(Tail(s), n, a) \/ (Head(s).cmd = "UID" /\ Head(s).who = n /\ Head(s).from = a)
<1>1. /\ Len(s) \in Nat \ {0} /\ Tail(s) \in Seq(Line) /\ Len(Tail(s)) = Len(s) - 1
      /\ Head(s) = s[1] /\ Head(s) \in Line
      /\ \A i \in 1 .. Len(Tail(s)) : Tail(s)[i] = s[i + 1] /\ i + 1 \in 1 .. Len(s)
  OBVIOUS
<1>2. \A i \in 1 .. Len(s) : i = 1 \/ (i - 1 \in 1 .. Len(Tail(s)) /\ Tail(s)[i - 1] = s[i])
  BY <1>1
<1>3. UidFirst(Tail(s), n)
  <2> SUFFICES ASSUME NEW i \in 1 .. Len(Tail(s)), NEW j \in 1 .. Len(Tail(s)),
                      Tail(s)[i].cmd = "UID", Tail(s)[i].who = n, Tail(s)[j].who = n
               PROVE  i <= j
    BY DEF UidFirst
  <2> QED BY <1>1 DEF UidFirst
<1>4. HasUid(Tail(s), n) => HasUid(s, n) /\ Head(s).who # n
  <2> SUFFICES ASSUME NEW i \in 1 .. Len(Tail(s)), Tail(s)[i].cmd = "UID", Tail(s)[i].who = n
               PROVE  HasUid(s, n) /\ Head(s).who # n
    BY DEF HasUid
  <2>1. HasUid(s, n)
    BY <1>1 DEF HasUid
  <2>2. Head(s).who # n
    BY <1>1 DEF UidFirst
  <2> QED BY <2>1, <2>2
<1>5. HasQuit(Tail(s), n) => HasQuit(s, n)
  BY <1>1 DEF HasQuit
<1>6. HasQuit(s, n) => HasQuit(Tail(s), n) \/ (Head(s).cmd = "QUIT" /\ Head(s).who = n)
  BY <1>1, <1>2 DEF HasQuit
<1>7. \A a : HasUidOf(s, n, a) =>
        HasUidOf(Tail(s), n, a) \/ (Head(s).cmd = "UID" /\ Head(s).who = n /\ Head(s).from = a)
  BY <1>1, <1>2 DEF HasUidOf
<1> QED BY <1>1, <1>3, <1>4, <1>5, <1>6, <1>7

\* What telling a line does to them.
LEMMA AppendLine ==
  ASSUME NEW s \in Seq(Line), NEW l \in Line, NEW n \in Conns, UidFirst(s, n)
  PROVE  /\ Append(s, l) \in Seq(Line)
         /\ ~(l.cmd = "UID" /\ l.who = n /\ HasLine(s, n)) => UidFirst(Append(s, l), n)
         /\ HasUid(Append(s, l), n) <=> HasUid(s, n) \/ (l.cmd = "UID" /\ l.who = n)
         /\ HasQuit(Append(s, l), n) <=> HasQuit(s, n) \/ (l.cmd = "QUIT" /\ l.who = n)
         /\ \A a : HasUidOf(Append(s, l), n, a) <=>
              HasUidOf(s, n, a) \/ (l.cmd = "UID" /\ l.who = n /\ l.from = a)
<1> DEFINE t == Append(s, l)
<1>1. /\ Len(s) \in Nat /\ t \in Seq(Line) /\ Len(t) = Len(s) + 1 /\ t[Len(t)] = l
      /\ \A i \in 1 .. Len(s) : t[i] = s[i] /\ i \in 1 .. Len(t)
      /\ Len(t) \in 1 .. Len(t)
      /\ \A i \in 1 .. Len(t) : i \in 1 .. Len(s) \/ i = Len(t)
  OBVIOUS
<1> HIDE DEF t
<1>2. ~(l.cmd = "UID" /\ l.who = n /\ HasLine(s, n)) => UidFirst(t, n)
  <2> SUFFICES ASSUME ~(l.cmd = "UID" /\ l.who = n /\ HasLine(s, n)),
                      NEW i \in 1 .. Len(t), NEW j \in 1 .. Len(t),
                      t[i].cmd = "UID", t[i].who = n, t[j].who = n
               PROVE  i <= j
    BY DEF UidFirst
  <2>1. CASE j = Len(t)
    BY <1>1, <2>1
  <2>2. CASE i \in 1 .. Len(s) /\ j \in 1 .. Len(s)
    BY <1>1, <2>2 DEF UidFirst
  <2>3. CASE i = Len(t) /\ j \in 1 .. Len(s)
    BY <1>1, <2>3 DEF HasLine
  <2> QED BY <1>1, <2>1, <2>2, <2>3
<1>3. HasUid(t, n) <=> HasUid(s, n) \/ (l.cmd = "UID" /\ l.who = n)
  BY <1>1 DEF HasUid
<1>4. HasQuit(t, n) <=> HasQuit(s, n) \/ (l.cmd = "QUIT" /\ l.who = n)
  BY <1>1 DEF HasQuit
<1>5. \A a : HasUidOf(t, n, a) <=>
        HasUidOf(s, n, a) \/ (l.cmd = "UID" /\ l.who = n /\ l.from = a)
  BY <1>1 DEF HasUidOf
<1> QED BY <1>1, <1>2, <1>3, <1>4, <1>5 DEF t

\* Which KILLs are under way after one more order, and after one was read.
LEMMA AppendOrder ==
  ASSUME NEW s \in Seq(Order), NEW o \in Order, NEW n \in Conns
  PROVE  /\ Append(s, o) \in Seq(Order)
         /\ KillSent(Append(s, o), n) <=> KillSent(s, n) \/ o = KillOf(n)
<1> DEFINE t == Append(s, o)
<1>1. /\ Len(s) \in Nat /\ t \in Seq(Order) /\ Len(t) = Len(s) + 1 /\ t[Len(t)] = o
      /\ \A i \in 1 .. Len(s) : t[i] = s[i] /\ i \in 1 .. Len(t)
      /\ Len(t) \in 1 .. Len(t)
      /\ \A i \in 1 .. Len(t) : i \in 1 .. Len(s) \/ i = Len(t)
  OBVIOUS
<1> HIDE DEF t
<1>2. KillSent(t, n) <=> KillSent(s, n) \/ o = KillOf(n)
  BY <1>1 DEF KillSent
<1> QED BY <1>1, <1>2 DEF t

\* The same for an order that was read.
LEMMA TailOrder ==
  ASSUME NEW s \in Seq(Order), s # <<>>, NEW n \in Conns
  PROVE  /\ Head(s) \in Order /\ Tail(s) \in Seq(Order)
         /\ KillSent(s, n) <=> KillSent(Tail(s), n) \/ Head(s) = KillOf(n)
<1>1. /\ Len(s) \in Nat \ {0} /\ Tail(s) \in Seq(Order) /\ Len(Tail(s)) = Len(s) - 1
      /\ Head(s) = s[1] /\ Head(s) \in Order /\ 1 \in 1 .. Len(s)
      /\ \A i \in 1 .. Len(Tail(s)) : Tail(s)[i] = s[i + 1] /\ i + 1 \in 1 .. Len(s)
  OBVIOUS
<1>2. \A i \in 1 .. Len(s) : i = 1 \/ (i - 1 \in 1 .. Len(Tail(s)) /\ Tail(s)[i - 1] = s[i])
  BY <1>1
<1>3. KillSent(s, n) => KillSent(Tail(s), n) \/ Head(s) = KillOf(n)
  BY <1>1, <1>2 DEF KillSent
<1>4. KillSent(Tail(s), n) \/ Head(s) = KillOf(n) => KillSent(s, n)
  BY <1>1 DEF KillSent
<1> QED BY <1>1, <1>3, <1>4

\* KILLs and bans are orders, and differ.
LEMMA Orders ==
  /\ \A n \in Conns : KillOf(n) \in Order
  /\ \A a \in Addresses : GlineOf(a) \in Order
  /\ \A n, m \in Conns : KillOf(n) = KillOf(m) => n = m
  /\ \A n \in Conns : \A a \in Addresses : GlineOf(a) # KillOf(n)
<1>1. \A n \in Conns : KillOf(n).cmd = "KILL" /\ KillOf(n).who = n /\ KillOf(n) \in Order
  BY DEF KillOf, Order
<1>2. \A a \in Addresses : GlineOf(a).cmd = "GLINE" /\ GlineOf(a) \in Order
  BY DEF GlineOf, Order, Ips
<1> QED BY <1>1, <1>2

\* Addresses is the type of what a UID or a NICK comes from.
LEMMA LineTypes ==
  /\ \A l \in Line : l.who \in Conns /\ l.cmd \in {"UID", "NICK", "QUIT"}
  /\ \A l \in Line : l.cmd # "QUIT" => l.from \in Addresses
  BY DEF Line

\* Reading a line about somebody else.
LEMMA OtherRead ==
  ASSUME QueueInv, toServices # <<>>, toServices' = Tail(toServices),
         NEW n \in Conns, n # Head(toServices).who,
         nicks'[n] = nicks[n], UNCHANGED online,
         KillSent(toNet', n) <=> KillSent(toNet, n)
  PROVE  QueueOf(n)'
<1>1. QueueOf(n) /\ toServices \in Seq(Line)
  BY DEF QueueInv, QueueType
<1>2. UidFirst(toServices, n)
  BY <1>1 DEF QueueOf
<1> QED BY <1>1, <1>2, TailLines DEF QueueOf

\* What the services send about the line they read: nothing, a KILL or a ban.
LEMMA Sent ==
  ASSUME QueueType, NEW w \in Conns, NEW a \in Addresses,
         toNet' \in {toNet, Append(toNet, KillOf(w)), Append(toNet, GlineOf(a))}
  PROVE  /\ toNet' \in Seq(Order)
         /\ \A n \in Conns : n # w => (KillSent(toNet', n) <=> KillSent(toNet, n))
         /\ toNet' = Append(toNet, KillOf(w)) => KillSent(toNet', w)
         /\ toNet' # Append(toNet, KillOf(w)) => (KillSent(toNet', w) <=> KillSent(toNet, w))
<1>1. /\ KillOf(w) \in Order /\ GlineOf(a) \in Order /\ toNet \in Seq(Order)
      /\ \A n \in Conns : GlineOf(a) # KillOf(n) /\ (n # w => KillOf(w) # KillOf(n))
  BY Orders DEF QueueType
<1>2. CASE toNet' = toNet
  <2>1. toNet # Append(toNet, KillOf(w))
    BY <1>1
  <2> QED BY <1>1, <1>2, <2>1
<1>3. CASE toNet' = Append(toNet, KillOf(w))
  BY <1>1, <1>3, AppendOrder
<1>4. CASE toNet' = Append(toNet, GlineOf(a))
  <2>1. toNet' \in Seq(Order) /\ \A n \in Conns : KillSent(toNet', n) <=> KillSent(toNet, n)
    BY <1>1, <1>4, AppendOrder
  <2>2. GlineOf(a) # KillOf(w)
    BY <1>1
  <2>3. Append(toNet, GlineOf(a)) # Append(toNet, KillOf(w))
    BY <1>1, <2>2
  <2> QED BY <1>4, <2>1, <2>3
<1> QED BY <1>2, <1>3, <1>4

\* The first line, whoever it is about.
LEMMA FirstLine ==
  ASSUME QueueInv, toServices # <<>>, toServices' = Tail(toServices)
  PROVE  /\ Head(toServices) \in Line /\ Head(toServices).who \in Conns
         /\ Head(toServices).cmd # "QUIT" => Head(toServices).from \in Addresses
         /\ toServices' \in Seq(Line)
         /\ QueueOf(Head(toServices).who)
         /\ UidFirst(toServices', Head(toServices).who)
         /\ ~HasUid(toServices', Head(toServices).who)
         /\ Head(toServices).cmd = "UID" => HasUid(toServices, Head(toServices).who)
         /\ Head(toServices).cmd = "QUIT" => HasQuit(toServices, Head(toServices).who)
         /\ Head(toServices).cmd # "QUIT" =>
              (HasQuit(toServices', Head(toServices).who) <=> HasQuit(toServices, Head(toServices).who))
         /\ \A b : HasUidOf(toServices, Head(toServices).who, b) =>
              Head(toServices).cmd = "UID" /\ Head(toServices).from = b
<1>1. PICK l : l = Head(toServices)
  OBVIOUS
<1>2. toServices \in Seq(Line) /\ l \in Line /\ l = toServices[1] /\ 1 \in 1 .. Len(toServices)
  BY <1>1 DEF QueueInv, QueueType
<1>3. l.who \in Conns /\ (l.cmd # "QUIT" => l.from \in Addresses) /\ QueueOf(l.who)
  BY <1>2, LineTypes DEF QueueInv
<1>4. UidFirst(toServices, l.who)
  BY <1>3 DEF QueueOf
<1>5. \A b : HasUidOf(Tail(toServices), l.who, b) => HasUid(Tail(toServices), l.who)
  BY DEF HasUidOf, HasUid
<1>6. /\ l.cmd = "UID" => HasUid(toServices, l.who)
      /\ l.cmd = "QUIT" => HasQuit(toServices, l.who)
  BY <1>2 DEF HasUid, HasQuit
<1> QED BY <1>1, <1>2, <1>3, <1>4, <1>5, <1>6, TailLines

\* m_uid keeps the queues' invariant: the connection was not known, and is now, or is to be killed.
LEMMA UidRead ==
  ASSUME QueueInv, m_uid PROVE QueueInv'
<1>1. PICK l, w : l = Head(toServices) /\ w = l.who
  OBVIOUS
<1>2. /\ toServices # <<>> /\ l.cmd = "UID" /\ toServices' = Tail(toServices) /\ online' = online
      /\ \/ toNet' = Append(toNet, KillOf(w)) /\ nicks' = nicks
         \/ /\ nicks' = [nicks EXCEPT ![w] = l.from]
            /\ toNet' \in {toNet, Append(toNet, GlineOf(l.from))}
  BY <1>1 DEF m_uid, Reads, WithKill, network
<1>3. /\ w \in Conns /\ l.from \in Addresses /\ toServices' \in Seq(Line)
      /\ QueueOf(w) /\ HasUid(toServices, w)
      /\ UidFirst(toServices', w) /\ ~HasUid(toServices', w)
      /\ HasQuit(toServices', w) <=> HasQuit(toServices, w)
      /\ \A b : HasUidOf(toServices, w, b) => l.from = b
  BY <1>1, <1>2, FirstLine
<1>4. /\ toNet' \in Seq(Order)
      /\ \A n \in Conns : n # w => (KillSent(toNet', n) <=> KillSent(toNet, n))
      /\ toNet' = Append(toNet, KillOf(w)) => KillSent(toNet', w)
      /\ toNet' # Append(toNet, KillOf(w)) => (KillSent(toNet', w) <=> KillSent(toNet, w))
  BY <1>2, <1>3, Sent DEF QueueInv
<1>5. QueueType'
  BY <1>2, <1>3, <1>4 DEF QueueInv, QueueType
<1>6. ASSUME NEW n \in Conns, n # w PROVE QueueOf(n)'
  <2>1. nicks'[n] = nicks[n]
    BY <1>2, <1>6 DEF QueueInv, QueueType
  <2> QED BY <1>1, <1>2, <1>4, <1>6, <2>1, OtherRead
<1>7. QueueOf(w)'
  <2>1. /\ nicks[w] = Nobody /\ ~KillSent(toNet, w)
        /\ online[w] # Nobody \/ HasQuit(toServices', w)
        /\ HasQuit(toServices', w) => online[w] = Nobody
        /\ online[w] # Nobody => l.from = online[w]
    BY <1>3 DEF QueueOf
  <2>2. CASE toNet' = Append(toNet, KillOf(w)) /\ nicks' = nicks
    BY <1>2, <1>3, <1>4, <2>1, <2>2 DEF QueueOf
  <2>3. CASE nicks' = [nicks EXCEPT ![w] = l.from] /\ toNet' # Append(toNet, KillOf(w))
    <3>1. nicks'[w] = l.from
      BY <1>3, <2>3 DEF QueueInv, QueueType
    <3> QED BY <1>2, <1>3, <1>4, <2>1, <2>3, <3>1 DEF QueueOf
  <2>4. toNet # Append(toNet, KillOf(w)) /\ Append(toNet, GlineOf(l.from)) # Append(toNet, KillOf(w))
    <3>1. /\ KillOf(w) \in Order /\ GlineOf(l.from) \in Order /\ toNet \in Seq(Order)
          /\ GlineOf(l.from) # KillOf(w)
      BY <1>3, Orders DEF QueueInv, QueueType
    <3> QED BY <3>1
  <2> QED BY <1>2, <2>2, <2>3, <2>4
<1> QED BY <1>5, <1>6, <1>7 DEF QueueInv

\* m_nick keeps it: who is known stays, or is to be killed.
LEMMA NickRead ==
  ASSUME QueueInv, m_nick PROVE QueueInv'
<1>1. PICK l, w : l = Head(toServices) /\ w = l.who
  OBVIOUS
<1>2. /\ toServices # <<>> /\ l.cmd = "NICK" /\ toServices' = Tail(toServices) /\ online' = online
      /\ \/ nicks' = [nicks EXCEPT ![w] = Nobody] /\ toNet' = Append(toNet, KillOf(w))
         \/ nicks' = nicks /\ toNet' \in {toNet, Append(toNet, GlineOf(l.from))}
  BY <1>1 DEF m_nick, Reads, WithKill, userquit, network
<1>3. /\ w \in Conns /\ l.from \in Addresses /\ toServices' \in Seq(Line)
      /\ QueueOf(w)
      /\ UidFirst(toServices', w) /\ ~HasUid(toServices', w)
      /\ HasQuit(toServices', w) <=> HasQuit(toServices, w)
      /\ \A b : ~HasUidOf(toServices, w, b)
  BY <1>1, <1>2, FirstLine
<1>4. /\ toNet' \in Seq(Order)
      /\ \A n \in Conns : n # w => (KillSent(toNet', n) <=> KillSent(toNet, n))
      /\ toNet' = Append(toNet, KillOf(w)) => KillSent(toNet', w)
      /\ toNet' # Append(toNet, KillOf(w)) => (KillSent(toNet', w) <=> KillSent(toNet, w))
  BY <1>2, <1>3, Sent DEF QueueInv
<1>5. QueueType'
  BY <1>2, <1>3, <1>4 DEF QueueInv, QueueType
<1>6. ASSUME NEW n \in Conns, n # w PROVE QueueOf(n)'
  <2>1. nicks'[n] = nicks[n]
    BY <1>2, <1>6 DEF QueueInv, QueueType
  <2> QED BY <1>1, <1>2, <1>4, <1>6, <2>1, OtherRead
<1>7. QueueOf(w)'
  <2>1. CASE nicks' = [nicks EXCEPT ![w] = Nobody] /\ toNet' = Append(toNet, KillOf(w))
    <3>1. nicks'[w] = Nobody
      BY <1>3, <2>1 DEF QueueInv, QueueType
    <3> QED BY <1>2, <1>3, <1>4, <2>1, <3>1 DEF QueueOf
  <2>2. CASE nicks' = nicks /\ toNet' # Append(toNet, KillOf(w))
    BY <1>2, <1>3, <1>4, <2>2 DEF QueueOf
  <2>3. toNet # Append(toNet, KillOf(w)) /\ Append(toNet, GlineOf(l.from)) # Append(toNet, KillOf(w))
    <3>1. /\ KillOf(w) \in Order /\ GlineOf(l.from) \in Order /\ toNet \in Seq(Order)
          /\ GlineOf(l.from) # KillOf(w)
      BY <1>3, Orders DEF QueueInv, QueueType
    <3> QED BY <3>1
  <2> QED BY <1>2, <2>1, <2>2, <2>3
<1> QED BY <1>5, <1>6, <1>7 DEF QueueInv

\* m_quit keeps it: who quit is not there any more.
LEMMA QuitRead ==
  ASSUME QueueInv, m_quit PROVE QueueInv'
<1>1. PICK l, w : l = Head(toServices) /\ w = l.who
  OBVIOUS
<1>2. /\ toServices # <<>> /\ l.cmd = "QUIT" /\ toServices' = Tail(toServices)
      /\ online' = online /\ toNet' = toNet
      /\ nicks' = [nicks EXCEPT ![w] = Nobody] \/ (nicks[w] = Nobody /\ nicks' = nicks)
  BY <1>1 DEF m_quit, Reads, userquit, network
<1>3. /\ w \in Conns /\ toServices' \in Seq(Line) /\ QueueOf(w)
      /\ UidFirst(toServices', w) /\ ~HasUid(toServices', w) /\ HasQuit(toServices, w)
  BY <1>1, <1>2, FirstLine
<1>4. QueueType'
  BY <1>2, <1>3 DEF QueueInv, QueueType
<1>5. ASSUME NEW n \in Conns, n # w PROVE QueueOf(n)'
  <2>1. nicks'[n] = nicks[n]
    BY <1>2, <1>5 DEF QueueInv, QueueType
  <2> QED BY <1>1, <1>2, <1>5, <2>1, OtherRead
<1>6. QueueOf(w)'
  <2>1. nicks'[w] = Nobody
    BY <1>2, <1>3 DEF QueueInv, QueueType
  <2>2. online[w] = Nobody
    BY <1>3 DEF QueueOf
  <2> QED BY <1>2, <1>3, <2>1, <2>2 DEF QueueOf
<1> QED BY <1>4, <1>5, <1>6 DEF QueueInv

\* An arrangement of a finite set names every member once.
LEMMA Arranged ==
  ASSUME NEW S, IsFiniteSet(S), NEW s \in SetToSeqs(S)
  PROVE  /\ Cardinality(S) \in Nat /\ s \in [1 .. Cardinality(S) -> S]
         /\ \A i, j \in 1 .. Cardinality(S) : s[i] = s[j] => i = j
         /\ \A x \in S : \E i \in 1 .. Cardinality(S) : s[i] = x
<1>1. Cardinality(S) \in Nat
  BY FS_CardinalityType
<1>2. /\ s \in [1 .. Cardinality(S) -> S]
      /\ \A i, j \in 1 .. Cardinality(S) : s[i] = s[j] => i = j
  BY DEF SetToSeqs
<1>3. s \in Injection(1 .. Cardinality(S), S)
  BY <1>2 DEF Injection, IsInjective
<1>4. Cardinality(1 .. Cardinality(S)) = Cardinality(S)
  BY <1>1, FS_Interval
<1>5. s \in Surjection(1 .. Cardinality(S), S)
  BY <1>3, <1>4, FS_Injection
<1> QED BY <1>1, <1>2, <1>5 DEF Surjection

\* A burst tells of everybody who is online, once.
LEMMA BurstRead ==
  ASSUME QueueInv, cleanup_reconnect PROVE QueueInv'
<1>1. PICK S, m : S = {n \in Conns : online[n] # Nobody} /\ m = Cardinality(S)
  OBVIOUS
<1>2. \E s \in SetToSeqs(S), bad \in SUBSET Conns :
        toServices' = [i \in DOMAIN s |->
                         [cmd |-> "UID", who |-> s[i], from |-> online[s[i]], bad |-> s[i] \in bad]]
  BY <1>1, Zenon DEF cleanup_reconnect
<1>3. PICK s \in SetToSeqs(S), bad \in SUBSET Conns :
        toServices' = [i \in DOMAIN s |->
                         [cmd |-> "UID", who |-> s[i], from |-> online[s[i]], bad |-> s[i] \in bad]]
  BY <1>2, Zenon
<1>4. /\ m \in Nat /\ s \in [1 .. m -> S]
      /\ \A i, j \in 1 .. m : s[i] = s[j] => i = j
      /\ \A x \in S : \E i \in 1 .. m : s[i] = x
  <2>1. IsFiniteSet(S)
    BY <1>1, WatchConns, FS_Subset
  <2>2. s \in SetToSeqs(S)
    OBVIOUS
  <2>3. /\ Cardinality(S) \in Nat /\ s \in [1 .. Cardinality(S) -> S]
        /\ \A i, j \in 1 .. Cardinality(S) : s[i] = s[j] => i = j
        /\ \A x \in S : \E i \in 1 .. Cardinality(S) : s[i] = x
    BY <2>1, <2>2, Arranged
  <2> QED BY <1>1, <2>3, Zenon
<1>5. /\ toNet' = <<>> /\ online' = online /\ nicks' = [n \in Conns |-> Nobody]
  BY DEF cleanup_reconnect, network
<1>6. \A n \in S : n \in Conns /\ online[n] \in Addresses
  BY <1>1 DEF QueueInv, QueueType
<1>7. /\ toServices' = [i \in 1 .. m |->
                         [cmd |-> "UID", who |-> s[i], from |-> online[s[i]], bad |-> s[i] \in bad]]
  <2>1. DOMAIN s = 1 .. m
    BY <1>4, Zenon
  <2> QED BY <1>3, <2>1, Zenon
<1>8. /\ \A i \in 1 .. m : /\ toServices'[i].cmd = "UID" /\ toServices'[i].who = s[i]
                           /\ toServices'[i].from = online[s[i]] /\ toServices'[i] \in Line
      /\ toServices' \in Seq(Line) /\ Len(toServices') = m
  <2>1. \A i \in 1 .. m : s[i] \in Conns /\ online[s[i]] \in Addresses
    BY <1>4, <1>6
  <2>2. \A i \in 1 .. m :
          [cmd |-> "UID", who |-> s[i], from |-> online[s[i]], bad |-> s[i] \in bad] \in Line
    BY <2>1 DEF Line
  <2>3. toServices' \in [1 .. m -> Line]
    BY <1>7, <2>2
  <2>4. toServices' \in Seq(Line) /\ Len(toServices') = m
    BY <1>4, <2>3
  <2>5. \A i \in 1 .. m : toServices'[i] =
          [cmd |-> "UID", who |-> s[i], from |-> online[s[i]], bad |-> s[i] \in bad]
    BY <1>7, Zenon
  <2> QED BY <2>2, <2>4, <2>5
<1>9. QueueType'
  BY <1>5, <1>8 DEF QueueInv, QueueType
<1>10. ASSUME NEW n \in Conns PROVE QueueOf(n)'
  <2>1. UidFirst(toServices', n)
    BY <1>4, <1>8 DEF UidFirst
  <2>2. ~HasQuit(toServices', n)
    BY <1>8 DEF HasQuit
  <2>3. HasUid(toServices', n) => online[n] # Nobody
    BY <1>1, <1>4, <1>8 DEF HasUid
  <2>4. online[n] # Nobody => HasUidOf(toServices', n, online[n])
    BY <1>1, <1>4, <1>8 DEF HasUidOf
  <2>5. ~KillSent(toNet', n)
    BY <1>5 DEF KillSent
  <2>6. nicks'[n] = Nobody
    BY <1>5
  <2> QED BY <1>5, <2>1, <2>2, <2>3, <2>4, <2>5, <2>6 DEF QueueOf
<1> QED BY <1>9, <1>10 DEF QueueInv

\* Telling a line about somebody else.
LEMMA OtherTold ==
  ASSUME QueueInv, NEW l \in Line, toServices' = Append(toServices, l),
         UNCHANGED <<nicks, toNet>>, NEW n \in Conns, n # l.who, online'[n] = online[n]
  PROVE  QueueOf(n)'
<1>1. QueueOf(n) /\ toServices \in Seq(Line)
  BY DEF QueueInv, QueueType
<1>2. UidFirst(toServices, n)
  BY <1>1 DEF QueueOf
<1> QED BY <1>1, <1>2, AppendLine DEF QueueOf

\* Somebody comes whom no line is about.
LEMMA ConnectTold ==
  ASSUME QueueInv, NEW n \in Conns, NEW a \in Addresses, NEW bad \in BOOLEAN, Connect(n, a, bad)
  PROVE  QueueInv'
<1>1. PICK l : l = [cmd |-> "UID", who |-> n, from |-> a, bad |-> bad]
  OBVIOUS
<1>2. l \in Line /\ l.cmd = "UID" /\ l.who = n /\ l.from = a
  BY <1>1 DEF Line
<1>3. /\ toServices' = Append(toServices, l) /\ UNCHANGED <<nicks, toNet>>
      /\ online[n] = Nobody /\ online' = [online EXCEPT ![n] = a]
  BY <1>1 DEF Connect
<1>4. QueueType /\ QueueOf(n)
  BY DEF QueueInv
<1>5. ~HasLine(toServices, n)
  BY <1>4 DEF Connect, Told, HasLine, QueueType
<1>6. ~KillSent(toNet, n)
  BY <1>4 DEF Connect, KillSent, Range, QueueType
<1>7. UidFirst(toServices, n) /\ ~HasQuit(toServices, n) /\ ~HasUid(toServices, n)
  BY <1>4, <1>5 DEF QueueOf, HasLine, HasQuit, HasUid
<1>8. /\ toServices' \in Seq(Line) /\ UidFirst(toServices', n)
      /\ HasUid(toServices', n) /\ HasUidOf(toServices', n, a) /\ ~HasQuit(toServices', n)
  BY <1>2, <1>3, <1>4, <1>5, <1>7, AppendLine DEF QueueType
<1>9. QueueType' /\ online'[n] = a
  BY <1>3, <1>4, <1>8 DEF QueueType
<1>10. QueueOf(n)'
  <2>1. nicks[n] = Nobody
    BY <1>3, <1>4, <1>7 DEF QueueOf
  <2>2. a # Nobody
    BY WatchNobody
  <2> QED BY <1>3, <1>6, <1>8, <1>9, <2>1, <2>2 DEF QueueOf
<1>11. ASSUME NEW m \in Conns, m # n PROVE QueueOf(m)'
  <2>1. online'[m] = online[m]
    BY <1>3, <1>4, <1>11 DEF QueueType
  <2> QED BY <1>2, <1>3, <1>11, <2>1, OtherTold
<1> QED BY <1>9, <1>10, <1>11 DEF QueueInv

\* Somebody takes another name.
LEMMA RenameTold ==
  ASSUME QueueInv, NEW n \in Conns, NEW bad \in BOOLEAN, Rename(n, bad)
  PROVE  QueueInv'
<1>1. PICK l : l = [cmd |-> "NICK", who |-> n, from |-> online[n], bad |-> bad]
  OBVIOUS
<1>2. QueueType /\ QueueOf(n)
  BY DEF QueueInv
<1>3. l \in Line /\ l.cmd = "NICK" /\ l.who = n
  BY <1>1, <1>2 DEF Line, Rename, QueueType
<1>4. /\ toServices' = Append(toServices, l) /\ UNCHANGED <<nicks, toNet, online>>
  BY <1>1 DEF Rename, network
<1>5. UidFirst(toServices, n)
  BY <1>2 DEF QueueOf
<1>6. /\ toServices' \in Seq(Line) /\ UidFirst(toServices', n)
      /\ HasUid(toServices', n) <=> HasUid(toServices, n)
      /\ HasQuit(toServices', n) <=> HasQuit(toServices, n)
      /\ \A b : HasUidOf(toServices', n, b) <=> HasUidOf(toServices, n, b)
  BY <1>2, <1>3, <1>4, <1>5, AppendLine DEF QueueType
<1>7. QueueType' /\ QueueOf(n)'
  BY <1>2, <1>4, <1>6 DEF QueueType, QueueOf
<1>8. ASSUME NEW m \in Conns, m # n PROVE QueueOf(m)'
  BY <1>3, <1>4, <1>8, OtherTold
<1> QED BY <1>7, <1>8 DEF QueueInv

\* Somebody leaves.
LEMMA LeaveTold ==
  ASSUME QueueInv, NEW n \in Conns, Leave(n)
  PROVE  QueueInv'
<1>1. PICK l : l = [cmd |-> "QUIT", who |-> n]
  OBVIOUS
<1>2. QueueType /\ QueueOf(n)
  BY DEF QueueInv
<1>3. l \in Line /\ l.cmd = "QUIT" /\ l.who = n
  BY <1>1 DEF Line
<1>4. /\ toServices' = Append(toServices, l) /\ UNCHANGED <<nicks, toNet>>
      /\ online' = [online EXCEPT ![n] = Nobody]
  BY <1>1 DEF Leave
<1>5. UidFirst(toServices, n)
  BY <1>2 DEF QueueOf
<1>6. /\ toServices' \in Seq(Line) /\ UidFirst(toServices', n)
      /\ HasUid(toServices', n) <=> HasUid(toServices, n)
      /\ HasQuit(toServices', n)
  BY <1>2, <1>3, <1>4, <1>5, AppendLine DEF QueueType
<1>7. QueueType' /\ online'[n] = Nobody
  BY <1>2, <1>4, <1>6 DEF QueueType
<1>8. QueueOf(n)'
  BY <1>2, <1>4, <1>6, <1>7 DEF QueueOf
<1>9. ASSUME NEW m \in Conns, m # n PROVE QueueOf(m)'
  <2>1. online'[m] = online[m]
    BY <1>2, <1>4, <1>9 DEF QueueType
  <2> QED BY <1>3, <1>4, <1>9, <2>1, OtherTold
<1> QED BY <1>7, <1>8, <1>9 DEF QueueInv

\* The uplink obeys a KILL.
LEMMA KillObeyed ==
  ASSUME QueueInv, Obey, Head(toNet).cmd = "KILL"
  PROVE  QueueInv'
<1>1. PICK o, w : o = Head(toNet) /\ w = o.who
  OBVIOUS
<1>2. /\ toNet # <<>> /\ toNet' = Tail(toNet) /\ UNCHANGED <<nicks, toServices>>
      /\ online' = [online EXCEPT ![w] = Nobody]
  BY <1>1 DEF Obey
<1>3. QueueType /\ toNet \in Seq(Order)
  BY DEF QueueInv, QueueType
<1>4. toNet' \in Seq(Order) /\ \A n \in Conns : KillSent(toNet, n) <=> KillSent(toNet', n) \/ o = KillOf(n)
  BY <1>1, <1>2, <1>3, TailOrder
<1>5. o \in Order /\ o.cmd = "KILL"
  BY <1>1, <1>2, <1>3, TailOrder
<1>6. w \in Conns /\ o = KillOf(w)
  BY <1>1, <1>5 DEF Order, KillOf
<1>7. QueueType' /\ online'[w] = Nobody
  BY <1>2, <1>3, <1>4, <1>6 DEF QueueType
<1>8. QueueOf(w) /\ KillSent(toNet, w)
  BY <1>4, <1>6 DEF QueueInv
<1>9. QueueOf(w)'
  BY <1>2, <1>7, <1>8 DEF QueueOf
<1>10. ASSUME NEW n \in Conns, n # w PROVE QueueOf(n)'
  <2>1. online'[n] = online[n] /\ QueueOf(n)
    BY <1>2, <1>3, <1>10 DEF QueueType, QueueInv
  <2>2. KillSent(toNet, n) <=> KillSent(toNet', n)
    BY <1>4, <1>6, <1>10, Orders
  <2> QED BY <1>2, <2>1, <2>2 DEF QueueOf
<1> QED BY <1>7, <1>9, <1>10 DEF QueueInv

\* What telling of several who quit does to the predicates.
LEMMA AppendQuits ==
  ASSUME NEW s \in Seq(Line), NEW q \in Seq(Line), \A i \in 1 .. Len(q) : q[i].cmd = "QUIT",
         NEW n \in Conns, UidFirst(s, n)
  PROVE  /\ s \o q \in Seq(Line) /\ UidFirst(s \o q, n)
         /\ HasUid(s \o q, n) <=> HasUid(s, n)
         /\ HasQuit(s \o q, n) <=> HasQuit(s, n) \/ HasLine(q, n)
         /\ \A a : HasUidOf(s \o q, n, a) <=> HasUidOf(s, n, a)
<1>1. PICK t, m : t = s \o q /\ m = Len(s)
  OBVIOUS
<1>2. /\ t \in Seq(Line) /\ Len(t) = m + Len(q) /\ m \in Nat /\ Len(q) \in Nat
      /\ \A i \in 1 .. m : i \in 1 .. Len(t) /\ t[i] = s[i]
      /\ \A i \in 1 .. Len(t) : i \notin 1 .. m => i - m \in 1 .. Len(q) /\ t[i] = q[i - m]
      /\ \A i \in 1 .. Len(q) : i + m \in 1 .. Len(t) /\ t[i + m] = q[i]
  <2>1. \A i \in 1 .. m : (s \o q)[i] = s[i]
    BY <1>1
  <2>2. \A i \in 1 .. Len(q) : (s \o q)[i + m] = q[i]
    BY <1>1
  <2>3. t \in Seq(Line) /\ Len(t) = m + Len(q) /\ m \in Nat /\ Len(q) \in Nat
    BY <1>1
  <2>4. \A i \in 1 .. Len(t) : i \notin 1 .. m => i - m \in 1 .. Len(q) /\ (i - m) + m = i
    BY <2>3
  <2> QED BY <1>1, <2>1, <2>2, <2>3, <2>4
<1>3. \A i \in 1 .. Len(t) :
        i \notin 1 .. m => t[i].cmd = "QUIT" /\ t[i].who = q[i - m].who /\ i - m \in 1 .. Len(q)
  BY <1>2
<1>4. UidFirst(t, n)
  <2> SUFFICES ASSUME NEW i \in 1 .. Len(t), NEW j \in 1 .. Len(t),
                      t[i].cmd = "UID", t[i].who = n, t[j].who = n
               PROVE  i <= j
    BY DEF UidFirst
  <2>1. i \in 1 .. m
    BY <1>3
  <2>2. CASE j \in 1 .. m
    BY <1>1, <1>2, <2>1, <2>2 DEF UidFirst
  <2>3. CASE j \notin 1 .. m
    BY <1>2, <2>1, <2>3
  <2> QED BY <2>2, <2>3
<1>5. HasUid(t, n) <=> HasUid(s, n)
  BY <1>1, <1>2, <1>3 DEF HasUid
<1>6. \A a : HasUidOf(t, n, a) <=> HasUidOf(s, n, a)
  <2>1. ASSUME NEW a, NEW i \in 1 .. Len(t), t[i].cmd = "UID", t[i].who = n, t[i].from = a
        PROVE  HasUidOf(s, n, a)
    BY <1>1, <1>2, <1>3, <2>1 DEF HasUidOf
  <2>2. ASSUME NEW a, NEW i \in 1 .. Len(s), s[i].cmd = "UID", s[i].who = n, s[i].from = a
        PROVE  HasUidOf(t, n, a)
    BY <1>1, <1>2, <2>2 DEF HasUidOf
  <2> QED BY <2>1, <2>2, Zenon DEF HasUidOf
<1>7. HasQuit(t, n) => HasQuit(s, n) \/ HasLine(q, n)
  BY <1>1, <1>2, <1>3 DEF HasQuit, HasLine
<1>8. HasQuit(s, n) => HasQuit(t, n)
  BY <1>1, <1>2 DEF HasQuit
<1>9. ASSUME NEW i \in 1 .. Len(q), q[i].who = n PROVE HasQuit(t, n)
  <2>1. PICK j : j = i + m
    OBVIOUS
  <2>2. j \in 1 .. Len(t) /\ t[j] = q[i] /\ q[i].cmd = "QUIT"
    BY <1>2, <2>1
  <2> QED BY <1>9, <2>2 DEF HasQuit
<1> QED BY <1>1, <1>2, <1>4, <1>5, <1>6, <1>7, <1>8, <1>9 DEF HasLine

\* The uplink bans an ip: everybody from there quits and the services are told.
LEMMA GlineObeyed ==
  ASSUME QueueInv, Obey, Head(toNet).cmd # "KILL"
  PROVE  QueueInv'
<1>1. PICK o, S, m : o = Head(toNet) /\ S = Users(online, o.ip) /\ m = Cardinality(S)
  OBVIOUS
<1>2. /\ toNet # <<>> /\ toNet' = Tail(toNet) /\ nicks' = nicks
      /\ online' = [n \in Conns |-> IF n \in S THEN Nobody ELSE online[n]]
      /\ \E s \in SetToSeqs(S) :
           toServices' = toServices \o [i \in DOMAIN s |-> [cmd |-> "QUIT", who |-> s[i]]]
  BY <1>1, Zenon DEF Obey
<1>3. QueueType /\ toNet \in Seq(Order) /\ toServices \in Seq(Line)
  BY DEF QueueInv, QueueType
<1>4. /\ toNet' \in Seq(Order) /\ o.cmd # "KILL"
      /\ \A n \in Conns : KillSent(toNet, n) <=> KillSent(toNet', n) \/ o = KillOf(n)
  BY <1>1, <1>2, <1>3, TailOrder
<1>5. \A n \in Conns : KillSent(toNet, n) <=> KillSent(toNet', n)
  BY <1>4 DEF KillOf
<1>6. PICK s \in SetToSeqs(S) :
        toServices' = toServices \o [i \in DOMAIN s |-> [cmd |-> "QUIT", who |-> s[i]]]
  BY <1>2, Zenon
<1>7. m \in Nat /\ s \in [1 .. m -> S] /\ \A x \in S : \E i \in 1 .. m : s[i] = x
  <2>1. IsFiniteSet(S)
    BY <1>1, WatchConns, FS_Subset DEF Users
  <2>2. /\ Cardinality(S) \in Nat /\ s \in [1 .. Cardinality(S) -> S]
        /\ \A x \in S : \E i \in 1 .. Cardinality(S) : s[i] = x
    BY <1>6, <2>1, Arranged
  <2> QED BY <1>1, <2>2, Zenon
<1>8. PICK q : q = [i \in DOMAIN s |-> [cmd |-> "QUIT", who |-> s[i]]]
  OBVIOUS
<1>9. /\ toServices' = toServices \o q /\ q \in Seq(Line) /\ Len(q) = m
      /\ \A i \in 1 .. m : q[i].cmd = "QUIT" /\ q[i].who = s[i]
  <2>1. \A i \in 1 .. m : s[i] \in Conns
    BY <1>1, <1>7 DEF Users
  <2>2. DOMAIN s = 1 .. m
    BY <1>7, Zenon
  <2>3. q = [i \in 1 .. m |-> [cmd |-> "QUIT", who |-> s[i]]]
    BY <1>8, <2>2
  <2>4. \A i \in 1 .. m : q[i] = [cmd |-> "QUIT", who |-> s[i]] /\ q[i] \in Line
    BY <2>1, <2>3 DEF Line
  <2>5. q \in [1 .. m -> Line]
    BY <2>3, <2>4
  <2>6. q \in Seq(Line) /\ Len(q) = m
    BY <1>7, <2>5
  <2>7. toServices' = toServices \o q
    BY <1>6, <1>8, Zenon
  <2> QED BY <2>4, <2>6, <2>7
<1>10. ASSUME NEW n \in Conns
       PROVE  /\ UidFirst(toServices', n)
              /\ HasUid(toServices', n) <=> HasUid(toServices, n)
              /\ HasQuit(toServices', n) <=> HasQuit(toServices, n) \/ n \in S
              /\ \A a : HasUidOf(toServices', n, a) <=> HasUidOf(toServices, n, a)
  <2>1. UidFirst(toServices, n)
    BY DEF QueueInv, QueueOf
  <2>2. n \in S <=> HasLine(q, n)
    <3>1. ASSUME n \in S PROVE \E i \in 1 .. Len(q) : q[i].who = n
      <4>1. PICK i \in 1 .. m : s[i] = n
        BY <1>7, <3>1
      <4> QED BY <1>9, <4>1
    <3>2. ASSUME NEW i \in 1 .. Len(q), q[i].who = n PROVE n \in S
      BY <1>7, <1>9, <3>2
    <3> QED BY <3>1, <3>2, Zenon DEF HasLine
  <2>3. \A i \in 1 .. Len(q) : q[i].cmd = "QUIT"
    BY <1>9
  <2>4. \A a : HasUidOf(toServices \o q, n, a) <=> HasUidOf(toServices, n, a)
    BY <1>3, <1>9, <2>1, <2>3, AppendQuits
  <2>5. /\ UidFirst(toServices \o q, n)
        /\ HasUid(toServices \o q, n) <=> HasUid(toServices, n)
        /\ HasQuit(toServices \o q, n) <=> HasQuit(toServices, n) \/ HasLine(q, n)
    BY <1>3, <1>9, <2>1, <2>3, AppendQuits
  <2> QED BY <1>9, <2>2, <2>4, <2>5, Zenon
<1>11. QueueType'
  <2>1. toServices' \in Seq(Line)
    BY <1>3, <1>9
  <2>2. online' \in [Conns -> Addresses \cup {Nobody}]
    BY <1>2, <1>3 DEF QueueType
  <2> QED BY <1>2, <1>3, <1>4, <2>1, <2>2 DEF QueueType
<1>12. ASSUME NEW n \in Conns PROVE QueueOf(n)'
  <2>1. QueueOf(n) /\ online'[n] = IF n \in S THEN Nobody ELSE online[n]
    BY <1>2 DEF QueueInv
  <2>2. CASE n \in S
    <3>1. online'[n] = Nobody /\ online[n] # Nobody
      BY <1>1, <2>1, <2>2 DEF Users
    <3> QED BY <1>2, <1>5, <1>10, <2>1, <2>2, <3>1 DEF QueueOf
  <2>3. CASE n \notin S
    <3>1. online'[n] = online[n]
      BY <2>1, <2>3
    <3> QED BY <1>2, <1>5, <1>10, <2>1, <2>3, <3>1 DEF QueueOf
  <2> QED BY <2>2, <2>3
<1> QED BY <1>11, <1>12 DEF QueueInv

\* What is under way stays in order.
LEMMA QueueKept == QueueInv /\ [Next]_vars => QueueInv'
<1> SUFFICES ASSUME QueueInv, [Next]_vars PROVE QueueInv'
  OBVIOUS
<1>1. ASSUME UNCHANGED <<online, toServices, toNet, nicks>> PROVE QueueInv'
  BY <1>1 DEF QueueInv, QueueType, QueueOf
<1>2. CASE m_uid \/ m_nick \/ m_quit \/ cleanup_reconnect
  BY <1>2, UidRead, NickRead, QuitRead, BurstRead
<1>3. CASE m_ping \/ loadconf
  BY <1>1, <1>3 DEF m_ping, loadconf, network
<1>4. CASE Command
  BY <1>1, <1>4 DEF Command, secserv_cmds, oper_trustadd, oper_trustdel, network
<1>5. CASE Network
  <2>1. CASE Obey
    BY <2>1, KillObeyed, GlineObeyed
  <2>2. CASE \E ip \in Ips : GlineExpires(ip)
    BY <1>1, <2>2 DEF GlineExpires
  <2> QED BY <1>5, <2>1, <2>2, LeaveTold, RenameTold, ConnectTold DEF Network
<1>6. CASE UNCHANGED vars
  BY <1>1, <1>6 DEF vars, network
<1> QED BY <1>2, <1>3, <1>4, <1>5, <1>6 DEF Next

\* Nothing is under way at the start.
LEMMA QueueInit == Init => QueueInv
<1> SUFFICES ASSUME Init PROVE QueueInv
  OBVIOUS
<1>1. QueueType
  BY DEF Init, QueueType
<1>2. Len(toServices) = 0 /\ Len(toNet) = 0
  BY DEF Init
<1>3. ASSUME NEW n \in Conns PROVE QueueOf(n)
  BY <1>2 DEF Init, QueueOf, UidFirst, HasUid, HasUidOf, HasQuit, KillSent
<1> QED BY <1>1, <1>3 DEF QueueInv

\* With nothing under way the services have exactly the connections there are: nobody
\* is refused for one that has gone (m_uid, userquit, check_nick).
THEOREM TablesAgree == Spec => []TablesAgreeAtRest
<1>1. QueueInv => TablesAgreeAtRest
  <2> SUFFICES ASSUME QueueInv, toServices = <<>>, toNet = <<>> PROVE nicks = online
    BY DEF TablesAgreeAtRest
  <2>1. ASSUME NEW n \in Conns PROVE nicks[n] = online[n]
    <3>1. Len(toServices) = 0 /\ Len(toNet) = 0 /\ QueueOf(n)
      BY DEF QueueInv
    <3>2. ~HasUid(toServices, n) /\ ~HasQuit(toServices, n) /\ ~KillSent(toNet, n)
      BY <3>1 DEF HasUid, HasQuit, KillSent
    <3>3. ~HasUidOf(toServices, n, online[n])
      BY <3>1 DEF HasUidOf
    <3> QED BY <3>1, <3>2, <3>3 DEF QueueOf
  <2> QED BY <2>1 DEF QueueInv, QueueType
<1> QED BY <1>1, QueueInit, QueueKept, PTL DEF Spec

-----------------------------------------------------------------------------
(* Counts *)

\* The counts are numbers, and those of the nicks.
CountInv == clones \in [Ips -> Int] /\ CountsMatch

\* A nick comes.
LEMMA CountedUp ==
  ASSUME QueueType, CountInv, NEW w \in Conns, NEW a \in Addresses, nicks[w] = Nobody,
         nicks' = [nicks EXCEPT ![w] = a], clones' = Counted(a)
  PROVE  CountInv'
<1>1. a[2] \in Ips /\ clones' = [clones EXCEPT ![a[2]] = @ + 1]
  BY DEF Ips, Counted
<1>2. clones' \in [Ips -> Int]
  BY <1>1 DEF CountInv
<1>3. ASSUME NEW ip \in Ips PROVE clones'[ip] = Cardinality(Users(nicks', ip))
  <2>1. nicks'[w] = a /\ a # Nobody /\ \A n \in Conns : n # w => nicks'[n] = nicks[n]
    BY WatchNobody DEF QueueType
  <2>2. /\ IsFiniteSet(Users(nicks, ip)) /\ w \notin Users(nicks, ip)
        /\ a[2] = ip => Users(nicks', ip) = Users(nicks, ip) \cup {w}
        /\ a[2] # ip => Users(nicks', ip) = Users(nicks, ip) \ {w}
    <3>1. IsFiniteSet(Users(nicks, ip))
      BY WatchConns, FS_Subset DEF Users
    <3>2. w \notin Users(nicks, ip)
      BY DEF Users
    <3>3. a[2] = ip => Users(nicks', ip) = Users(nicks, ip) \cup {w}
      BY <2>1 DEF Users
    <3>4. a[2] # ip => Users(nicks', ip) = Users(nicks, ip) \ {w}
      BY <2>1 DEF Users
    <3> QED BY <3>1, <3>2, <3>3, <3>4, Zenon
  <2>3. clones[ip] = Cardinality(Users(nicks, ip)) /\ clones[ip] \in Int
    BY DEF CountInv, CountsMatch
  <2>4. Cardinality(Users(nicks, ip) \cup {w}) = Cardinality(Users(nicks, ip)) + 1
    BY <2>2, FS_AddElement
  <2>5. clones'[ip] = IF a[2] = ip THEN clones[ip] + 1 ELSE clones[ip]
    BY <1>1 DEF CountInv
  <2>6. Users(nicks, ip) \ {w} = Users(nicks, ip)
    BY <2>2
  <2> QED BY <2>2, <2>3, <2>4, <2>5, <2>6
<1> QED BY <1>2, <1>3 DEF CountInv, CountsMatch

\* A nick goes.
LEMMA CountedDown ==
  ASSUME QueueType, CountInv, NEW w \in Conns, nicks[w] # Nobody, userquit(w)
  PROVE  CountInv'
<1>1. PICK a : a = nicks[w]
  OBVIOUS
<1>2. a \in Addresses
  BY <1>1 DEF QueueType
<1>3. a[2] \in Ips /\ clones' = [clones EXCEPT ![a[2]] = @ - 1]
  BY <1>1, <1>2 DEF Ips, userquit, Released
<1>4. clones' \in [Ips -> Int]
  BY <1>3 DEF CountInv
<1>5. ASSUME NEW ip \in Ips PROVE clones'[ip] = Cardinality(Users(nicks', ip))
  <2>1. nicks'[w] = Nobody /\ \A n \in Conns : n # w => nicks'[n] = nicks[n]
    BY DEF QueueType, userquit
  <2>2. /\ IsFiniteSet(Users(nicks, ip)) /\ (w \in Users(nicks, ip) <=> a[2] = ip)
        /\ Users(nicks', ip) = Users(nicks, ip) \ {w}
    <3>1. IsFiniteSet(Users(nicks, ip))
      BY WatchConns, FS_Subset DEF Users
    <3>2. w \in Users(nicks, ip) <=> a[2] = ip
      BY <1>1 DEF Users
    <3>3. Users(nicks', ip) = Users(nicks, ip) \ {w}
      BY <2>1 DEF Users
    <3> QED BY <3>1, <3>2, <3>3, Zenon
  <2>3. clones[ip] = Cardinality(Users(nicks, ip)) /\ clones[ip] \in Int
    BY DEF CountInv, CountsMatch
  <2>4. Cardinality(Users(nicks, ip) \ {w}) =
          IF w \in Users(nicks, ip) THEN clones[ip] - 1 ELSE clones[ip]
    BY <2>2, <2>3, FS_RemoveElement
  <2>5. clones'[ip] = IF a[2] = ip THEN clones[ip] - 1 ELSE clones[ip]
    BY <1>3 DEF CountInv
  <2> QED BY <2>2, <2>4, <2>5
<1> QED BY <1>4, <1>5 DEF CountInv, CountsMatch

\* Nobody is counted at the start.
LEMMA CountInit == Init => CountInv
<1> SUFFICES ASSUME Init PROVE CountInv
  OBVIOUS
<1>1. \A ip \in Ips : Users(nicks, ip) = {}
  BY DEF Init, Users
<1>2. clones = [i \in Ips |-> 0]
  BY DEF Init
<1> QED BY <1>1, <1>2, FS_EmptySet DEF CountInv, CountsMatch

\* Every step keeps the counts; that a UID is read for a nick that is not there is the queues' invariant.
LEMMA CountKept == QueueInv /\ CountInv /\ [Next]_vars => CountInv'
<1> SUFFICES ASSUME QueueInv, CountInv, [Next]_vars PROVE CountInv'
  OBVIOUS
<1>1. ASSUME UNCHANGED <<nicks, clones>> PROVE CountInv'
  BY <1>1 DEF CountInv, CountsMatch
<1>2. QueueType
  BY DEF QueueInv
<1>3. CASE m_uid
  <2>1. PICK l, w : l = Head(toServices) /\ w = l.who
    OBVIOUS
  <2>2. /\ toServices # <<>> /\ l.cmd = "UID" /\ toServices' = Tail(toServices)
        /\ \/ UNCHANGED <<nicks, clones>>
           \/ nicks' = [nicks EXCEPT ![w] = l.from] /\ clones' = Counted(l.from)
    BY <1>3, <2>1 DEF m_uid, Reads
  <2>3. w \in Conns /\ l.from \in Addresses /\ QueueOf(w) /\ HasUid(toServices, w)
    BY <2>1, <2>2, FirstLine
  <2>4. nicks[w] = Nobody
    BY <2>3 DEF QueueOf
  <2> QED BY <1>1, <1>2, <2>2, <2>3, <2>4, CountedUp
<1>4. CASE m_nick
  <2>1. PICK l, w : l = Head(toServices) /\ w = l.who
    OBVIOUS
  <2>2. /\ toServices # <<>> /\ toServices' = Tail(toServices)
        /\ UNCHANGED <<nicks, clones>> \/ (nicks[w] # Nobody /\ userquit(w))
    BY <1>4, <2>1 DEF m_nick, Reads
  <2>3. w \in Conns
    BY <2>1, <2>2, FirstLine
  <2> QED BY <1>1, <1>2, <2>2, <2>3, CountedDown
<1>5. CASE m_quit
  <2>1. PICK w : w = Head(toServices).who
    OBVIOUS
  <2>2. /\ toServices # <<>> /\ toServices' = Tail(toServices)
        /\ UNCHANGED <<nicks, clones>> \/ (nicks[w] # Nobody /\ userquit(w))
    BY <1>5, <2>1 DEF m_quit, Reads
  <2>3. w \in Conns
    BY <2>1, <2>2, FirstLine
  <2> QED BY <1>1, <1>2, <2>2, <2>3, CountedDown
<1>6. CASE cleanup_reconnect
  <2>1. nicks' = [n \in Conns |-> Nobody] /\ clones' = [i \in Ips |-> 0]
    BY <1>6 DEF cleanup_reconnect
  <2>2. \A ip \in Ips : Users(nicks', ip) = {}
    BY <2>1 DEF Users
  <2> QED BY <2>1, <2>2, FS_EmptySet DEF CountInv, CountsMatch
<1>7. CASE m_ping \/ loadconf
  BY <1>1, <1>7 DEF m_ping, loadconf
<1>8. CASE Command
  BY <1>1, <1>8 DEF Command, secserv_cmds, oper_trustadd, oper_trustdel
<1>9. CASE Network
  BY <1>1, <1>9 DEF Network, Leave, Rename, Connect, Obey, GlineExpires
<1>10. CASE UNCHANGED vars
  BY <1>1, <1>10 DEF vars
<1> QED BY <1>3, <1>4, <1>5, <1>6, <1>7, <1>8, <1>9, <1>10 DEF Next

\* The count of an address is always the number of its nicks (new_nick, delete_nick).
THEOREM CountsCorrect == Spec => []CountsMatch
<1>1. CountInv => CountsMatch
  BY DEF CountInv
<1> QED BY <1>1, QueueInit, QueueKept, CountInit, CountKept, PTL DEF Spec

\* The other variables keep their types.
RestType == glined \subseteq Ips /\ trusts \in [Keys -> TrustLimits \cup {Nobody}]

\* Every variable keeps its type, and no count passes the number of connections:
\* what the model says of a fault it cannot say of an impossible state.
THEOREM TypeCorrect == Spec => []TypeOK
<1>1. Init => RestType
  BY DEF Init, RestType
<1>2. RestType /\ QueueType /\ [Next]_vars => RestType'
  <2> SUFFICES ASSUME RestType, QueueType, [Next]_vars PROVE RestType'
    OBVIOUS
  <2>1. ASSUME UNCHANGED <<glined, trusts>> PROVE RestType'
    BY <2>1 DEF RestType
  <2>2. CASE Obey
    <3>1. Head(toNet) \in Order
      BY <2>2 DEF Obey, QueueType
    <3>2. Head(toNet).cmd # "KILL" => Head(toNet).ip \in Ips
      BY <3>1 DEF Order
    <3> QED BY <2>2, <3>2 DEF Obey, RestType
  <2>3. CASE \E ip \in Ips : GlineExpires(ip)
    BY <2>3 DEF GlineExpires, RestType
  <2>4. CASE Command
    <3>1. glined' = glined
      BY <2>4 DEF Command, secserv_cmds, oper_trustadd, oper_trustdel, network
    <3>2. \/ trusts' = trusts
          \/ \E k \in Keys, v \in TrustLimits \cup {Nobody} : trusts' = [trusts EXCEPT ![k] = v]
      BY <2>4 DEF Command, secserv_cmds, oper_trustadd, oper_trustdel
    <3> QED BY <3>1, <3>2 DEF RestType
  <2>5. ASSUME NEW n \in Conns,
               \/ Leave(n)
               \/ \E bad \in BOOLEAN : Rename(n, bad) \/ \E a \in Addresses : Connect(n, a, bad)
        PROVE  RestType'
    BY <2>1, <2>5 DEF Leave, Rename, Connect, network
  <2>6. CASE Network
    BY <2>2, <2>3, <2>5, <2>6, Zenon DEF Network
  <2>7. CASE m_uid \/ m_nick \/ m_quit \/ m_ping \/ cleanup_reconnect \/ loadconf \/ UNCHANGED vars
    BY <2>1, <2>7 DEF m_uid, m_nick, m_quit, m_ping, cleanup_reconnect, loadconf, vars, network
  <2> QED BY <2>4, <2>6, <2>7 DEF Next
<1>3. LevelInv /\ QueueInv /\ CountInv /\ RestType => TypeOK
  <2> SUFFICES ASSUME LevelInv, QueueInv, CountInv, RestType PROVE TypeOK
    OBVIOUS
  <2>1. Range(toServices) \subseteq Line /\ Range(toNet) \subseteq Order
    BY DEF QueueInv, QueueType, Range
  <2>2. clones \in [Ips -> 0 .. Cardinality(Conns)]
    <3>1. ASSUME NEW ip \in Ips PROVE clones[ip] \in 0 .. Cardinality(Conns)
      <4>1. Users(nicks, ip) \in SUBSET Conns
        BY DEF Users
      <4>2. /\ IsFiniteSet(Users(nicks, ip))
            /\ Cardinality(Users(nicks, ip)) <= Cardinality(Conns)
        BY <4>1, WatchConns, FS_Subset
      <4>3. Cardinality(Users(nicks, ip)) \in Nat /\ Cardinality(Conns) \in Nat
        BY <4>2, WatchConns, FS_CardinalityType
      <4>4. clones[ip] = Cardinality(Users(nicks, ip))
        BY DEF CountInv, CountsMatch
      <4> QED BY <4>2, <4>3, <4>4
    <3> QED BY <3>1 DEF CountInv
  <2>3. /\ online \in [Conns -> Addresses \cup {Nobody}] /\ nicks \in [Conns -> Addresses \cup {Nobody}]
        /\ glined \subseteq Ips /\ trusts \in [Keys -> TrustLimits \cup {Nobody}]
    BY DEF QueueInv, QueueType, RestType
  <2>4. /\ {maxclones, old_maxclones} \subseteq {1, 2, Configured} /\ listed \in BOOLEAN
        /\ seclev \in 0 .. 4 /\ perm \in 0 .. 2
        /\ kills \in 0 .. MaxKills /\ glines \in 0 .. MaxGlines /\ rmode \in BOOLEAN
    BY Zenon DEF LevelInv
  <2> QED BY <2>1, <2>2, <2>3, <2>4, Zenon DEF TypeOK
<1>4. QueueInv => QueueType
  BY DEF QueueInv
<1> QED BY <1>1, <1>2, <1>3, <1>4, LevelInit, LevelKept, QueueInit, QueueKept, CountInit, CountKept, PTL
     DEF Spec

-----------------------------------------------------------------------------
(* Flood control *)

\* What holds whatever settings are read: the messages of the window are the last ones.
CountersInv ==
  /\ clock \in Nat \ {0} /\ set \in Settings /\ {ignored, reread} \subseteq BOOLEAN
  /\ {ignoretime, msgtime, msgnb} \subseteq Nat /\ got \in Seq(Nat)
  /\ msgtime <= clock /\ msgnb <= Len(got)
  /\ \A i \in 1 .. Len(got) : got[i] <= clock /\ (i > Len(got) - msgnb => got[i] >= msgtime)

\* The window is open, and the messages before it are those of earlier ones: none of more than
\* a window's number ago is as young as the time.
WindowOpen ==
  \A i \in 1 .. Len(got) :
    /\ i <= Len(got) - msgnb => got[i] <= msgtime
    /\ i + msgnb + set.nb <= Len(got) => msgtime - got[i] > set.time

\* The last message ended a time of ignorance, and all others are older than the time.
Forgiven == ~ignored /\ Expired /\ \A i \in 1 .. Len(got) : i < Len(got) => clock - got[i] > set.time

\* FloodIsBounded needs more to last.
BoundInv ==
  ~reread /\ set.ignore >= set.time =>
    /\ msgnb <= set.nb /\ (msgtime = 0 <=> msgnb = 0)
    /\ msgnb = 0 => got = <<>> /\ ~ignored
    /\ ignored => msgtime <= ignoretime /\ \A i \in 1 .. Len(got) : got[i] <= ignoretime
    /\ WindowOpen \/ Forgiven
    /\ Holds(set)

LEMMA TheSettings ==
  \A s \in Settings : s.nb \in Nat \ {0} /\ s.time \in Nat /\ s.ignore \in Nat
BY FloodSettings

\* A message gets through.
LEMMA OneMore ==
  ASSUME CountersInv, GetsThrough
  PROVE  /\ got' \in Seq(Nat) /\ Len(got) \in Nat /\ Len(got') = Len(got) + 1
         /\ got'[Len(got')] = clock
         /\ \A i \in 1 .. Len(got) : got'[i] = got[i] /\ got[i] \in Nat
         /\ \A i \in 1 .. Len(got') : i = Len(got') \/ i \in 1 .. Len(got)
BY DEF CountersInv, GetsThrough

LEMMA CountersKept == CountersInv /\ [FloodNext]_floodvars => CountersInv'
<1> SUFFICES ASSUME CountersInv, [FloodNext]_floodvars PROVE CountersInv'
  OBVIOUS
<1>1. ASSUME m_privmsg, Forgive \/ StartWindow \/ Count PROVE CountersInv'
  <2>1. /\ GetsThrough /\ UNCHANGED <<clock, set, reread>> /\ ignored' \in BOOLEAN /\ ignoretime' \in Nat
        /\ \/ msgtime' = msgtime /\ msgnb' \in {msgnb, msgnb + 1}
           \/ msgtime' = clock /\ msgnb' = 1
    <3>0. clock \in Nat /\ ignored \in BOOLEAN /\ ignoretime \in Nat /\ 0 \in Nat
      BY DEF CountersInv
    <3>1. UNCHANGED <<clock, set, reread>>
      BY <1>1 DEF m_privmsg
    <3>2. CASE Forgive
      BY <3>0, <3>1, <3>2 DEF Forgive
    <3>3. CASE StartWindow
      BY <3>0, <3>1, <3>3 DEF StartWindow
    <3>4. CASE Count
      BY <3>0, <3>1, <3>4 DEF Count
    <3> QED BY <1>1, <3>2, <3>3, <3>4
  <2>2. /\ clock \in Nat \ {0} /\ msgtime \in Nat /\ msgnb \in Nat /\ msgtime <= clock /\ msgnb <= Len(got)
        /\ set \in Settings /\ reread \in BOOLEAN
        /\ \A i \in 1 .. Len(got) : got[i] <= clock /\ (i > Len(got) - msgnb => got[i] >= msgtime)
    BY DEF CountersInv
  <2>3. ASSUME NEW i \in 1 .. Len(got')
        PROVE  got'[i] <= clock /\ (i > Len(got') - msgnb' => got'[i] >= msgtime')
    <3>1. CASE i = Len(got')
      BY <2>1, <2>2, <3>1, OneMore
    <3>2. CASE i \in 1 .. Len(got)
      <4>1. got'[i] = got[i] /\ got[i] \in Nat /\ got[i] <= clock /\ Len(got') = Len(got) + 1 /\ Len(got) \in Nat
        BY <2>1, <2>2, <3>2, OneMore
      <4>2. CASE msgtime' = clock /\ msgnb' = 1
        BY <3>2, <4>1, <4>2
      <4>3. CASE msgtime' = msgtime /\ msgnb' \in {msgnb, msgnb + 1}
        BY <2>2, <3>2, <4>1, <4>3
      <4> QED BY <2>1, <4>2, <4>3
    <3> QED BY <2>1, <3>1, <3>2, OneMore
  <2>4. msgtime' \in Nat /\ msgnb' \in Nat /\ msgtime' <= clock /\ msgnb' <= Len(got')
    BY <2>1, <2>2, OneMore
  <2>5. got' \in Seq(Nat) /\ clock' \in Nat \ {0} /\ set' \in Settings /\ {ignored', reread'} \subseteq BOOLEAN
    BY <2>1, <2>2, OneMore
  <2> QED BY <2>1, <2>3, <2>4, <2>5 DEF CountersInv
<1>2. ASSUME m_privmsg, Ignore PROVE CountersInv'
  <2>1. ignored' \in BOOLEAN /\ ignoretime' = clock /\ UNCHANGED <<clock, set, reread, msgtime, msgnb, got>>
    BY <1>2 DEF m_privmsg, Ignore
  <2>2. /\ clock \in Nat \ {0} /\ set \in Settings /\ reread \in BOOLEAN
        /\ {msgtime, msgnb} \subseteq Nat /\ got \in Seq(Nat)
        /\ msgtime <= clock /\ msgnb <= Len(got)
        /\ \A i \in 1 .. Len(got) : got[i] <= clock /\ (i > Len(got) - msgnb => got[i] >= msgtime)
    BY DEF CountersInv
  <2> QED BY <2>1, <2>2 DEF CountersInv
<1>3. CASE oper_rehash
  BY <1>3 DEF oper_rehash, counters, CountersInv
<1>4. CASE new_nick
  <2>1. /\ ignored' \in BOOLEAN /\ reread' \in BOOLEAN /\ UNCHANGED <<clock, set>>
        /\ ignoretime' = 0 /\ msgtime' = 0 /\ msgnb' = 0 /\ got' = <<>>
    BY <1>4 DEF new_nick
  <2>2. clock \in Nat \ {0} /\ set \in Settings
    BY DEF CountersInv
  <2> QED BY <2>1, <2>2 DEF CountersInv
<1>5. CASE Second
  BY <1>5 DEF Second, counters, CountersInv
<1>6. CASE UNCHANGED floodvars
  BY <1>6 DEF floodvars, counters, CountersInv
<1> QED BY <1>1, <1>2, <1>3, <1>4, <1>5, <1>6 DEF FloodNext, m_privmsg

\* Each of the ways a message gets through.
LEMMA ThroughKeeps ==
  ASSUME CountersInv, BoundInv, Forgive \/ StartWindow \/ Count, ~reread, set.ignore >= set.time,
         UNCHANGED <<clock, set, reread>>
  PROVE  BoundInv'
<1>1. PICK n, N, T : n = Len(got) /\ N = set.nb /\ T = set.time
  OBVIOUS
<1>2. /\ n \in Nat /\ N \in Nat \ {0} /\ T \in Nat /\ set.ignore \in Nat /\ set.ignore >= T
      /\ clock \in Nat \ {0} /\ msgtime \in Nat /\ msgnb \in Nat /\ msgnb <= n /\ ignoretime \in Nat
      /\ msgtime <= clock
  BY <1>1, TheSettings DEF CountersInv
<1>3. \A i \in 1 .. n : got[i] \in Nat /\ got[i] <= clock
  BY <1>1 DEF CountersInv
<1>4. /\ msgnb <= N /\ (msgtime = 0 <=> msgnb = 0)
      /\ msgnb = 0 => got = <<>> /\ ~ignored
      /\ ignored => msgtime <= ignoretime /\ \A i \in 1 .. n : got[i] <= ignoretime
      /\ WindowOpen \/ Forgiven
      /\ \A i \in 1 .. n : i + 2 * N <= n => got[i + 2 * N] - got[i] > T
  BY <1>1 DEF BoundInv, Holds
<1>5. GetsThrough
  BY DEF Forgive, StartWindow, Count
<1>6. /\ Len(got') = n + 1 /\ got'[n + 1] = clock /\ \A i \in 1 .. n : got'[i] = got[i]
      /\ \A i \in 1 .. n + 1 : i = n + 1 \/ i \in 1 .. n
  BY <1>1, <1>5, OneMore
<1>7. WindowOpen <=> \A i \in 1 .. n : /\ i <= n - msgnb => got[i] <= msgtime
                                       /\ i + msgnb + N <= n => msgtime - got[i] > T
  BY <1>1 DEF WindowOpen
<1>8. Forgiven <=> ~ignored /\ clock - msgtime > T /\ \A i \in 1 .. n : i < n => clock - got[i] > T
  BY <1>1 DEF Forgiven, Expired
\* The message 2 * N before this one is older than the time.
<1>9. SUFFICES /\ \A i \in 1 .. n : i + 2 * N = n + 1 => clock - got[i] > T
               /\ msgnb' <= N /\ msgnb' # 0 /\ msgtime' # 0 /\ ~ignored'
               /\ (WindowOpen \/ Forgiven)'
  <2> SUFFICES ASSUME \A i \in 1 .. n : i + 2 * N = n + 1 => clock - got[i] > T
               PROVE  \A i \in 1 .. n + 1 : i + 2 * N <= n + 1 => got'[i + 2 * N] - got'[i] > T
    BY <1>1, <1>6 DEF BoundInv, Holds
  <2> TAKE i \in 1 .. n + 1
  <2> HAVE i + 2 * N <= n + 1
  <2>1. i \in 1 .. n /\ i + 2 * N \in 1 .. n + 1
    BY <1>2
  <2>2. CASE i + 2 * N = n + 1
    BY <1>6, <2>1, <2>2
  <2>3. CASE i + 2 * N # n + 1
    <3>1. i + 2 * N \in 1 .. n /\ i + 2 * N <= n
      BY <1>2, <2>1, <2>3
    <3> QED BY <1>4, <1>6, <2>1, <3>1
  <2> QED BY <2>2, <2>3
<1>10. CASE Forgive
  <2>1. ignored /\ clock - ignoretime > set.ignore /\ ~ignored' /\ msgtime' = msgtime /\ msgnb' = msgnb
    BY <1>10 DEF Forgive
  <2>2. clock - msgtime > T /\ \A i \in 1 .. n : clock - got[i] > T
    BY <1>2, <1>3, <1>4, <2>1
  <2>3. Forgiven'
    <3>1. Expired'
      BY <1>1, <2>1, <2>2 DEF Expired
    <3>2. ASSUME NEW i \in 1 .. Len(got'), i < Len(got') PROVE clock' - got'[i] > set.time'
      <4>1. i \in 1 .. n
        BY <1>2, <1>6, <3>2
      <4> QED BY <1>1, <1>6, <2>2, <4>1
    <3> QED BY <2>1, <3>1, <3>2 DEF Forgiven
  <2> QED BY <1>4, <2>1, <2>2, <2>3
<1>11. CASE StartWindow
  <2>1. ~ignored' /\ msgtime' = clock /\ msgnb' = 1 /\ (msgtime = 0 \/ msgnb = 0 \/ clock - msgtime > T)
    BY <1>1, <1>11 DEF StartWindow, Restarts, Expired
  <2>2. \A i \in 1 .. n : i + N <= n => clock - got[i] > T
    <3> SUFFICES ASSUME NEW i \in 1 .. n, i + N <= n PROVE clock - got[i] > T
      OBVIOUS
    <3>1. CASE msgnb = 0
      BY <1>1, <1>4, <3>1
    <3>2. CASE msgnb # 0 /\ WindowOpen
      <4>1. i <= n - msgnb /\ clock - msgtime > T
        BY <1>2, <1>4, <2>1, <3>2
      <4> QED BY <1>2, <1>3, <1>7, <3>2, <4>1
    <3>3. CASE Forgiven
      BY <1>2, <1>8, <3>3
    <3> QED BY <1>4, <3>1, <3>2, <3>3
  <2>3. \A i \in 1 .. n : i + 2 * N = n + 1 => clock - got[i] > T
    BY <1>2, <2>2
  <2>4. WindowOpen'
    <3> SUFFICES ASSUME NEW i \in 1 .. n + 1
                 PROVE  /\ i <= n + 1 - 1 => got'[i] <= clock
                        /\ i + 1 + N <= n + 1 => clock - got'[i] > T
      BY <1>1, <1>6, <2>1 DEF WindowOpen
    <3> QED BY <1>2, <1>3, <1>6, <2>2
  <2> QED BY <1>2, <2>1, <2>3, <2>4
<1>12. CASE Count
  <2>1. /\ ~ignored /\ ~ignored' /\ msgtime' = msgtime /\ msgnb' = msgnb + 1
        /\ ~(msgtime = 0 \/ msgnb = 0 \/ (clock - msgtime > T /\ msgnb <= N))
        /\ ~(msgtime # 0 /\ msgnb # 0 /\ ~(clock - msgtime > T) /\ msgnb >= N)
    BY <1>1, <1>12 DEF Count, Restarts, Floods, Expired, Full
  <2>2. ~(clock - msgtime > T) /\ msgnb + 1 <= N /\ WindowOpen
    BY <1>2, <1>4, <1>8, <2>1
  <2>3. \A i \in 1 .. n : i + msgnb + N <= n => msgtime - got[i] > T
    BY <1>7, <2>2
  <2>4. ASSUME NEW i \in 1 .. n, i + 2 * N = n + 1 PROVE clock - got[i] > T
    <3>1. i + msgnb + N <= n
      BY <1>2, <2>2, <2>4
    <3> QED BY <1>2, <1>3, <2>3, <3>1
  <2>5. WindowOpen'
    <3> SUFFICES ASSUME NEW i \in 1 .. n + 1
                 PROVE  /\ i <= n + 1 - (msgnb + 1) => got'[i] <= msgtime
                        /\ i + (msgnb + 1) + N <= n + 1 => msgtime - got'[i] > T
      BY <1>1, <1>6, <2>1 DEF WindowOpen
    <3> QED BY <1>2, <1>6, <1>7, <2>1, <2>2
  <2> QED BY <1>2, <2>1, <2>2, <2>4, <2>5
<1> QED BY <1>10, <1>11, <1>12

LEMMA BoundKept == CountersInv /\ BoundInv /\ [FloodNext]_floodvars => BoundInv'
<1> SUFFICES ASSUME CountersInv, BoundInv, [FloodNext]_floodvars PROVE BoundInv'
  OBVIOUS
<1>1. CASE m_privmsg /\ (Forgive \/ StartWindow \/ Count)
  <2>1. UNCHANGED <<clock, set, reread>>
    BY <1>1 DEF m_privmsg
  <2>2. CASE ~reread /\ set.ignore >= set.time
    BY <1>1, <2>1, <2>2, ThroughKeeps
  <2>3. CASE ~(~reread /\ set.ignore >= set.time)
    BY <2>1, <2>3 DEF BoundInv
  <2> QED BY <2>2, <2>3
<1>2. CASE m_privmsg /\ Ignore
  <2>1. /\ ~ignored /\ ignored' /\ ignoretime' = clock /\ ~Expired /\ msgnb # 0
        /\ UNCHANGED <<clock, set, reread, msgtime, msgnb, got>>
    BY <1>2 DEF m_privmsg, Ignore, Floods
  <2>2. ~Forgiven /\ msgtime <= clock /\ \A i \in 1 .. Len(got) : got[i] <= clock
    BY <2>1 DEF Forgiven, CountersInv
  <2> QED BY <2>1, <2>2 DEF BoundInv, WindowOpen, Holds
<1>3. CASE oper_rehash
  BY <1>3 DEF oper_rehash, BoundInv
<1>4. CASE new_nick
  <2>1. /\ got' = <<>> /\ msgnb' = 0 /\ msgtime' = 0 /\ ~ignored' /\ set' = set
        /\ set.nb \in Nat
    BY <1>4, TheSettings DEF new_nick, CountersInv
  <2>2. WindowOpen' /\ Holds(set)'
    BY <2>1 DEF WindowOpen, Holds
  <2> QED BY <2>1, <2>2 DEF BoundInv
<1>5. CASE Second
  <2>1. clock' = clock + 1 /\ UNCHANGED <<set, counters, got, reread>>
    BY <1>5 DEF Second
  <2>2. clock \in Nat /\ msgtime \in Nat /\ set.time \in Nat /\ \A i \in 1 .. Len(got) : got[i] \in Nat
    BY TheSettings DEF CountersInv
  <2>3. Forgiven => Forgiven'
    BY <2>1, <2>2 DEF Forgiven, Expired, counters
  <2> QED BY <2>1, <2>3 DEF BoundInv, WindowOpen, Holds, counters
<1>6. CASE UNCHANGED floodvars
  BY <1>6 DEF floodvars, counters, BoundInv, WindowOpen, Forgiven, Expired, Holds
<1> QED BY <1>1, <1>2, <1>3, <1>4, <1>5, <1>6 DEF FloodNext, m_privmsg

LEMMA FloodStart == FloodInit => CountersInv /\ BoundInv
<1> SUFFICES ASSUME FloodInit PROVE CountersInv /\ BoundInv
  OBVIOUS
<1>1. /\ got = <<>> /\ msgnb = 0 /\ msgtime = 0 /\ ignoretime = 0 /\ ~ignored /\ ignored \in BOOLEAN
      /\ reread \in BOOLEAN /\ clock = 1 /\ set \in Settings /\ set.nb \in Nat
  BY TheSettings DEF FloodInit
<1>2. CountersInv
  BY <1>1 DEF CountersInv
<1>3. WindowOpen /\ Holds(set)
  BY <1>1 DEF WindowOpen, Holds
<1> QED BY <1>1, <1>2, <1>3 DEF BoundInv

LEMMA FloodKept == FloodSpec => [](CountersInv /\ BoundInv)
<1>1. CountersInv /\ BoundInv /\ [FloodNext]_floodvars => (CountersInv /\ BoundInv)'
  BY CountersKept, BoundKept
<1> QED BY <1>1, FloodStart, PTL DEF FloodSpec

\* With the same settings all along, no more than twice the number of messages get through in
\* the time, for every number and time, however the windows and the times of ignorance lie
\* (m_privmsg).
THEOREM FloodCorrect == FloodSpec => []FloodIsBounded
<1>1. BoundInv => FloodIsBounded
  BY DEF BoundInv, FloodIsBounded
<1> QED BY <1>1, FloodKept, PTL

\* Whatever settings are read in between, nobody is ignored but after as many messages in as
\* many seconds as the settings of the moment name (m_privmsg).
THEOREM IgnoredForCause == FloodSpec => OnlyFloodersAreIgnored
<1>1. CountersInv /\ [FloodNext]_floodvars =>
        [ignored' /\ ~ignored =>
           /\ Len(got) >= set.nb
           /\ \A i \in 1 .. Len(got) : i > Len(got) - set.nb => clock - got[i] <= set.time]_floodvars
  <2> SUFFICES ASSUME CountersInv, FloodNext, ignored', ~ignored
               PROVE  /\ Len(got) >= set.nb
                      /\ \A i \in 1 .. Len(got) : i > Len(got) - set.nb => clock - got[i] <= set.time
    BY DEF floodvars, counters
  <2>1. Floods
    BY DEF FloodNext, m_privmsg, Forgive, StartWindow, Ignore, Count, oper_rehash, new_nick, Second, counters
  <2>2. msgnb >= set.nb /\ ~(clock - msgtime > set.time)
    BY <2>1 DEF Floods, Full, Expired
  <2>3. /\ set.nb \in Nat /\ set.time \in Nat /\ clock \in Nat /\ msgtime \in Nat /\ msgnb \in Nat
        /\ Len(got) \in Nat /\ msgnb <= Len(got)
        /\ \A i \in 1 .. Len(got) : got[i] \in Nat /\ (i > Len(got) - msgnb => got[i] >= msgtime)
    BY TheSettings DEF CountersInv
  <2>4. ASSUME NEW i \in 1 .. Len(got), i > Len(got) - set.nb PROVE clock - got[i] <= set.time
    <3>1. i > Len(got) - msgnb
      BY <2>2, <2>3, <2>4
    <3> QED BY <2>2, <2>3, <3>1
  <2> QED BY <2>2, <2>3, <2>4
<1> QED BY <1>1, FloodKept, PTL DEF FloodSpec, OnlyFloodersAreIgnored

=============================================================================
