---------------------------- MODULE TimersProofs ----------------------------
(***************************************************************************)
(* Proofs about Timers, for any finite sets of channels, masks and users   *)
(* and any number of lines under way: every variable keeps its type, no    *)
(* ban is on the network that no entry watches, but for those whose end    *)
(* the code loses, and the network's limit follows the users.              *)
(***************************************************************************)
EXTENDS Timers, FiniteSetTheorems, TLAPS

-----------------------------------------------------------------------------
(* Types *)

TableType ==
  /\ registered \subseteq Chans /\ nojoin \subseteq Chans /\ linked \in BOOLEAN
  /\ autolimit \in [Chans -> AutoLimits] /\ limit \in [Chans -> LimitStates]
  /\ timeban \in [Chans -> [Masks -> BanStates]]
  /\ members \in [Chans -> SUBSET Users]

NetType ==
  /\ users \in [Chans -> SUBSET Users]
  /\ netlimit \in [Chans -> Nat] /\ bans \in [Chans -> SUBSET Masks]

Told == {"JOIN", "PART"} \X Chans \X Users

\* Without a link nothing is under way.
QueueType ==
  /\ toServices \in Seq(Told) /\ toNet \in Seq(Line)
  /\ ~linked => toServices = <<>> /\ toNet = <<>>

RestType ==
  loose \subseteq Chans \X Masks /\ stale \subseteq Chans /\ orders \in 0 .. MaxOrders /\ fault \in BOOLEAN

TypeInv == TableType /\ NetType /\ QueueType /\ RestType

\* The lines there are.
LEMMA Lines ==
  /\ \A c \in Chans, m \in Masks : Ban("+b", c, m) \in Line /\ Ban("-b", c, m) \in Line
  /\ \A c \in Chans, u \in Users : Kick(c, u) \in Line
  /\ \A c \in Chans, n \in Nat : Limit(c, n) \in Line
  /\ \A c \in Chans : Unban(c) \in Line
  /\ \A o \in Line : /\ o.chan \in Chans
                     /\ o.cmd \in {"+b", "-b"} => o.mask \in Masks /\ o = Ban(o.cmd, o.chan, o.mask)
                     /\ o.cmd = "+l" => o.to \in Nat
                     /\ o.cmd = "KICK" => o.user \in Users
  BY DEF Line, Ban, Kick, Limit, Unban

\* An arrangement of a finite set is a sequence that names every member.
LEMMA Arranged ==
  ASSUME NEW S, IsFiniteSet(S), NEW s \in SetToSeqs(S)
  PROVE  /\ s \in Seq(S)
         /\ DOMAIN s = 1 .. Len(s)
         /\ \A x \in S : \E i \in 1 .. Len(s) : s[i] = x
<1>1. PICK n : n = Cardinality(S)
  OBVIOUS
<1>2. n \in Nat
  BY <1>1, FS_CardinalityType
<1>3. s \in [1 .. n -> S] /\ \A i, j \in 1 .. n : s[i] = s[j] => i = j
  BY <1>1 DEF SetToSeqs
<1>4. s \in Injection(1 .. n, S)
  BY <1>3 DEF Injection, IsInjective
<1>5. Cardinality(1 .. n) = n
  BY <1>2, FS_Interval
<1>6. s \in Surjection(1 .. n, S)
  BY <1>1, <1>4, <1>5, FS_Injection
<1>7. s \in Seq(S) /\ Len(s) = n
  BY <1>2, <1>3
<1> QED BY <1>3, <1>6, <1>7 DEF Surjection

\* What is sent are lines, and without a link nothing is.
LEMMA Sends ==
  ASSUME QueueType, NEW lines \in Seq(Line), Send(lines)
  PROVE  toNet' \in Seq(Line) /\ (~linked => toNet' = <<>>)
  BY DEF QueueType, Send

\* A limit that waits anew is one of the states of a limit.
LEMMA RenewedType ==
  ASSUME TableType, NEW c \in Chans
  PROVE  Renewed(c) \in [Chans -> LimitStates]
  BY DEF TableType, Renewed, LimitStates

LEMMA LeaveType ==
  ASSUME TableType, NEW c \in Chans, NEW Q, Leave(c, Q)
  PROVE  members' \in [Chans -> SUBSET Users] /\ limit' \in [Chans -> LimitStates]
<1>1. members' \in [Chans -> SUBSET Users]
  BY DEF TableType, Leave
<1>2. limit' \in [Chans -> LimitStates]
  BY RenewedType DEF TableType, Leave
<1> QED BY <1>1, <1>2

\* Sets of channels, of users and of bans are finite.
LEMMA Finite ==
  /\ \A S \in SUBSET Chans : IsFiniteSet(S)
  /\ \A S \in SUBSET Users : IsFiniteSet(S) /\ Cardinality(S) \in Nat
  /\ \A S \in SUBSET (Chans \X Masks) : IsFiniteSet(S)
  /\ \A S \in SUBSET (Chans \X Users) : IsFiniteSet(S)
<1>1. IsFiniteSet(Chans \X Masks) /\ IsFiniteSet(Chans \X Users)
  BY TimersFinite, FS_Product
<1> QED BY <1>1, TimersFinite, FS_Subset, FS_CardinalityType

\* A line about a user.
LEMMA HeadTold ==
  ASSUME QueueType, toServices # <<>>
  PROVE  /\ Head(toServices)[1] \in {"JOIN", "PART"}
         /\ Head(toServices)[2] \in Chans /\ Head(toServices)[3] \in Users
         /\ Tail(toServices) \in Seq(Told) /\ linked
<1>1. Head(toServices) \in Told /\ Tail(toServices) \in Seq(Told) /\ linked
  BY DEF QueueType
<1> QED BY <1>1 DEF Told

\* A user who joins is known, or banned and perhaps kicked.
LEMMA Joins ==
  ASSUME TypeInv, m_join
  PROVE  \E c \in Chans, u \in Users :
           /\ toServices # <<>> /\ Head(toServices) = <<"JOIN", c, u>> /\ toServices' = Tail(toServices)
           /\ limit' = Renewed(c)
           /\ UNCHANGED <<registered, autolimit, nojoin, timeban, linked, network, stale, orders, fault>>
           /\ \/ members' = [members EXCEPT ![c] = @ \cup {u}] /\ UNCHANGED <<toNet, loose>>
              \/ \E m \in Masks, lines \in Seq(Line) :
                   /\ Send(lines) /\ \A i \in 1 .. Len(lines) : lines[i] \in {Ban("+b", c, m), Kick(c, u)}
                   /\ \/ members' = [members EXCEPT ![c] = @ \cup {u}]
                      \/ UNCHANGED members /\ \E i \in 1 .. Len(lines) : lines[i] = Kick(c, u)
                   /\ loose' = IF timeban[c][m] = "none" THEN loose \cup {<<c, m>>} ELSE loose
<1>1. PICK c, u : c = Head(toServices)[2] /\ u = Head(toServices)[3]
  OBVIOUS
<1>2. /\ toServices # <<>> /\ Head(toServices)[1] = "JOIN" /\ toServices' = Tail(toServices)
      /\ limit' = Renewed(c)
      /\ UNCHANGED <<registered, autolimit, nojoin, timeban, linked, network, stale, orders, fault>>
  BY <1>1 DEF m_join, Sound
<1>3. c \in Chans /\ u \in Users /\ Head(toServices) = <<"JOIN", c, u>>
  <2>1. Head(toServices) \in Told
    BY <1>2 DEF TypeInv, QueueType
  <2> QED BY <1>1, <1>2, <2>1 DEF Told
<1>4. PICK m \in Masks : m = Host[u]
  BY <1>3, TimersHosts
<1>5. PICK one, two : one = <<Ban("+b", c, m)>> /\ two = <<Ban("+b", c, m), Kick(c, u)>>
  OBVIOUS
<1>6. Ban("+b", c, m) \in Line /\ Kick(c, u) \in Line
  BY <1>3, Lines
<1>7. one \in Seq(Line) /\ \A i \in 1 .. Len(one) : one[i] \in {Ban("+b", c, m), Kick(c, u)}
  BY <1>5, <1>6
<1>8. /\ two \in Seq(Line) /\ \A i \in 1 .. Len(two) : two[i] \in {Ban("+b", c, m), Kick(c, u)}
      /\ 2 \in 1 .. Len(two) /\ two[2] = Kick(c, u)
  BY <1>5, <1>6
<1>9. \/ members' = [members EXCEPT ![c] = @ \cup {u}] /\ UNCHANGED <<toNet, loose>>
      \/ /\ \/ members' = [members EXCEPT ![c] = @ \cup {u}] /\ Send(one)
            \/ UNCHANGED members /\ Send(two)
         /\ loose' = IF timeban[c][m] = "none" THEN loose \cup {<<c, m>>} ELSE loose
  BY <1>1, <1>4, <1>5 DEF m_join
<1>10. ASSUME members' = [members EXCEPT ![c] = @ \cup {u}], Send(one),
              loose' = IF timeban[c][m] = "none" THEN loose \cup {<<c, m>>} ELSE loose
       PROVE  \E n \in Masks, lines \in Seq(Line) :
                /\ Send(lines) /\ \A i \in 1 .. Len(lines) : lines[i] \in {Ban("+b", c, n), Kick(c, u)}
                /\ \/ members' = [members EXCEPT ![c] = @ \cup {u}]
                   \/ UNCHANGED members /\ \E i \in 1 .. Len(lines) : lines[i] = Kick(c, u)
                /\ loose' = IF timeban[c][n] = "none" THEN loose \cup {<<c, n>>} ELSE loose
  BY <1>7, <1>10, Zenon
<1>11. ASSUME UNCHANGED members, Send(two),
              loose' = IF timeban[c][m] = "none" THEN loose \cup {<<c, m>>} ELSE loose
       PROVE  \E n \in Masks, lines \in Seq(Line) :
                /\ Send(lines) /\ \A i \in 1 .. Len(lines) : lines[i] \in {Ban("+b", c, n), Kick(c, u)}
                /\ \/ members' = [members EXCEPT ![c] = @ \cup {u}]
                   \/ UNCHANGED members /\ \E i \in 1 .. Len(lines) : lines[i] = Kick(c, u)
                /\ loose' = IF timeban[c][n] = "none" THEN loose \cup {<<c, n>>} ELSE loose
  BY <1>8, <1>11, Zenon
<1> QED BY <1>2, <1>3, <1>9, <1>10, <1>11, Zenon

\* The services handle a line about a user.
LEMMA JoinTypes ==
  ASSUME TypeInv, m_join PROVE TypeInv'
<1>1. PICK c \in Chans, u \in Users :
        /\ toServices # <<>> /\ toServices' = Tail(toServices) /\ limit' = Renewed(c)
        /\ UNCHANGED <<registered, autolimit, nojoin, timeban, linked, network, stale, orders, fault>>
        /\ \/ members' = [members EXCEPT ![c] = @ \cup {u}] /\ UNCHANGED <<toNet, loose>>
           \/ \E m \in Masks, lines \in Seq(Line) :
                /\ Send(lines)
                /\ members' = [members EXCEPT ![c] = @ \cup {u}] \/ UNCHANGED members
                /\ loose' = IF timeban[c][m] = "none" THEN loose \cup {<<c, m>>} ELSE loose
  BY Joins
<1>2. toServices' \in Seq(Told) /\ linked
  BY <1>1, HeadTold DEF TypeInv
<1>3. limit' \in [Chans -> LimitStates]
  BY <1>1, RenewedType DEF TypeInv
<1>4. members' \in [Chans -> SUBSET Users] /\ loose' \subseteq Chans \X Masks
  <2>1. members \in [Chans -> SUBSET Users] /\ loose \subseteq Chans \X Masks
    BY DEF TypeInv, TableType, RestType
  <2>2. members' = [members EXCEPT ![c] = @ \cup {u}] \/ members' = members
    BY <1>1
  <2>3. members' \in [Chans -> SUBSET Users]
    BY <2>1, <2>2
  <2>4. loose' = loose \/ \E m \in Masks : loose' \subseteq loose \cup {<<c, m>>}
    BY <1>1
  <2> QED BY <2>1, <2>3, <2>4
<1>5. toNet' \in Seq(Line)
  BY <1>1, Sends DEF TypeInv, QueueType
<1>6. TableType' /\ NetType' /\ RestType'
  BY <1>1, <1>3, <1>4 DEF TypeInv, TableType, NetType, RestType, network
<1>7. QueueType'
  BY <1>1, <1>2, <1>5 DEF QueueType
<1> QED BY <1>6, <1>7 DEF TypeInv

\* A member leaves or is kicked.
LEMMA PartTypes ==
  ASSUME TypeInv, m_part \/ \E c \in Chans, u \in Users : chan_kick(c, u) PROVE TypeInv'
<1>1. ASSUME NEW c \in Chans, NEW u \in Users, chan_kick(c, u) PROVE TypeInv'
  <2>1. /\ Leave(c, {u}) /\ linked /\ Send(<<Kick(c, u)>>) /\ orders' \in 0 .. MaxOrders
        /\ UNCHANGED <<registered, autolimit, nojoin, timeban, linked, network, toServices, loose, stale, fault>>
    BY <1>1, TimersBounds DEF chan_kick, Sound, TypeInv, RestType
  <2>2. <<Kick(c, u)>> \in Seq(Line)
    BY Lines
  <2>3. toNet' \in Seq(Line)
    BY <2>1, <2>2, Sends DEF TypeInv
  <2>4. members' \in [Chans -> SUBSET Users] /\ limit' \in [Chans -> LimitStates]
    BY <2>1, LeaveType DEF TypeInv
  <2> QED BY <2>1, <2>3, <2>4 DEF TypeInv, TableType, NetType, QueueType, RestType, network
<1>2. CASE m_part
  <2>1. PICK c, u : c = Head(toServices)[2] /\ u = Head(toServices)[3]
    OBVIOUS
  <2>2. /\ Leave(c, {u}) /\ toServices # <<>> /\ toServices' = Tail(toServices)
        /\ UNCHANGED <<registered, autolimit, nojoin, timeban, linked, network, toNet, loose, stale, orders, fault>>
    BY <1>2, <2>1 DEF m_part, Sound
  <2>3. c \in Chans /\ toServices' \in Seq(Told) /\ linked
    BY <2>1, <2>2, HeadTold DEF TypeInv
  <2>4. members' \in [Chans -> SUBSET Users] /\ limit' \in [Chans -> LimitStates]
    BY <2>2, <2>3, LeaveType DEF TypeInv
  <2> QED BY <2>2, <2>3, <2>4 DEF TypeInv, TableType, NetType, QueueType, RestType, network
<1> QED BY <1>1, <1>2

\* The limits that are due are lines about limits: one for each channel with someone in it.
LEMMA LimitsSent ==
  ASSUME TypeInv, CheckLimits
  PROVE  \E lines \in Seq(Line) :
           /\ Send(lines)
           /\ \A i \in 1 .. Len(lines) : lines[i].cmd = "+l" /\ lines[i].to = Room(lines[i].chan)
           /\ \A c \in Chans : limit[c] = "due" /\ members[c] # {} =>
                \E i \in 1 .. Len(lines) : lines[i].chan = c
<1>1. PICK S : S = {c \in {d \in Chans : limit[d] = "due"} : members[c] # {}}
  OBVIOUS
<1>2. PICK s \in SetToSeqs(S) : Send([i \in DOMAIN s |-> Limit(s[i], Room(s[i]))])
  BY <1>1 DEF CheckLimits
<1>3. s \in Seq(Chans) /\ DOMAIN s = 1 .. Len(s) /\ \A c \in S : \E i \in 1 .. Len(s) : s[i] = c
  <2>1. S \in SUBSET Chans
    BY <1>1
  <2>2. s \in Seq(S) /\ DOMAIN s = 1 .. Len(s) /\ \A c \in S : \E i \in 1 .. Len(s) : s[i] = c
    BY <2>1, Finite, Arranged
  <2> QED BY <2>1, <2>2
<1>4. \A c \in Chans : Room(c) \in Nat
  <2>1. \A c \in Chans : Cardinality(members[c]) \in Nat
    BY Finite DEF TypeInv, TableType
  <2>2. \A c \in Chans : autolimit[c] \in Nat
    BY TimersLimits DEF TypeInv, TableType
  <2> QED BY <2>1, <2>2 DEF Room
<1>5. PICK lines : lines = [i \in DOMAIN s |-> Limit(s[i], Room(s[i]))]
  OBVIOUS
<1>6. \A i \in 1 .. Len(s) : /\ lines[i] \in Line /\ lines[i].cmd = "+l"
                            /\ lines[i].chan = s[i] /\ lines[i].to = Room(s[i])
  <2> SUFFICES ASSUME NEW i \in 1 .. Len(s)
               PROVE  /\ lines[i] \in Line /\ lines[i].cmd = "+l"
                      /\ lines[i].chan = s[i] /\ lines[i].to = Room(s[i])
    OBVIOUS
  <2>1. s[i] \in Chans
    BY <1>3
  <2>2. lines[i] = Limit(s[i], Room(s[i]))
    BY <1>3, <1>5
  <2>3. lines[i] \in Line
    BY <1>4, <2>1, <2>2, Lines
  <2> QED BY <2>2, <2>3 DEF Limit
<1>7. DOMAIN lines = 1 .. Len(s) /\ Len(s) \in Nat /\ lines = [i \in 1 .. Len(s) |-> lines[i]]
  BY <1>3, <1>5
<1>8. lines \in Seq(Line) /\ Len(lines) = Len(s)
  BY <1>6, <1>7
<1>9. \A c \in Chans : limit[c] = "due" /\ members[c] # {} => \E i \in 1 .. Len(lines) : lines[i].chan = c
  BY <1>1, <1>3, <1>6, <1>8
<1>10. \A i \in 1 .. Len(lines) : lines[i].cmd = "+l" /\ lines[i].to = Room(lines[i].chan)
  BY <1>6, <1>8
<1>11. Send(lines)
  BY <1>2, <1>5
<1> QED BY <1>8, <1>9, <1>10, <1>11

\* Limits are set, come due and are sent.
LEMMA LimitTypes ==
  ASSUME TypeInv,
         CheckLimits \/ \E c \in Chans : LimitDue(c) \/ \E a \in AutoLimits : chan_set_autolimit(c, a)
  PROVE  TypeInv'
<1>1. ASSUME NEW c \in Chans, LimitDue(c) PROVE TypeInv'
  BY <1>1 DEF LimitDue, Sound, TypeInv, TableType, NetType, QueueType, RestType, network, LimitStates
<1>2. ASSUME NEW c \in Chans, NEW a \in AutoLimits, chan_set_autolimit(c, a) PROVE TypeInv'
  BY <1>2 DEF chan_set_autolimit, Sound, TypeInv, TableType, NetType, QueueType, RestType, network,
              LimitStates
<1>3. CASE CheckLimits
  <2>1. \E due : limit' = [c \in Chans |-> IF c \in due THEN "none" ELSE limit[c]]
    BY <1>3 DEF CheckLimits
  <2>2. TableType'
    BY <1>3, <2>1 DEF CheckLimits, TypeInv, TableType, LimitStates
  <2>3. toNet' \in Seq(Line) /\ (~linked => toNet' = <<>>)
    BY <1>3, LimitsSent, Sends DEF TypeInv
  <2>4. RestType'
    BY <1>3 DEF CheckLimits, Sound, TypeInv, RestType
  <2> QED BY <1>3, <2>2, <2>3, <2>4 DEF CheckLimits, Sound, TypeInv, NetType, QueueType, network
<1> QED BY <1>1, <1>2, <1>3

\* A time ban goes out after the kicks.
LEMMA BanLines ==
  ASSUME TypeInv, NEW c \in Chans, NEW m \in Masks, NEW until, NEW Q \in SUBSET members[c],
         bot_tb(c, m, until, Q)
  PROVE  \E lines \in Seq(Line) :
           /\ Send(lines)
           /\ \A i \in 1 .. Len(lines) : lines[i] = Ban("+b", c, m) \/ lines[i].cmd = "KICK"
           /\ \A u \in Q : \E i \in 1 .. Len(lines) : lines[i] = Kick(c, u)
<1>1. PICK s \in SetToSeqs(Q) : Send([i \in DOMAIN s |-> Kick(c, s[i])] \o <<Ban("+b", c, m)>>)
  BY DEF bot_tb
<1>2. s \in Seq(Users) /\ DOMAIN s = 1 .. Len(s) /\ \A u \in Q : \E i \in 1 .. Len(s) : s[i] = u
  <2>1. Q \in SUBSET Users
    BY DEF TypeInv, TableType
  <2>2. s \in Seq(Q) /\ DOMAIN s = 1 .. Len(s) /\ \A u \in Q : \E i \in 1 .. Len(s) : s[i] = u
    BY <2>1, Finite, Arranged
  <2> QED BY <2>1, <2>2
<1>3. PICK kicks : kicks = [i \in DOMAIN s |-> Kick(c, s[i])]
  OBVIOUS
<1>4. kicks = [i \in 1 .. Len(s) |-> Kick(c, s[i])] /\ Len(s) \in Nat
  BY <1>2, <1>3
<1>5. \A i \in 1 .. Len(s) : kicks[i] \in Line /\ kicks[i].cmd = "KICK"
  BY <1>2, <1>4, Lines DEF Kick
<1>6. kicks \in Seq(Line) /\ Len(kicks) = Len(s)
  BY <1>4, <1>5
<1>7. PICK lines : lines = kicks \o <<Ban("+b", c, m)>>
  OBVIOUS
<1>8. Ban("+b", c, m) \in Line
  BY Lines
<1>9. /\ lines \in Seq(Line)
      /\ \A i \in 1 .. Len(lines) : lines[i] = Ban("+b", c, m) \/ (lines[i] = kicks[i] /\ i \in 1 .. Len(s))
      /\ \A i \in 1 .. Len(s) : i \in 1 .. Len(lines) /\ lines[i] = kicks[i]
  <2>1. lines \in Seq(Line) /\ Len(lines) = Len(s) + 1
    <3>1. <<Ban("+b", c, m)>> \in Seq(Line) /\ Len(<<Ban("+b", c, m)>>) = 1
      BY <1>8
    <3> QED BY <1>6, <1>7, <3>1
  <2>2. lines[Len(s) + 1] = Ban("+b", c, m) /\ \A i \in 1 .. Len(s) : lines[i] = kicks[i]
    BY <1>4, <1>6, <1>7, <1>8
  <2>3. /\ \A i \in 1 .. Len(lines) : i = Len(s) + 1 \/ i \in 1 .. Len(s)
        /\ \A i \in 1 .. Len(s) : i \in 1 .. Len(lines)
    BY <1>4, <2>1
  <2> QED BY <2>1, <2>2, <2>3
<1>10. Send(lines)
  BY <1>1, <1>3, <1>7
<1>11. \A u \in Q : \E i \in 1 .. Len(lines) : lines[i] = Kick(c, u)
  BY <1>2, <1>4, <1>9
<1> QED BY <1>5, <1>9, <1>10, <1>11

\* Bans are set, lifted, forgotten and come to their end.
LEMMA BanTypes ==
  ASSUME TypeInv, NEW c \in Chans, NEW m \in Masks,
         \/ bot_unban(c, m) \/ BanOver(c, m) \/ chan_clearbans(c)
         \/ \E until \in {"running", "forever"} :
              bot_tb_refused(c, m, until) \/ \E Q \in SUBSET members[c] : bot_tb(c, m, until, Q)
  PROVE  TypeInv'
<1>1. CASE bot_unban(c, m)
  <2>1. Send(<<Ban("-b", c, m)>>) /\ <<Ban("-b", c, m)>> \in Seq(Line)
    BY <1>1, Lines DEF bot_unban, UnbanLines
  <2>2. toNet' \in Seq(Line) /\ linked
    BY <1>1, <2>1, Sends DEF bot_unban, TypeInv
  <2> QED BY <1>1, <2>2 DEF bot_unban, Sound, TypeInv, TableType, NetType, QueueType, RestType, network,
                            BanStates
<1>2. CASE BanOver(c, m)
  BY <1>2 DEF BanOver, Sound, TypeInv, TableType, NetType, QueueType, RestType, network, BanStates
<1>3. CASE chan_clearbans(c)
  BY <1>3 DEF chan_clearbans, Sound, TypeInv, TableType, NetType, QueueType, RestType, network, BanStates
<1>4. ASSUME NEW until \in {"running", "forever"}, bot_tb_refused(c, m, until) PROVE TypeInv'
  BY <1>4, TimersBounds DEF bot_tb_refused, Sound, TypeInv, TableType, NetType, QueueType, RestType,
                            network, BanStates
<1>5. ASSUME NEW until \in {"running", "forever"}, NEW Q \in SUBSET members[c], bot_tb(c, m, until, Q)
      PROVE  TypeInv'
  <2>1. toNet' \in Seq(Line) /\ linked
    BY <1>5, BanLines, Sends DEF bot_tb, TypeInv
  <2>2. members' \in [Chans -> SUBSET Users] /\ limit' \in [Chans -> LimitStates]
    BY <1>5, LeaveType DEF bot_tb, TypeInv
  <2>3. timeban' \in [Chans -> [Masks -> BanStates]] /\ orders' \in 0 .. MaxOrders
        /\ fault' \in BOOLEAN /\ loose' \subseteq Chans \X Masks
    BY <1>5, TimersBounds DEF bot_tb, TypeInv, TableType, RestType, BanStates
  <2>4. UNCHANGED <<registered, autolimit, nojoin, linked, network, toServices, stale>>
    BY <1>5 DEF bot_tb
  <2> QED BY <2>1, <2>2, <2>3, <2>4 DEF TypeInv, TableType, NetType, QueueType, RestType, network
<1> QED BY <1>1, <1>2, <1>3, <1>4, <1>5

\* Every ban that is over gets its line.
LEMMA Lifted ==
  ASSUME TypeInv, CheckTimebans
  PROVE  \E over \in SUBSET (Chans \X Masks), lines \in Seq(Line) :
           /\ over = {b \in Chans \X Masks : timeban[b[1]][b[2]] = "over"}
           /\ Send(lines)
           /\ \A i \in 1 .. Len(lines) : \E b \in over : lines[i] = Ban("-b", b[1], b[2])
           /\ \A b \in over : \E i \in 1 .. Len(lines) : lines[i] = Ban("-b", b[1], b[2])
           /\ timeban' = [c \in Chans |-> [m \in Masks |->
                            IF <<c, m>> \in over THEN "none" ELSE timeban[c][m]]]
           /\ loose' = IF linked THEN loose ELSE loose \cup {b \in over : b[2] \in bans[b[1]]}
           /\ UNCHANGED <<registered, autolimit, nojoin, limit, members, linked, network, toServices, stale,
                          orders, fault>>
<1>1. PICK over \in SUBSET (Chans \X Masks) :
        over = {b \in Chans \X Masks : timeban[b[1]][b[2]] = "over"}
  OBVIOUS
<1>2. PICK s \in SetToSeqs(over) : Send([i \in DOMAIN s |-> Ban("-b", s[i][1], s[i][2])])
  BY <1>1 DEF CheckTimebans, Ended
<1>3. /\ s \in Seq(over) /\ DOMAIN s = 1 .. Len(s)
      /\ \A b \in over : \E i \in 1 .. Len(s) : s[i] = b
  BY Finite, Arranged
<1>4. PICK lines : lines = [i \in DOMAIN s |-> Ban("-b", s[i][1], s[i][2])]
  OBVIOUS
<1>5. lines = [i \in 1 .. Len(s) |-> Ban("-b", s[i][1], s[i][2])] /\ Len(s) \in Nat
  BY <1>3, <1>4
<1>6. \A i \in 1 .. Len(s) : s[i] \in over /\ lines[i] = Ban("-b", s[i][1], s[i][2]) /\ lines[i] \in Line
  <2>1. \A b \in Chans \X Masks : b[1] \in Chans /\ b[2] \in Masks
    OBVIOUS
  <2> QED BY <1>3, <1>5, <2>1, Lines
<1>7. lines \in Seq(Line) /\ Len(lines) = Len(s)
  BY <1>5, <1>6
<1>8. /\ timeban' = [c \in Chans |-> [m \in Masks |->
                       IF <<c, m>> \in over THEN "none" ELSE timeban[c][m]]]
      /\ loose' = IF linked THEN loose ELSE loose \cup {b \in over : b[2] \in bans[b[1]]}
      /\ UNCHANGED <<registered, autolimit, nojoin, limit, members, linked, network, toServices, stale, orders,
                       fault>>
  BY <1>1 DEF CheckTimebans, Ended, Sound
<1>9. /\ \A i \in 1 .. Len(lines) : \E b \in over : lines[i] = Ban("-b", b[1], b[2])
      /\ \A b \in over : \E i \in 1 .. Len(lines) : lines[i] = Ban("-b", b[1], b[2])
  BY <1>3, <1>6, <1>7
<1>10. Send(lines)
  BY <1>2, <1>4
<1> QED BY <1>1, <1>7, <1>8, <1>9, <1>10

LEMMA LiftTypes ==
  ASSUME TypeInv, CheckTimebans PROVE TypeInv'
<1>1. PICK over \in SUBSET (Chans \X Masks), lines \in Seq(Line) :
        /\ Send(lines)
        /\ timeban' = [c \in Chans |-> [m \in Masks |->
                         IF <<c, m>> \in over THEN "none" ELSE timeban[c][m]]]
        /\ loose' = IF linked THEN loose ELSE loose \cup {b \in over : b[2] \in bans[b[1]]}
        /\ UNCHANGED <<registered, autolimit, nojoin, limit, members, linked, network, toServices, stale, orders,
                       fault>>
  BY Lifted
<1>2. toNet' \in Seq(Line) /\ (~linked => toNet' = <<>>)
  BY <1>1, Sends DEF TypeInv
<1>3. TableType'
  BY <1>1 DEF TypeInv, TableType, BanStates
<1>4. RestType'
  BY <1>1 DEF TypeInv, RestType
<1> QED BY <1>1, <1>2, <1>3, <1>4 DEF TypeInv, NetType, QueueType, network

\* Channels come and go, and so does the link.
LEMMA LinkTypes ==
  ASSUME TypeInv,
         cleanup_reconnect \/ Burst \/ \E c \in Chans : chan_register(c) \/ chandrop(c)
  PROVE  TypeInv'
<1>1. ASSUME NEW c \in Chans, chan_register(c) \/ chandrop(c) PROVE TypeInv'
  <2>1. /\ registered' \subseteq Chans /\ nojoin' \subseteq Chans /\ fault' \in BOOLEAN
        /\ autolimit' = [autolimit EXCEPT ![c] = 0]
        /\ UNCHANGED <<limit, timeban, members, linked, network, toServices, toNet, loose, stale, orders>>
    BY <1>1 DEF chan_register, chandrop, Sound, TypeInv, TableType, RestType
  <2> QED BY <2>1, TimersLimits DEF TypeInv, TableType, NetType, QueueType, RestType, network
<1>2. CASE cleanup_reconnect
  <2>1. loose' \subseteq Chans \X Masks
    BY <1>2 DEF cleanup_reconnect, TypeInv, RestType
  <2>2. TableType'
    BY <1>2 DEF cleanup_reconnect, TypeInv, TableType, LimitStates
  <2> QED BY <1>2, <2>1, <2>2 DEF cleanup_reconnect, Sound, TypeInv, NetType, QueueType, RestType, network
<1>3. CASE Burst
  <2>1. PICK s \in SetToSeqs({b \in Chans \X Users : b[2] \in users[b[1]]}) :
          toServices' = [i \in DOMAIN s |-> <<"JOIN", s[i][1], s[i][2]>>]
    BY <1>3 DEF Burst
  <2>2. s \in Seq(Chans \X Users) /\ DOMAIN s = 1 .. Len(s)
    <3>1. PICK S \in SUBSET (Chans \X Users) : S = {b \in Chans \X Users : b[2] \in users[b[1]]}
      OBVIOUS
    <3>2. s \in Seq(S) /\ DOMAIN s = 1 .. Len(s)
      BY <2>1, <3>1, Finite, Arranged
    <3> QED BY <3>2
  <2>3. \A i \in 1 .. Len(s) : <<"JOIN", s[i][1], s[i][2]>> \in Told
    BY <2>2 DEF Told
  <2>4. toServices' \in Seq(Told)
    BY <2>1, <2>2, <2>3
  <2>5. linked' = TRUE /\ fault' = fault
        /\ UNCHANGED <<registered, autolimit, nojoin, limit, timeban, members, network, toNet, loose, stale,
                       orders>>
    BY <1>3 DEF Burst, Sound
  <2> QED BY <2>4, <2>5 DEF TypeInv, TableType, NetType, QueueType, RestType, network
<1> QED BY <1>1, <1>2, <1>3

\* The commands that leave limits and entries as they are.
Meddles(c) ==
  \/ chan_clearmodes(c) \/ chan_clearchan(c) \/ chan_unbanall(c)
  \/ \E on \in BOOLEAN : chan_set_nojoin(c, on)
  \/ \E n \in ModeLimits : chan_set_mlock(c, n)

\* They touch one channel, and note it unless its mode l and NOJOIN stay.
LEMMA Meddled ==
  ASSUME TypeInv, NEW c \in Chans, Meddles(c)
  PROVE  /\ linked /\ orders' \in 0 .. MaxOrders
         /\ UNCHANGED <<registered, autolimit, limit, timeban, members, linked, network, toServices, loose, fault>>
         /\ nojoin' \subseteq Chans /\ \A d : d # c => (d \in nojoin' <=> d \in nojoin)
         /\ stale' \subseteq Chans /\ stale \subseteq stale'
         /\ \E lines \in Seq(Line) :
              /\ Send(lines)
              /\ \A i \in 1 .. Len(lines) : lines[i].chan = c /\ lines[i].cmd \in {"+l", "SVSMODE"}
              /\ c \in stale' \/ (UNCHANGED nojoin /\ \A i \in 1 .. Len(lines) : lines[i].cmd = "SVSMODE")
<1>1. Commanded(c)
  BY DEF Meddles, chan_clearmodes, chan_clearchan, chan_unbanall, chan_set_nojoin, chan_set_mlock
<1>2. /\ linked /\ orders' \in 0 .. MaxOrders
      /\ UNCHANGED <<registered, autolimit, limit, timeban, members, linked, network, toServices, loose, fault>>
  BY <1>1, TimersBounds DEF Commanded, Sound, TypeInv, RestType
<1>3. nojoin \subseteq Chans /\ stale \subseteq Chans /\ toNet \in Seq(Line)
  BY DEF TypeInv, TableType, RestType, QueueType
<1>4. Unban(c) \in Line /\ Unban(c).chan = c /\ Unban(c).cmd = "SVSMODE"
  BY Lines DEF Unban
<1>5. \A n \in Nat : Limit(c, n) \in Line /\ Limit(c, n).chan = c /\ Limit(c, n).cmd = "+l"
  BY Lines DEF Limit
<1>6. ASSUME NEW n \in Nat, Send(<<Limit(c, n)>>), stale' = stale \cup {c}, UNCHANGED nojoin
      PROVE  /\ nojoin' \subseteq Chans /\ \A d : d # c => (d \in nojoin' <=> d \in nojoin)
             /\ stale' \subseteq Chans /\ stale \subseteq stale' /\ c \in stale'
             /\ \E lines \in Seq(Line) :
                  /\ Send(lines)
                  /\ \A i \in 1 .. Len(lines) : lines[i].chan = c /\ lines[i].cmd \in {"+l", "SVSMODE"}
  <2>1. PICK lines : lines = <<Limit(c, n)>>
    OBVIOUS
  <2>2. lines \in Seq(Line) /\ \A i \in 1 .. Len(lines) : lines[i].chan = c /\ lines[i].cmd = "+l"
    BY <1>5, <2>1
  <2> QED BY <1>3, <1>6, <2>1, <2>2
<1>7. CASE chan_clearmodes(c)
  BY <1>2, <1>6, <1>7 DEF chan_clearmodes
<1>8. ASSUME NEW n \in ModeLimits, chan_set_mlock(c, n)
      PROVE  /\ nojoin' \subseteq Chans /\ \A d : d # c => (d \in nojoin' <=> d \in nojoin)
             /\ stale' \subseteq Chans /\ stale \subseteq stale' /\ c \in stale'
             /\ \E lines \in Seq(Line) :
                  /\ Send(lines)
                  /\ \A i \in 1 .. Len(lines) : lines[i].chan = c /\ lines[i].cmd \in {"+l", "SVSMODE"}
  BY <1>6, <1>8, TimersLimits DEF chan_set_mlock
<1>9. CASE chan_clearchan(c)
  <2>1. PICK lines : lines = <<Limit(c, 0), Unban(c)>>
    OBVIOUS
  <2>2. lines \in Seq(Line) /\ \A i \in 1 .. Len(lines) : lines[i].chan = c /\ lines[i].cmd \in {"+l", "SVSMODE"}
    BY <1>4, <1>5, <2>1
  <2>3. Send(lines) /\ stale' = stale \cup {c} /\ UNCHANGED nojoin
    BY <1>9, <2>1 DEF chan_clearchan
  <2> QED BY <1>2, <1>3, <2>2, <2>3
<1>10. CASE chan_unbanall(c)
  <2>1. PICK lines : lines = <<Unban(c)>>
    OBVIOUS
  <2>2. lines \in Seq(Line) /\ \A i \in 1 .. Len(lines) : lines[i].chan = c /\ lines[i].cmd = "SVSMODE"
    BY <1>4, <2>1
  <2>3. Send(lines) /\ UNCHANGED <<nojoin, stale>>
    BY <1>10, <2>1 DEF chan_unbanall
  <2> QED BY <1>2, <1>3, <2>2, <2>3
<1>11. ASSUME NEW on \in BOOLEAN, chan_set_nojoin(c, on)
       PROVE  /\ nojoin' \subseteq Chans /\ \A d : d # c => (d \in nojoin' <=> d \in nojoin)
              /\ stale' = stale \cup {c} /\ Send(<<>>)
  BY <1>2, <1>3, <1>11 DEF chan_set_nojoin, Send
<1>12. PICK none : none = <<>>
  OBVIOUS
<1>13. none \in Seq(Line) /\ \A i \in 1 .. Len(none) : FALSE
  BY <1>12
<1>14. CASE \E on \in BOOLEAN : chan_set_nojoin(c, on)
  <2>1. /\ nojoin' \subseteq Chans /\ \A d : d # c => (d \in nojoin' <=> d \in nojoin)
        /\ stale' = stale \cup {c} /\ Send(none)
    BY <1>11, <1>12, <1>14
  <2> QED BY <1>2, <1>3, <1>13, <2>1
<1> QED BY <1>2, <1>7, <1>8, <1>9, <1>10, <1>14 DEF Meddles

LEMMA MeddleTypes ==
  ASSUME TypeInv, NEW c \in Chans, Meddles(c) PROVE TypeInv'
<1>1. PICK lines \in Seq(Line) : Send(lines)
  BY Meddled
<1>2. toNet' \in Seq(Line) /\ linked
  BY <1>1, Meddled, Sends DEF TypeInv
<1> QED BY <1>2, Meddled DEF TypeInv, TableType, NetType, QueueType, RestType, network

\* The network's side.
LEMMA NetTypes ==
  ASSUME TypeInv,
         \/ Obey \/ \E c \in Chans, u \in Users : Join(c, u) \/ Part(c, u)
         \/ \E c \in Chans, n \in ModeLimits : SetLimit(c, n)
  PROVE  TypeInv'
<1>1. ASSUME NEW c \in Chans, NEW u, Without(c, u), NetType PROVE NetType'
  BY <1>1 DEF Without, NetType
<1>2. ASSUME NEW cmd \in {"JOIN", "PART"}, NEW c \in Chans, NEW u \in Users, Tell(cmd, c, u),
             UNCHANGED <<linked, toNet>>
      PROVE  QueueType'
  <2>1. <<cmd, c, u>> \in Told
    BY DEF Told
  <2> QED BY <1>2, <2>1 DEF Tell, TypeInv, QueueType
<1>3. ASSUME NEW c \in Chans, NEW u \in Users, Join(c, u) PROVE TypeInv'
  <2>1. QueueType'
    BY <1>2, <1>3 DEF Join, services
  <2>2. NetType'
    BY <1>3 DEF Join, TypeInv, NetType
  <2> QED BY <1>3, <2>1, <2>2 DEF Join, Sound, services, TypeInv, TableType, RestType
<1>4. ASSUME NEW c \in Chans, NEW u \in Users, Part(c, u) PROVE TypeInv'
  <2>1. QueueType'
    BY <1>2, <1>4 DEF Part, services
  <2>2. NetType'
    BY <1>1, <1>4 DEF Part, TypeInv
  <2> QED BY <1>4, <2>1, <2>2 DEF Part, Sound, services, TypeInv, TableType, RestType
<1>5. CASE Obey
  <2>1. PICK o : o = Head(toNet)
    OBVIOUS
  <2>2. toNet # <<>> /\ toNet' = Tail(toNet) /\ UNCHANGED <<services, toServices, stale, orders, fault>>
    BY <1>5 DEF Obey, Sound
  <2>3. o \in Line /\ toNet' \in Seq(Line) /\ linked
    BY <2>1, <2>2 DEF TypeInv, QueueType
  <2>4. loose' \subseteq Chans \X Masks
    BY <1>5 DEF Obey, TypeInv, RestType
  <2>5. NetType'
    <3>1. IF o.cmd = "KICK" THEN Without(o.chan, o.user) ELSE Mode(o)
      BY <1>5, <2>1 DEF Obey
    <3>2. CASE o.cmd = "KICK"
      BY <1>1, <2>3, <3>1, <3>2, Lines DEF TypeInv
    <3>3. CASE o.cmd # "KICK"
      <4>1. o.chan \in Chans /\ (o.cmd = "+l" => o.to \in Nat) /\ (o.cmd = "+b" => o.mask \in Masks)
        BY <2>3, Lines
      <4>2. Mode(o)
        BY <3>1, <3>3
      <4>3. netlimit' \in [Chans -> Nat]
        BY <4>1, <4>2 DEF Mode, TypeInv, NetType
      <4>4. bans' \in [Chans -> SUBSET Masks]
        BY <4>1, <4>2 DEF Mode, TypeInv, NetType
      <4>5. users' = users
        BY <4>2 DEF Mode
      <4> QED BY <4>3, <4>4, <4>5 DEF TypeInv, NetType
    <3> QED BY <3>2, <3>3
  <2> QED BY <2>2, <2>3, <2>4, <2>5 DEF services, TypeInv, TableType, QueueType, RestType
<1>6. ASSUME NEW c \in Chans, NEW n \in ModeLimits, SetLimit(c, n) PROVE TypeInv'
  <2>1. NetType' /\ RestType'
    BY <1>6, TimersLimits, TimersBounds DEF SetLimit, Sound, TypeInv, NetType, RestType
  <2> QED BY <1>6, <2>1 DEF SetLimit, services, TypeInv, TableType, QueueType
<1> QED BY <1>3, <1>4, <1>5, <1>6

LEMMA InitTypes == Init => TypeInv
<1> SUFFICES ASSUME Init PROVE TypeInv
  OBVIOUS
<1>1. TableType
  BY TimersLimits DEF Init, TableType, LimitStates, BanStates
<1>2. NetType
  BY DEF Init, NetType
<1>3. QueueType
  BY DEF Init, QueueType
<1>4. RestType
  <2>1. MaxOrders \in Nat
    BY TimersBounds
  <2>2. 0 \in 0 .. MaxOrders
    BY <2>1
  <2> QED BY <2>2 DEF Init, RestType
<1> QED BY <1>1, <1>2, <1>3, <1>4 DEF TypeInv

LEMMA NextTypes ==
  ASSUME TypeInv, [Next]_vars PROVE TypeInv'
<1>1. CASE UNCHANGED vars
  BY <1>1 DEF vars, services, network, TypeInv, TableType, NetType, QueueType, RestType
<1>2. CASE m_join \/ m_part
  BY <1>2, JoinTypes, PartTypes
<1>3. CASE Command
  <2>1. PICK c \in Chans :
          \/ chan_register(c) \/ chandrop(c) \/ chan_clearbans(c)
          \/ Meddles(c) \/ \E u \in Users : chan_kick(c, u)
          \/ \E a \in AutoLimits : chan_set_autolimit(c, a)
          \/ \E m \in Masks : bot_unban(c, m)
               \/ \E until \in {"running", "forever"} :
                    bot_tb_refused(c, m, until) \/ \E Q \in SUBSET members[c] : bot_tb(c, m, until, Q)
    BY <1>3 DEF Command, Meddles
  <2>2. CASE chan_clearbans(c)
    BY <2>2 DEF chan_clearbans, Sound, TypeInv, TableType, NetType, QueueType, RestType, network, BanStates
  <2> QED BY <2>1, <2>2, LinkTypes, LimitTypes, BanTypes, MeddleTypes, PartTypes
<1>4. CASE Clock
  BY <1>4, LimitTypes, BanTypes DEF Clock
<1>5. CASE CheckLimits
  BY <1>5, LimitTypes
<1>6. CASE CheckTimebans
  BY <1>6, LiftTypes
<1>7. CASE cleanup_reconnect \/ Burst
  BY <1>7, LinkTypes
<1>8. CASE \/ Obey \/ \E c \in Chans, u \in Users : Join(c, u) \/ Part(c, u)
           \/ \E c \in Chans, n \in ModeLimits : SetLimit(c, n)
  BY <1>8, NetTypes
<1> QED BY <1>1, <1>2, <1>3, <1>4, <1>5, <1>6, <1>7, <1>8 DEF Next

LEMMA TypesKept == Spec => []TypeInv
  BY InitTypes, NextTypes, PTL DEF Spec

\* Every variable keeps its type, for any finite sets of channels, masks and users.
THEOREM TypeCorrect == Spec => []TypeOK
<1>1. TypeInv => TypeOK
  <2>1. \A S, q : q \in Seq(S) => Range(q) \subseteq S
    BY DEF Range
  <2> QED BY <2>1 DEF TypeInv, TableType, NetType, QueueType, RestType, TypeOK, Told
<1> QED BY <1>1, TypesKept, PTL

-----------------------------------------------------------------------------
(* Every ban is watched *)

\* What the lines under way will make of a ban.
BanSent(q, c, m) ==
  \E i \in 1 .. Len(q) : q[i] = Ban("+b", c, m) /\ \A j \in (i + 1) .. Len(q) : q[j] # Ban("-b", c, m)

UnbanSent(q, c, m) == \E i \in 1 .. Len(q) : q[i] = Ban("-b", c, m)

\* The ban stands once the uplink has read its lines.
Coming(q, b, c, m) == BanSent(q, c, m) \/ (m \in b[c] /\ ~UnbanSent(q, c, m))

Watched(c, m) == timeban[c][m] # "none" \/ <<c, m>> \in loose

\* BansAreWatched speaks of a moment with nothing under way; a ban that is still to
\* come is watched just as well.
WatchInv == \A c \in Chans, m \in Masks : Coming(toNet, bans, c, m) => Watched(c, m)

\* Commands differ.
LEMMA Commands ==
  ASSUME NEW c, NEW m, NEW d, NEW n
  PROVE  /\ Ban("+b", c, m) # Ban("-b", d, n)
         /\ Ban("+b", c, m) = Ban("+b", d, n) => c = d /\ m = n
         /\ Ban("-b", c, m) = Ban("-b", d, n) => c = d /\ m = n
         /\ Ban("+b", c, m).cmd = "+b" /\ Ban("-b", c, m).cmd = "-b"
  BY DEF Ban

\* Lines that follow decide, and else those before them, unless they are undone.
LEMMA Followed ==
  ASSUME NEW q \in Seq(Line), NEW r \in Seq(Line), NEW b, NEW c, NEW m, Coming(q \o r, b, c, m)
  PROVE  BanSent(r, c, m) \/ (Coming(q, b, c, m) /\ ~UnbanSent(r, c, m))
<1>1. /\ Len(q) \in Nat /\ Len(r) \in Nat /\ Len(q \o r) = Len(q) + Len(r)
      /\ \A i \in 1 .. Len(q) : (q \o r)[i] = q[i]
      /\ \A i \in 1 .. Len(r) : (q \o r)[Len(q) + i] = r[i]
  OBVIOUS
<1>2. PICK k : k = Len(q)
  OBVIOUS
<1>3. PICK s : s = q \o r
  OBVIOUS
<1>4. UnbanSent(q, c, m) \/ UnbanSent(r, c, m) => UnbanSent(s, c, m)
  <2>1. ASSUME NEW i \in 1 .. Len(q), q[i] = Ban("-b", c, m) PROVE UnbanSent(s, c, m)
    <3>1. i \in 1 .. Len(s) /\ s[i] = Ban("-b", c, m)
      BY <1>1, <1>3, <2>1
    <3> QED BY <3>1 DEF UnbanSent
  <2>2. ASSUME NEW i \in 1 .. Len(r), r[i] = Ban("-b", c, m) PROVE UnbanSent(s, c, m)
    <3>1. Len(q) + i \in 1 .. Len(s) /\ s[Len(q) + i] = Ban("-b", c, m)
      BY <1>1, <1>3, <2>2
    <3> QED BY <3>1 DEF UnbanSent
  <2> QED BY <2>1, <2>2 DEF UnbanSent
<1>5. CASE ~BanSent(s, c, m)
  <2>1. m \in b[c] /\ ~UnbanSent(s, c, m)
    BY <1>3, <1>5 DEF Coming
  <2> QED BY <1>4, <2>1 DEF Coming
<1>6. CASE BanSent(s, c, m)
  <2>1. PICK i \in 1 .. Len(s) :
          s[i] = Ban("+b", c, m) /\ \A j \in (i + 1) .. Len(s) : s[j] # Ban("-b", c, m)
    BY <1>6 DEF BanSent
  <2>2. CASE i <= Len(q)
    <3>1. i \in 1 .. Len(q) /\ q[i] = Ban("+b", c, m)
      BY <1>1, <1>3, <2>1, <2>2
    <3>2. \A j \in (i + 1) .. Len(q) : j \in (i + 1) .. Len(s) /\ s[j] = q[j]
      BY <1>1, <1>3, <3>1
    <3>3. \A j \in 1 .. Len(r) : Len(q) + j \in (i + 1) .. Len(s) /\ s[Len(q) + j] = r[j]
      BY <1>1, <1>3, <3>1
    <3>4. BanSent(q, c, m)
      BY <2>1, <3>1, <3>2 DEF BanSent
    <3>5. ~UnbanSent(r, c, m)
      BY <2>1, <3>3 DEF UnbanSent
    <3> QED BY <3>4, <3>5 DEF Coming
  <2>3. CASE ~(i <= Len(q))
    <3>1. PICK l \in 1 .. Len(r) : i = Len(q) + l
      <4>1. i - Len(q) \in 1 .. Len(r) /\ i = Len(q) + (i - Len(q))
        BY <1>1, <1>3, <2>3
      <4> QED BY <4>1
    <3>2. r[l] = Ban("+b", c, m)
      BY <1>1, <1>3, <2>1, <3>1
    <3>3. \A j \in (l + 1) .. Len(r) : Len(q) + j \in (i + 1) .. Len(s) /\ s[Len(q) + j] = r[j]
      BY <1>1, <1>3, <3>1
    <3>4. BanSent(r, c, m)
      BY <2>1, <3>2, <3>3 DEF BanSent
    <3> QED BY <3>4
  <2> QED BY <2>2, <2>3
<1> QED BY <1>5, <1>6

\* Reading a line brings about what it announced.
LEMMA Read ==
  ASSUME NEW q \in Seq(Line), q # <<>>, NEW b, NEW a, NEW c, NEW m,
         m \in a[c] => (m \in b[c] \/ Head(q) = Ban("+b", c, m)) /\ Head(q) # Ban("-b", c, m),
         Coming(Tail(q), a, c, m)
  PROVE  Coming(q, b, c, m)
<1>1. /\ Len(q) \in Nat /\ Len(q) >= 1 /\ Len(Tail(q)) = Len(q) - 1 /\ Head(q) = q[1]
      /\ \A i \in 1 .. Len(q) - 1 : Tail(q)[i] = q[i + 1]
  OBVIOUS
<1>2. PICK t : t = Tail(q)
  OBVIOUS
<1>3. \A j \in 2 .. Len(q) : j - 1 \in 1 .. Len(t) /\ q[j] = t[j - 1]
  BY <1>1, <1>2
<1>4. CASE BanSent(t, c, m)
  <2>1. PICK i \in 1 .. Len(t) :
          t[i] = Ban("+b", c, m) /\ \A j \in (i + 1) .. Len(t) : t[j] # Ban("-b", c, m)
    BY <1>4 DEF BanSent
  <2>2. i + 1 \in 1 .. Len(q) /\ q[i + 1] = Ban("+b", c, m)
    BY <1>1, <1>2, <2>1
  <2>3. \A j \in (i + 1 + 1) .. Len(q) : j - 1 \in (i + 1) .. Len(t) /\ q[j] = t[j - 1]
    BY <1>1, <1>2
  <2>4. BanSent(q, c, m)
    BY <2>1, <2>2, <2>3 DEF BanSent
  <2> QED BY <2>4 DEF Coming
<1>5. CASE m \in a[c] /\ ~UnbanSent(t, c, m)
  <2>1. \A j \in 2 .. Len(q) : q[j] # Ban("-b", c, m)
    BY <1>3, <1>5 DEF UnbanSent
  <2>2. CASE m \in b[c]
    <3>1. \A j \in 1 .. Len(q) : q[j] # Ban("-b", c, m)
      BY <1>1, <1>5, <2>1
    <3> QED BY <2>2, <3>1 DEF Coming, UnbanSent
  <2>3. CASE Head(q) = Ban("+b", c, m)
    <3>1. 1 \in 1 .. Len(q) /\ q[1] = Ban("+b", c, m) /\ \A j \in (1 + 1) .. Len(q) : q[j] # Ban("-b", c, m)
      BY <1>1, <2>1, <2>3
    <3> QED BY <3>1 DEF Coming, BanSent
  <2> QED BY <1>5, <2>2, <2>3
<1> QED BY <1>2, <1>4, <1>5 DEF Coming

\* A ban that comes after some lines were sent is one of theirs, or came before.
LEMMA Sending ==
  ASSUME TypeInv, NEW lines \in Seq(Line), Send(lines), NEW c, NEW m, Coming(toNet', bans, c, m)
  PROVE  (linked /\ BanSent(lines, c, m))
         \/ (Coming(toNet, bans, c, m) /\ (linked => ~UnbanSent(lines, c, m)))
<1>1. toNet \in Seq(Line)
  BY DEF TypeInv, QueueType
<1>2. CASE linked
  BY <1>1, <1>2, Followed DEF Send
<1>3. CASE ~linked
  BY <1>3 DEF Send
<1> QED BY <1>2, <1>3

\* No ban comes that did not come before, and those watched still are.
LEMMA StillWatched ==
  ASSUME WatchInv,
         \A c \in Chans, m \in Masks : Coming(toNet', bans', c, m) => Coming(toNet, bans, c, m),
         \A c \in Chans, m \in Masks : Watched(c, m) => Watched(c, m)'
  PROVE  WatchInv'
  BY DEF WatchInv

\* The steps that leave the network's bans and the lines to it alone.
LEMMA QuietWatch ==
  ASSUME TypeInv, WatchInv, UNCHANGED <<bans, toNet>>,
         \A c \in Chans, m \in Masks : Watched(c, m) => Watched(c, m)'
  PROVE  WatchInv'
  BY StillWatched

\* Lines without a ban bring none.
LEMMA SendWatch ==
  ASSUME TypeInv, WatchInv, UNCHANGED <<bans, timeban, loose>>,
         NEW lines \in Seq(Line), Send(lines), \A i \in 1 .. Len(lines) : lines[i].cmd # "+b"
  PROVE  WatchInv'
<1>1. \A c \in Chans, m \in Masks : ~BanSent(lines, c, m)
  BY Commands DEF BanSent
<1>2. \A c \in Chans, m \in Masks : Coming(toNet', bans, c, m) => Coming(toNet, bans, c, m)
  BY <1>1, Sending
<1> QED BY <1>2, StillWatched DEF Watched

LEMMA MeddleWatch ==
  ASSUME TypeInv, WatchInv, NEW c \in Chans, Meddles(c) PROVE WatchInv'
<1>1. UNCHANGED <<bans, timeban, loose>>
  BY Meddled DEF network
<1>2. PICK lines \in Seq(Line) :
        Send(lines) /\ \A i \in 1 .. Len(lines) : lines[i].chan = c /\ lines[i].cmd \in {"+l", "SVSMODE"}
  BY Meddled
<1> QED BY <1>1, <1>2, SendWatch

LEMMA JoinWatch ==
  ASSUME TypeInv, WatchInv, m_join PROVE WatchInv'
<1>1. PICK c \in Chans, u \in Users :
        /\ UNCHANGED <<timeban, network>>
        /\ \/ UNCHANGED <<toNet, loose>>
           \/ \E m \in Masks, lines \in Seq(Line) :
                /\ Send(lines) /\ \A i \in 1 .. Len(lines) : lines[i] \in {Ban("+b", c, m), Kick(c, u)}
                /\ loose' = IF timeban[c][m] = "none" THEN loose \cup {<<c, m>>} ELSE loose
  BY Joins
<1>2. bans' = bans
  BY <1>1 DEF network
<1>3. CASE UNCHANGED <<toNet, loose>>
  BY <1>1, <1>2, <1>3, QuietWatch DEF Watched
<1>4. ASSUME NEW m \in Masks, NEW lines \in Seq(Line), Send(lines),
             \A i \in 1 .. Len(lines) : lines[i] \in {Ban("+b", c, m), Kick(c, u)},
             loose' = IF timeban[c][m] = "none" THEN loose \cup {<<c, m>>} ELSE loose
      PROVE  WatchInv'
  <2> SUFFICES ASSUME NEW d \in Chans, NEW n \in Masks, Coming(toNet', bans, d, n)
               PROVE  Watched(d, n)'
    BY <1>2 DEF WatchInv
  <2>1. BanSent(lines, d, n) => d = c /\ n = m
    <3>1. Kick(c, u) # Ban("+b", d, n)
      BY DEF Kick, Ban
    <3> QED BY <1>4, <3>1, Commands DEF BanSent
  <2>2. CASE d = c /\ n = m
    BY <1>1, <1>4, <2>2 DEF Watched
  <2>3. CASE ~BanSent(lines, d, n)
    <3>1. Coming(toNet, bans, d, n)
      BY <1>4, <2>3, Sending
    <3>2. Watched(d, n)
      BY <3>1 DEF WatchInv
    <3> QED BY <1>1, <1>4, <3>2 DEF Watched
  <2> QED BY <2>1, <2>2, <2>3
<1> QED BY <1>1, <1>3, <1>4

LEMMA KickWatch ==
  ASSUME TypeInv, WatchInv, m_part \/ \E c \in Chans, u \in Users : chan_kick(c, u) PROVE WatchInv'
<1>1. CASE m_part
  BY <1>1, QuietWatch DEF m_part, network, Watched
<1>2. ASSUME NEW c \in Chans, NEW u \in Users, chan_kick(c, u) PROVE WatchInv'
  <2>1. Send(<<Kick(c, u)>>) /\ UNCHANGED <<bans, timeban, loose>>
    BY <1>2 DEF chan_kick, network
  <2>2. PICK lines : lines = <<Kick(c, u)>>
    OBVIOUS
  <2>3. lines \in Seq(Line) /\ \A i \in 1 .. Len(lines) : lines[i] = Kick(c, u)
    BY <2>2, Lines
  <2>4. Kick(c, u).cmd # "+b"
    BY DEF Kick
  <2> QED BY <2>1, <2>2, <2>3, <2>4, SendWatch
<1> QED BY <1>1, <1>2

LEMMA LimitWatch ==
  ASSUME TypeInv, WatchInv, CheckLimits PROVE WatchInv'
<1>1. PICK lines \in Seq(Line) : Send(lines) /\ \A i \in 1 .. Len(lines) : lines[i].cmd = "+l"
  BY LimitsSent
<1>2. UNCHANGED <<bans, timeban, loose>>
  BY DEF CheckLimits, network
<1> QED BY <1>1, <1>2, SendWatch

\* !tb watches the ban it sends, !unban sends the end of what it forgets.
LEMMA OrderWatch ==
  ASSUME TypeInv, WatchInv, NEW c \in Chans, NEW m \in Masks,
         \/ bot_unban(c, m) \/ BanOver(c, m) \/ chan_clearbans(c)
         \/ \E until \in {"running", "forever"} :
              bot_tb_refused(c, m, until) \/ \E Q \in SUBSET members[c] : bot_tb(c, m, until, Q)
  PROVE  WatchInv'
<1> USE DEF network
<1>1. timeban \in [Chans -> [Masks -> BanStates]]
  BY DEF TypeInv, TableType
<1>2. CASE BanOver(c, m)
  <2>1. timeban' = [timeban EXCEPT ![c][m] = "over"] /\ UNCHANGED <<bans, toNet, loose>>
    BY <1>2 DEF BanOver
  <2> QED BY <1>1, <2>1, QuietWatch DEF Watched
<1>3. CASE chan_clearbans(c)
  <2>1. /\ timeban' = [timeban EXCEPT ![c] = [n \in Masks |-> "none"]]
        /\ loose' = loose \cup {<<c, n>> : n \in {k \in Masks : timeban[c][k] # "none"}}
        /\ UNCHANGED <<bans, toNet>>
    BY <1>3 DEF chan_clearbans
  <2>2. ASSUME NEW d \in Chans, NEW n \in Masks, Watched(d, n) PROVE Watched(d, n)'
    <3>1. CASE d # c
      BY <1>1, <2>1, <2>2, <3>1 DEF Watched
    <3>2. CASE d = c
      BY <1>1, <2>1, <2>2, <3>2 DEF Watched
    <3> QED BY <3>1, <3>2
  <2> QED BY <2>1, <2>2, QuietWatch
<1>4. CASE bot_unban(c, m)
  <2>1. /\ linked /\ Send(<<Ban("-b", c, m)>>) /\ timeban' = [timeban EXCEPT ![c][m] = "none"]
        /\ UNCHANGED <<bans, loose>>
    BY <1>4 DEF bot_unban, UnbanLines
  <2>2. PICK lines \in Seq(Line) : lines = <<Ban("-b", c, m)>>
    <3>1. Ban("-b", c, m) \in Line
      BY Lines
    <3>2. <<Ban("-b", c, m)>> \in Seq(Line)
      BY <3>1
    <3> QED BY <3>2
  <2>3. Len(lines) = 1 /\ lines[1] = Ban("-b", c, m)
    BY <2>2
  <2>4. UnbanSent(lines, c, m) /\ \A d \in Chans, n \in Masks : ~BanSent(lines, d, n)
    BY <2>3, Commands DEF UnbanSent, BanSent
  <2> SUFFICES ASSUME NEW d \in Chans, NEW n \in Masks, Coming(toNet', bans, d, n)
               PROVE  Watched(d, n)'
    BY <2>1 DEF WatchInv
  <2>5. Coming(toNet, bans, d, n) /\ ~UnbanSent(lines, d, n)
    BY <2>1, <2>2, <2>4, Sending
  <2>6. Watched(d, n) /\ ~(d = c /\ n = m)
    BY <2>4, <2>5 DEF WatchInv
  <2> QED BY <1>1, <2>1, <2>6 DEF Watched
<1>5. ASSUME NEW until \in {"running", "forever"}, bot_tb_refused(c, m, until) PROVE WatchInv'
  <2>1. /\ timeban' = [timeban EXCEPT ![c][m] = until] /\ loose' = loose \ {<<c, m>>}
        /\ UNCHANGED <<bans, toNet>>
    BY <1>5 DEF bot_tb_refused
  <2> QED BY <1>1, <2>1, QuietWatch DEF Watched
<1>6. ASSUME NEW until \in {"running", "forever"}, NEW Q \in SUBSET members[c], bot_tb(c, m, until, Q)
      PROVE  WatchInv'
  <2>1. /\ timeban' = [timeban EXCEPT ![c][m] = until] /\ loose' = loose \ {<<c, m>>}
        /\ UNCHANGED bans
    BY <1>6 DEF bot_tb
  <2>2. PICK lines \in Seq(Line) :
          /\ Send(lines)
          /\ \A i \in 1 .. Len(lines) : lines[i] = Ban("+b", c, m) \/ lines[i].cmd = "KICK"
    BY <1>6, BanLines
  <2> SUFFICES ASSUME NEW d \in Chans, NEW n \in Masks, Coming(toNet', bans, d, n)
               PROVE  Watched(d, n)'
    BY <2>1 DEF WatchInv
  <2>3. CASE d = c /\ n = m
    BY <1>1, <2>1, <2>3 DEF Watched
  <2>4. CASE ~(d = c /\ n = m)
    <3>1. ~BanSent(lines, d, n)
      BY <2>2, <2>4, Commands DEF BanSent
    <3>2. Watched(d, n)
      BY <2>2, <3>1, Sending DEF WatchInv
    <3> QED BY <1>1, <2>1, <2>4, <3>2 DEF Watched
  <2> QED BY <2>3, <2>4
<1> QED BY <1>2, <1>3, <1>4, <1>5, <1>6

\* What CheckTimebans forgets it lifts, or, without a link, loses.
LEMMA LiftWatch ==
  ASSUME TypeInv, WatchInv, CheckTimebans PROVE WatchInv'
<1>1. PICK over \in SUBSET (Chans \X Masks), lines \in Seq(Line) :
        /\ Send(lines)
        /\ \A i \in 1 .. Len(lines) : \E b \in over : lines[i] = Ban("-b", b[1], b[2])
        /\ \A b \in over : \E i \in 1 .. Len(lines) : lines[i] = Ban("-b", b[1], b[2])
        /\ timeban' = [c \in Chans |-> [m \in Masks |->
                         IF <<c, m>> \in over THEN "none" ELSE timeban[c][m]]]
        /\ loose' = IF linked THEN loose ELSE loose \cup {b \in over : b[2] \in bans[b[1]]}
        /\ UNCHANGED <<linked, network>>
  BY Lifted DEF network
<1> SUFFICES ASSUME NEW c \in Chans, NEW m \in Masks, Coming(toNet', bans, c, m)
             PROVE  Watched(c, m)'
  BY <1>1 DEF WatchInv, network
<1>2. \A d \in Chans, n \in Masks : ~BanSent(lines, d, n)
  BY <1>1, Commands DEF BanSent
<1>3. Coming(toNet, bans, c, m) /\ (linked => ~UnbanSent(lines, c, m))
  BY <1>1, <1>2, Sending
<1>4. Watched(c, m)
  BY <1>3 DEF WatchInv
<1>5. CASE <<c, m>> \in over /\ linked
  <2>1. UnbanSent(lines, c, m)
    BY <1>1, <1>5 DEF UnbanSent
  <2> QED BY <1>3, <1>5, <2>1
<1>6. CASE <<c, m>> \in over /\ ~linked
  <2>1. toNet = <<>>
    BY <1>6 DEF TypeInv, QueueType
  <2>2. m \in bans[c]
    BY <1>3, <2>1 DEF Coming, BanSent
  <2> QED BY <1>1, <1>6, <2>2 DEF Watched
<1>7. CASE <<c, m>> \notin over
  <2>1. timeban'[c][m] = timeban[c][m]
    BY <1>1, <1>7
  <2> QED BY <1>1, <1>4, <2>1 DEF Watched
<1> QED BY <1>5, <1>6, <1>7

\* With the link go the lines: bans to come do not come, and those that were to end stay.
LEMMA LossWatch ==
  ASSUME TypeInv, WatchInv, cleanup_reconnect PROVE WatchInv'
<1>1. /\ toNet' = <<>> /\ UNCHANGED <<bans, timeban>>
      /\ loose' = loose \cup {b \in Chans \X Masks :
                               b[2] \in bans[b[1]] /\ Ban("-b", b[1], b[2]) \in Range(toNet)}
  BY DEF cleanup_reconnect, network
<1> SUFFICES ASSUME NEW c \in Chans, NEW m \in Masks, Coming(toNet', bans, c, m)
             PROVE  Watched(c, m)'
  BY <1>1 DEF WatchInv
<1>2. m \in bans[c]
  BY <1>1 DEF Coming, BanSent
<1>3. CASE UnbanSent(toNet, c, m)
  <2>1. Ban("-b", c, m) \in Range(toNet)
    <3>1. toNet \in Seq(Line)
      BY DEF TypeInv, QueueType
    <3> QED BY <1>3, <3>1 DEF UnbanSent, Range
  <2>2. <<c, m>> \in loose'
    BY <1>1, <1>2, <2>1
  <2> QED BY <2>2 DEF Watched
<1>4. CASE ~UnbanSent(toNet, c, m)
  <2>1. Watched(c, m)
    BY <1>2, <1>4 DEF WatchInv, Coming
  <2> QED BY <1>1, <2>1 DEF Watched
<1> QED BY <1>3, <1>4

\* The uplink reads a line.
LEMMA ObeyWatch ==
  ASSUME TypeInv, WatchInv, Obey PROVE WatchInv'
<1>1. PICK o : o = Head(toNet)
  OBVIOUS
<1>2. PICK again : again = {k \in DOMAIN toNet : toNet[k].cmd = "+b" /\ toNet[k].chan = o.chan
                                                /\ toNet[k].mask = o.mask}
  OBVIOUS
<1>3. /\ toNet # <<>> /\ toNet' = Tail(toNet) /\ UNCHANGED timeban
      /\ IF o.cmd = "KICK" THEN Without(o.chan, o.user) ELSE Mode(o)
      /\ loose' = IF o.cmd = "-b" /\ again = {} THEN loose \ {<<o.chan, o.mask>>} ELSE loose
  BY <1>1, <1>2 DEF Obey, services
<1>4. toNet \in Seq(Line) /\ o \in Line /\ o.chan \in Chans
  <2>1. toNet \in Seq(Line) /\ o \in Line
    BY <1>1, <1>3 DEF TypeInv, QueueType
  <2> QED BY <2>1, Lines
<1> SUFFICES ASSUME NEW c \in Chans, NEW m \in Masks, Coming(toNet', bans', c, m)
             PROVE  Watched(c, m)'
  BY DEF WatchInv
<1>5. m \in bans'[c] => (m \in bans[c] \/ o = Ban("+b", c, m)) /\ o # Ban("-b", c, m)
  <2> SUFFICES ASSUME m \in bans'[c]
               PROVE  (m \in bans[c] \/ o = Ban("+b", c, m)) /\ o # Ban("-b", c, m)
    OBVIOUS
  <2>1. bans \in [Chans -> SUBSET Masks]
    BY DEF TypeInv, NetType
  <2>2. CASE o.cmd = "KICK"
    BY <1>3, <1>4, <2>1, <2>2, Commands DEF Without
  <2>3. CASE o.cmd = "+b"
    <3>1. o = Ban("+b", o.chan, o.mask)
      BY <1>4, <2>3, Lines
    <3>2. bans' = bans \/ bans' = [bans EXCEPT ![o.chan] = @ \cup {o.mask}]
      BY <1>3, <2>3 DEF Mode
    <3>3. m \in bans[c] \/ (c = o.chan /\ m = o.mask)
      BY <1>4, <2>1, <3>2
    <3> QED BY <2>3, <3>1, <3>3, Commands
  <2>4. CASE o.cmd = "-b"
    <3>1. o = Ban("-b", o.chan, o.mask)
      BY <1>4, <2>4, Lines
    <3>2. bans' = [bans EXCEPT ![o.chan] = @ \ {o.mask}]
      BY <1>3, <2>4 DEF Mode
    <3>3. m \in bans[c] /\ ~(c = o.chan /\ m = o.mask)
      BY <1>4, <2>1, <3>2
    <3> QED BY <3>1, <3>3, Commands
  <2>5. CASE o.cmd \notin {"KICK", "+b", "-b"}
    <3>1. bans' = bans \/ bans' = [bans EXCEPT ![o.chan] = {}]
      BY <1>3, <2>5 DEF Mode
    <3>2. m \in bans[c]
      BY <1>4, <2>1, <3>1
    <3> QED BY <2>5, <3>2, Commands
  <2> QED BY <2>2, <2>3, <2>4, <2>5
<1>6. Coming(toNet, bans, c, m)
  BY <1>1, <1>3, <1>4, <1>5, Read
<1>7. Watched(c, m)
  BY <1>6 DEF WatchInv
<1>8. ~(o.cmd = "-b" /\ again = {} /\ c = o.chan /\ m = o.mask)
  <2> SUFFICES ASSUME o.cmd = "-b", again = {}, c = o.chan, m = o.mask PROVE FALSE
    OBVIOUS
  <2>1. o = Ban("-b", c, m)
    BY <1>4, Lines
  <2>2. m \notin bans'[c]
    BY <1>5, <2>1
  <2>3. PICK i \in 1 .. Len(Tail(toNet)) : Tail(toNet)[i] = Ban("+b", c, m)
    BY <1>3, <2>2 DEF Coming, BanSent
  <2>4. i + 1 \in DOMAIN toNet /\ toNet[i + 1] = Ban("+b", c, m)
    BY <1>3, <1>4, <2>3
  <2>5. i + 1 \in again
    BY <1>2, <2>4 DEF Ban
  <2> QED BY <2>5
<1> QED BY <1>3, <1>7, <1>8 DEF Watched

LEMMA PartWatch ==
  ASSUME TypeInv, WatchInv, NEW c \in Chans,
         \/ \E n \in ModeLimits : SetLimit(c, n)
         \/ \E u \in Users : Join(c, u) \/ Part(c, u)
  PROVE  WatchInv'
<1>1. ASSUME NEW u \in Users, Join(c, u) PROVE WatchInv'
  BY <1>1, QuietWatch DEF Join, services, Watched
<1>2. ASSUME NEW u \in Users, Part(c, u) PROVE WatchInv'
  <2>1. UNCHANGED <<timeban, toNet, loose>> /\ Without(c, u)
    BY <1>2 DEF Part, services
  <2>2. \A d \in Chans : bans'[d] \subseteq bans[d]
    BY <2>1 DEF Without, TypeInv, NetType
  <2>3. \A d \in Chans, m \in Masks : Coming(toNet', bans', d, m) => Coming(toNet, bans, d, m)
    BY <2>1, <2>2 DEF Coming
  <2> QED BY <2>1, <2>3, StillWatched DEF Watched
<1>3. ASSUME NEW n \in ModeLimits, SetLimit(c, n) PROVE WatchInv'
  BY <1>3, QuietWatch DEF SetLimit, services, Watched
<1> QED BY <1>1, <1>2, <1>3

LEMMA NextWatch ==
  ASSUME TypeInv, WatchInv, [Next]_vars PROVE WatchInv'
<1> USE DEF network
<1>1. CASE UNCHANGED vars
  BY <1>1, QuietWatch DEF vars, services, Watched
<1>2. CASE m_join \/ m_part
  BY <1>2, JoinWatch, KickWatch
<1>3. CASE Command
  <2>1. PICK c \in Chans :
          \/ chan_register(c) \/ chandrop(c) \/ chan_clearbans(c)
          \/ Meddles(c) \/ \E u \in Users : chan_kick(c, u)
          \/ \E a \in AutoLimits : chan_set_autolimit(c, a)
          \/ \E m \in Masks : bot_unban(c, m)
               \/ \E until \in {"running", "forever"} :
                    bot_tb_refused(c, m, until) \/ \E Q \in SUBSET members[c] : bot_tb(c, m, until, Q)
    BY <1>3 DEF Command, Meddles
  <2>2. CASE chan_register(c) \/ chandrop(c) \/ \E a \in AutoLimits : chan_set_autolimit(c, a)
    BY <2>2, QuietWatch DEF chan_register, chandrop, chan_set_autolimit, Watched
  <2>3. CASE chan_clearbans(c)
    <3>1. CASE Masks = {}
      BY <3>1 DEF WatchInv
    <3>2. CASE Masks # {}
      BY <2>3, <3>2, OrderWatch
    <3> QED BY <3>1, <3>2
  <2> QED BY <2>1, <2>2, <2>3, OrderWatch, MeddleWatch, KickWatch
<1>4. CASE Clock
  <2>1. PICK c \in Chans : LimitDue(c) \/ \E m \in Masks : BanOver(c, m)
    BY <1>4 DEF Clock
  <2>2. CASE LimitDue(c)
    BY <2>2, QuietWatch DEF LimitDue, Watched
  <2> QED BY <2>1, <2>2, OrderWatch
<1>5. CASE CheckLimits
  BY <1>5, LimitWatch
<1>6. CASE CheckTimebans
  BY <1>6, LiftWatch
<1>7. CASE cleanup_reconnect
  BY <1>7, LossWatch
<1>8. CASE Burst
  BY <1>8, QuietWatch DEF Burst, Watched
<1>9. CASE Obey
  BY <1>9, ObeyWatch
<1>10. CASE \/ \E c \in Chans, u \in Users : Join(c, u) \/ Part(c, u)
            \/ \E c \in Chans, n \in ModeLimits : SetLimit(c, n)
  BY <1>10, PartWatch
<1> QED BY <1>1, <1>2, <1>3, <1>4, <1>5, <1>6, <1>7, <1>8, <1>9, <1>10 DEF Next

\* No ban is left on the network without an entry that watches it, but for those
\* whose end the code loses: bot_tb, bot_unban, CheckTimebans and m_join, with lines
\* under way and links that break at any moment.
THEOREM BansCorrect == Spec => []BansAreWatched
<1>1. Init => WatchInv
  BY DEF Init, WatchInv, Coming, BanSent
<1>2. TypeInv /\ WatchInv /\ [Next]_vars => WatchInv'
  BY NextWatch
<1>3. TypeInv /\ WatchInv => BansAreWatched
  <2> SUFFICES ASSUME WatchInv, toNet = <<>>, NEW c \in Chans, NEW m \in bans[c], TypeInv
               PROVE  Watched(c, m)
    BY DEF BansAreWatched, Watched
  <2>1. ~UnbanSent(toNet, c, m)
    BY DEF UnbanSent
  <2>2. m \in Masks
    BY DEF TypeInv, NetType
  <2> QED BY <2>1, <2>2 DEF WatchInv, Coming
<1> QED BY <1>1, <1>2, <1>3, TypesKept, PTL DEF Spec

-----------------------------------------------------------------------------
(* Every user is known *)

KickSent(q, c, u) == \E i \in 1 .. Len(q) : q[i] = Kick(c, u)

\* What the lines the services have not read say of a user.
Joining(q, c, u) ==
  \E i \in 1 .. Len(q) : q[i] = <<"JOIN", c, u>> /\ \A j \in (i + 1) .. Len(q) : q[j] # <<"PART", c, u>>

Staying(q, c, u) == \A i \in 1 .. Len(q) : q[i] # <<"PART", c, u>>

\* A user of a channel is known, is about to be, or is about to be kicked.
Known(c, u) ==
  KickSent(toNet, c, u) \/ Joining(toServices, c, u) \/ (u \in members[c] /\ Staying(toServices, c, u))

KnownInv == linked => \A c \in Chans : \A u \in users[c] : Known(c, u)

LEMMA SendKicks ==
  ASSUME TypeInv, NEW lines \in Seq(Line), Send(lines), NEW c, NEW u
  PROVE  KickSent(toNet, c, u) \/ (linked /\ KickSent(lines, c, u)) => KickSent(toNet', c, u)
<1>1. toNet \in Seq(Line) /\ (~linked => toNet = <<>>)
  BY DEF TypeInv, QueueType
<1>2. CASE linked
  <2>1. PICK s : s = toNet \o lines
    OBVIOUS
  <2>2. /\ Len(toNet) \in Nat /\ Len(lines) \in Nat /\ Len(s) = Len(toNet) + Len(lines)
        /\ \A i \in 1 .. Len(toNet) : s[i] = toNet[i]
        /\ \A i \in 1 .. Len(lines) : s[Len(toNet) + i] = lines[i]
    BY <1>1, <2>1
  <2>3. /\ \A i \in 1 .. Len(toNet) : i \in 1 .. Len(s) /\ s[i] = toNet[i]
        /\ \A i \in 1 .. Len(lines) : Len(toNet) + i \in 1 .. Len(s) /\ s[Len(toNet) + i] = lines[i]
    BY <2>2
  <2>4. toNet' = s
    BY <1>2, <2>1 DEF Send
  <2> QED BY <2>3, <2>4 DEF KickSent
<1>3. CASE ~linked
  BY <1>3 DEF Send
<1> QED BY <1>2, <1>3

\* The steps in which no user comes and the services read nothing.
LEMMA StillKnown ==
  ASSUME KnownInv, linked' => linked, \A c \in Chans : users'[c] \subseteq users[c],
         UNCHANGED toServices,
         \A c \in Chans : \A u \in users'[c] : KickSent(toNet, c, u) => KickSent(toNet', c, u),
         \A c \in Chans : \A u \in members[c] : u \in members'[c] \/ KickSent(toNet', c, u)
  PROVE  KnownInv'
  BY DEF KnownInv, Known

\* The services read a line about a user.
LEMMA ReadTold ==
  ASSUME NEW q \in Seq(Told), q # <<>>, NEW c, NEW u
  PROVE  /\ Joining(q, c, u) =>
              Joining(Tail(q), c, u) \/ (Head(q) = <<"JOIN", c, u>> /\ Staying(Tail(q), c, u))
         /\ Staying(q, c, u) => Staying(Tail(q), c, u) /\ Head(q) # <<"PART", c, u>>
<1>1. /\ Len(q) \in Nat /\ Len(q) >= 1 /\ Len(Tail(q)) = Len(q) - 1 /\ Head(q) = q[1]
      /\ \A i \in 1 .. Len(q) - 1 : Tail(q)[i] = q[i + 1]
  OBVIOUS
<1>2. PICK t : t = Tail(q)
  OBVIOUS
<1>3. ASSUME Joining(q, c, u)
      PROVE  Joining(t, c, u) \/ (Head(q) = <<"JOIN", c, u>> /\ Staying(t, c, u))
  <2>1. PICK i \in 1 .. Len(q) :
          q[i] = <<"JOIN", c, u>> /\ \A j \in (i + 1) .. Len(q) : q[j] # <<"PART", c, u>>
    BY <1>3 DEF Joining
  <2>2. CASE i = 1
    <3>1. \A j \in 1 .. Len(t) : j + 1 \in (i + 1) .. Len(q) /\ t[j] = q[j + 1]
      BY <1>1, <1>2, <2>2
    <3> QED BY <1>1, <2>1, <2>2, <3>1 DEF Staying
  <2>3. CASE i # 1
    <3>1. i - 1 \in 1 .. Len(t) /\ t[i - 1] = q[i]
      BY <1>1, <1>2, <2>3
    <3>2. \A j \in (i - 1 + 1) .. Len(t) : j + 1 \in (i + 1) .. Len(q) /\ t[j] = q[j + 1]
      BY <1>1, <1>2, <2>3
    <3> QED BY <2>1, <3>1, <3>2 DEF Joining
  <2> QED BY <2>2, <2>3
<1>4. ASSUME Staying(q, c, u) PROVE Staying(t, c, u) /\ Head(q) # <<"PART", c, u>>
  <2>1. 1 \in 1 .. Len(q) /\ \A j \in 1 .. Len(t) : j + 1 \in 1 .. Len(q) /\ t[j] = q[j + 1]
    BY <1>1, <1>2
  <2> QED BY <1>1, <1>4, <2>1 DEF Staying
<1> QED BY <1>2, <1>3, <1>4

\* One more line is told.
LEMMA TellTold ==
  ASSUME NEW q \in Seq(Told), NEW line \in Told, NEW c, NEW u
  PROVE  /\ line = <<"JOIN", c, u>> => Joining(Append(q, line), c, u)
         /\ line # <<"PART", c, u>> /\ Joining(q, c, u) => Joining(Append(q, line), c, u)
         /\ line # <<"PART", c, u>> /\ Staying(q, c, u) => Staying(Append(q, line), c, u)
<1>1. PICK a, n : a = Append(q, line) /\ n = Len(q)
  OBVIOUS
<1>2. n \in Nat /\ Len(a) = n + 1 /\ a[n + 1] = line /\ \A i \in 1 .. n : a[i] = q[i]
  BY <1>1
<1>3. \A i \in 1 .. Len(a) : i = n + 1 \/ i \in 1 .. Len(q)
  BY <1>1, <1>2
<1>4. line = <<"JOIN", c, u>> => Joining(a, c, u)
  <2>1. n + 1 \in 1 .. Len(a) /\ \A j \in (n + 1 + 1) .. Len(a) : FALSE
    BY <1>2
  <2> QED BY <1>2, <2>1 DEF Joining
<1>5. ASSUME line # <<"PART", c, u>>, Joining(q, c, u) PROVE Joining(a, c, u)
  <2>1. PICK i \in 1 .. Len(q) :
          q[i] = <<"JOIN", c, u>> /\ \A j \in (i + 1) .. Len(q) : q[j] # <<"PART", c, u>>
    BY <1>5 DEF Joining
  <2>2. i \in 1 .. Len(a) /\ a[i] = q[i]
    BY <1>1, <1>2
  <2>3. \A j \in (i + 1) .. Len(a) : j = n + 1 \/ (j \in (i + 1) .. Len(q) /\ a[j] = q[j])
    BY <1>1, <1>2
  <2> QED BY <1>2, <1>5, <2>1, <2>2, <2>3 DEF Joining
<1>6. ASSUME line # <<"PART", c, u>>, Staying(q, c, u) PROVE Staying(a, c, u)
  BY <1>1, <1>2, <1>3, <1>6 DEF Staying
<1> QED BY <1>1, <1>4, <1>5, <1>6

\* The services handle what they read.
LEMMA JoinKnown ==
  ASSUME TypeInv, KnownInv, m_join PROVE KnownInv'
<1>1. PICK c \in Chans, u \in Users :
        /\ toServices # <<>> /\ Head(toServices) = <<"JOIN", c, u>> /\ toServices' = Tail(toServices)
        /\ UNCHANGED <<linked, network>>
        /\ \/ members' = [members EXCEPT ![c] = @ \cup {u}] /\ UNCHANGED toNet
           \/ \E lines \in Seq(Line) :
                /\ Send(lines)
                /\ \/ members' = [members EXCEPT ![c] = @ \cup {u}]
                   \/ UNCHANGED members /\ \E i \in 1 .. Len(lines) : lines[i] = Kick(c, u)
  BY Joins
<1>2. toServices \in Seq(Told) /\ members \in [Chans -> SUBSET Users] /\ linked /\ users' = users
  BY <1>1, HeadTold DEF TypeInv, QueueType, TableType, network
<1> SUFFICES ASSUME NEW d \in Chans, NEW v \in users[d] PROVE Known(d, v)'
  BY <1>2 DEF KnownInv
<1>3. KickSent(toNet, d, v) \/ Joining(toServices, d, v) \/ (v \in members[d] /\ Staying(toServices, d, v))
  BY <1>2 DEF KnownInv, Known
<1>4. KickSent(toNet, d, v) => KickSent(toNet', d, v)
  BY <1>1, SendKicks
<1>5. v \in members[d] => v \in members'[d]
  BY <1>1, <1>2
<1>6. d = c /\ v = u => KickSent(toNet', d, v) \/ v \in members'[d]
  <2>1. CASE members' = [members EXCEPT ![c] = @ \cup {u}]
    BY <1>2, <2>1
  <2>2. ASSUME NEW lines \in Seq(Line), Send(lines), \E i \in 1 .. Len(lines) : lines[i] = Kick(c, u)
        PROVE  KickSent(toNet', c, u)
    BY <1>2, <2>2, SendKicks DEF KickSent
  <2> QED BY <1>1, <2>1, <2>2
<1> QED BY <1>1, <1>2, <1>3, <1>4, <1>5, <1>6, ReadTold DEF Known

LEMMA PartKnown ==
  ASSUME TypeInv, KnownInv, m_part PROVE KnownInv'
<1>1. PICK c, u : c = Head(toServices)[2] /\ u = Head(toServices)[3]
  OBVIOUS
<1>2. /\ toServices # <<>> /\ toServices' = Tail(toServices) /\ toServices \in Seq(Told)
      /\ Head(toServices)[1] = "PART" /\ Head(toServices) \in Told
      /\ UNCHANGED <<users, linked, toNet>> /\ members' = [members EXCEPT ![c] = @ \ {u}]
      /\ members \in [Chans -> SUBSET Users]
  BY <1>1 DEF m_part, Leave, network, TypeInv, QueueType, TableType
<1>3. Head(toServices) = <<"PART", c, u>> /\ linked
  BY <1>1, <1>2, HeadTold DEF Told, TypeInv
<1> SUFFICES ASSUME NEW d \in Chans, NEW v \in users[d] PROVE Known(d, v)'
  BY <1>2 DEF KnownInv
<1>4. KickSent(toNet, d, v) \/ Joining(toServices, d, v) \/ (v \in members[d] /\ Staying(toServices, d, v))
  BY <1>3 DEF KnownInv, Known
<1>5. <<"PART", c, u>> # <<"JOIN", d, v>>
  OBVIOUS
<1>6. v \in members[d] /\ <<"PART", c, u>> # <<"PART", d, v>> => v \in members'[d]
  BY <1>2
<1> QED BY <1>2, <1>3, <1>4, <1>5, <1>6, ReadTold DEF Known

\* A user comes or goes.
LEMMA MoveKnown ==
  ASSUME TypeInv, KnownInv, NEW c \in Chans, NEW u \in Users, Join(c, u) \/ Part(c, u)
  PROVE  KnownInv'
<1>1. toServices \in Seq(Told) /\ users \in [Chans -> SUBSET Users] /\ UNCHANGED <<toNet, members, linked>>
  BY DEF Join, Part, services, TypeInv, QueueType, NetType
<1> SUFFICES ASSUME linked, NEW d \in Chans, NEW v \in users'[d] PROVE Known(d, v)'
  BY <1>1 DEF KnownInv
<1>2. CASE Join(c, u)
  <2>1. toServices' = Append(toServices, <<"JOIN", c, u>>) /\ users' = [users EXCEPT ![c] = @ \cup {u}]
    BY <1>2 DEF Join, Tell
  <2>2. <<"JOIN", c, u>> \in Told /\ <<"JOIN", c, u>> # <<"PART", d, v>>
    BY DEF Told
  <2>3. CASE d = c /\ v = u
    BY <1>1, <2>1, <2>2, <2>3, TellTold DEF Known
  <2>4. CASE ~(d = c /\ v = u)
    <3>1. v \in users[d]
      BY <1>1, <2>1, <2>4
    <3>2. Known(d, v)
      BY <3>1 DEF KnownInv
    <3> QED BY <1>1, <2>1, <2>2, <3>2, TellTold DEF Known
  <2> QED BY <2>3, <2>4
<1>3. CASE Part(c, u)
  <2>1. toServices' = Append(toServices, <<"PART", c, u>>) /\ users' = [users EXCEPT ![c] = @ \ {u}]
    BY <1>3 DEF Part, Tell, Without
  <2>2. v \in users[d] /\ ~(d = c /\ v = u)
    BY <1>1, <2>1
  <2>3. <<"PART", c, u>> \in Told /\ <<"PART", c, u>> # <<"PART", d, v>>
    BY <2>2 DEF Told
  <2>4. Known(d, v)
    BY <2>2 DEF KnownInv
  <2> QED BY <1>1, <2>1, <2>3, <2>4, TellTold DEF Known
<1> QED BY <1>2, <1>3

\* The burst names every user.
LEMMA BurstJoins ==
  ASSUME TypeInv, Burst
  PROVE  /\ toServices' \in Seq(Told)
         /\ \A c \in Chans : \A u \in users[c] : \E i \in 1 .. Len(toServices') : toServices'[i] = <<"JOIN", c, u>>
         /\ \A i \in 1 .. Len(toServices') : toServices'[i][1] = "JOIN"
<1>1. PICK S : S = {b \in Chans \X Users : b[2] \in users[b[1]]}
  OBVIOUS
<1>2. PICK s \in SetToSeqs(S) : toServices' = [i \in DOMAIN s |-> <<"JOIN", s[i][1], s[i][2]>>]
  BY <1>1 DEF Burst
<1>3. s \in Seq(S) /\ DOMAIN s = 1 .. Len(s) /\ \A b \in S : \E i \in 1 .. Len(s) : s[i] = b
  <2>1. S \in SUBSET (Chans \X Users)
    BY <1>1
  <2> QED BY <2>1, Finite, Arranged
<1>4. toServices' = [i \in 1 .. Len(s) |-> <<"JOIN", s[i][1], s[i][2]>>] /\ Len(s) \in Nat
  BY <1>2, <1>3
<1>5. \A i \in 1 .. Len(s) : <<"JOIN", s[i][1], s[i][2]>> \in Told
  BY <1>1, <1>3 DEF Told
<1>6. toServices' \in Seq(Told) /\ Len(toServices') = Len(s)
  BY <1>4, <1>5
<1>7. ASSUME NEW c \in Chans, NEW u \in users[c]
      PROVE  \E i \in 1 .. Len(toServices') : toServices'[i] = <<"JOIN", c, u>>
  <2>1. <<c, u>> \in S
    BY <1>1 DEF TypeInv, NetType
  <2>2. PICK i \in 1 .. Len(s) : s[i] = <<c, u>>
    BY <1>3, <2>1
  <2> QED BY <1>4, <1>6, <2>2
<1>8. \A i \in 1 .. Len(toServices') : toServices'[i][1] = "JOIN"
  BY <1>4, <1>6
<1> QED BY <1>6, <1>7, <1>8

LEMMA BurstKnown ==
  ASSUME TypeInv, Burst PROVE KnownInv'
<1>1. users' = users
  BY DEF Burst, network
<1> SUFFICES ASSUME NEW c \in Chans, NEW u \in users[c] PROVE Known(c, u)'
  BY <1>1 DEF KnownInv
<1>2. PICK q : q = toServices'
  OBVIOUS
<1>3. PICK i \in 1 .. Len(q) : q[i] = <<"JOIN", c, u>>
  BY <1>2, BurstJoins
<1>4. \A j \in 1 .. Len(q) : q[j] # <<"PART", c, u>>
  BY <1>2, BurstJoins
<1>5. \A j \in (i + 1) .. Len(q) : j \in 1 .. Len(q)
  <2>1. q \in Seq(Told)
    BY <1>2, BurstJoins
  <2> QED BY <2>1
<1> QED BY <1>2, <1>3, <1>4, <1>5 DEF Known, Joining

\* The uplink obeys: who is kicked is a user no more.
LEMMA ObeyKnown ==
  ASSUME TypeInv, KnownInv, Obey PROVE KnownInv'
<1>1. PICK o : o = Head(toNet)
  OBVIOUS
<1>2. /\ toNet # <<>> /\ toNet' = Tail(toNet) /\ UNCHANGED <<linked, members, toServices>>
      /\ IF o.cmd = "KICK" THEN Without(o.chan, o.user) ELSE Mode(o)
  BY <1>1 DEF Obey, services
<1>3. toNet \in Seq(Line) /\ users \in [Chans -> SUBSET Users]
  BY DEF TypeInv, QueueType, NetType
<1>4. \A c \in Chans : users'[c] \subseteq users[c]
  BY <1>2, <1>3 DEF Without, Mode
<1>5. ASSUME NEW c \in Chans, NEW u \in users'[c], KickSent(toNet, c, u) PROVE KickSent(toNet', c, u)
  <2>1. PICK i \in 1 .. Len(toNet) : toNet[i] = Kick(c, u)
    BY <1>5 DEF KickSent
  <2>2. o # Kick(c, u)
    <3> SUFFICES ASSUME o = Kick(c, u) PROVE FALSE
      OBVIOUS
    <3>1. o.cmd = "KICK" /\ o.chan = c /\ o.user = u
      BY DEF Kick
    <3>2. users' = [users EXCEPT ![c] = @ \ {u}]
      BY <1>2, <3>1 DEF Without
    <3> QED BY <1>3, <1>5, <3>2
  <2>3. i # 1
    BY <1>1, <1>2, <1>3, <2>1, <2>2
  <2>4. i - 1 \in 1 .. Len(Tail(toNet)) /\ Tail(toNet)[i - 1] = toNet[i]
    BY <1>2, <1>3, <2>3
  <2> QED BY <1>2, <2>1, <2>4 DEF KickSent
<1> QED BY <1>2, <1>4, <1>5, StillKnown

\* Who is kicked is taken for gone.
LEMMA KickKnown ==
  ASSUME TypeInv, KnownInv, NEW c \in Chans, NEW u \in Users, chan_kick(c, u) PROVE KnownInv'
<1>1. PICK lines : lines = <<Kick(c, u)>>
  OBVIOUS
<1>2. lines \in Seq(Line) /\ Send(lines) /\ 1 \in 1 .. Len(lines) /\ lines[1] = Kick(c, u)
  BY <1>1, Lines DEF chan_kick
<1>3. linked /\ UNCHANGED <<linked, users, toServices>> /\ members' = [members EXCEPT ![c] = @ \ {u}]
  BY DEF chan_kick, Leave, network
<1>4. \A d, v : KickSent(toNet, d, v) => KickSent(toNet', d, v)
  BY <1>2, SendKicks
<1>5. KickSent(toNet', c, u)
  BY <1>2, <1>3, SendKicks DEF KickSent
<1>6. \A d \in Chans : \A v \in members[d] : v \in members'[d] \/ KickSent(toNet', d, v)
  BY <1>3, <1>5 DEF TypeInv, TableType
<1> QED BY <1>3, <1>4, <1>6, StillKnown

\* !tb kicks those it takes for gone.
LEMMA OrderKnown ==
  ASSUME TypeInv, KnownInv, NEW c \in Chans, NEW m \in Masks, NEW until, NEW Q \in SUBSET members[c],
         bot_tb(c, m, until, Q)
  PROVE  KnownInv'
<1>1. PICK lines \in Seq(Line) : Send(lines) /\ \A u \in Q : \E i \in 1 .. Len(lines) : lines[i] = Kick(c, u)
  BY BanLines
<1>2. linked /\ UNCHANGED <<linked, users, toServices>> /\ members' = [members EXCEPT ![c] = @ \ Q]
  BY DEF bot_tb, Leave, network
<1>3. \A d, v : KickSent(toNet, d, v) => KickSent(toNet', d, v)
  BY <1>1, SendKicks
<1>4. \A u \in Q : KickSent(toNet', c, u)
  BY <1>1, <1>2, SendKicks DEF KickSent
<1>5. \A d \in Chans : \A v \in members[d] : v \in members'[d] \/ KickSent(toNet', d, v)
  BY <1>2, <1>4 DEF TypeInv, TableType
<1> QED BY <1>2, <1>3, <1>5, StillKnown

-----------------------------------------------------------------------------
(* The network's limit *)

\* A limit of n is on its way, and none but n after it.
LimitSent(q, c, n) ==
  \E i \in 1 .. Len(q) :
    /\ q[i].cmd = "+l" /\ q[i].chan = c /\ q[i].to = n
    /\ \A j \in (i + 1) .. Len(q) : q[j].cmd = "+l" /\ q[j].chan = c => q[j].to = n

NoLimitSent(q, c) == \A i \in 1 .. Len(q) : ~(q[i].cmd = "+l" /\ q[i].chan = c)

\* The limit is n once the uplink has read its lines.
Ends(q, net, c, n) == LimitSent(q, c, n) \/ (NoLimitSent(q, c) /\ net[c] = n)

JoinSent(q, c) == \E i \in 1 .. Len(q) : q[i][1] = "JOIN" /\ q[i][2] = c

\* The last limit of the channel was CheckLimits', and nothing renews it unless someone
\* comes or goes.
Settled(c) ==
  /\ autolimit[c] > 0 /\ limit[c] = "none" /\ users[c] # {} /\ members[c] # {} /\ ~JoinSent(toServices, c)
  /\ c \notin stale

\* LimitFollowsUsers needs more to last: with lines under way the limit is right once
\* they are read, as long as the services know someone in the channel and nobody is
\* about to join it.
LimitInv == linked => \A c \in registered : Settled(c) => Ends(toNet, netlimit, c, Room(c))

LEMMA EndsFollowed ==
  ASSUME NEW q \in Seq(Line), NEW r \in Seq(Line), NEW net, NEW c, NEW n,
         LimitSent(r, c, n) \/ (NoLimitSent(r, c) /\ Ends(q, net, c, n))
  PROVE  Ends(q \o r, net, c, n)
<1>1. PICK s : s = q \o r
  OBVIOUS
<1>2. /\ Len(q) \in Nat /\ Len(r) \in Nat /\ Len(s) = Len(q) + Len(r)
      /\ \A i \in 1 .. Len(q) : s[i] = q[i]
      /\ \A i \in 1 .. Len(r) : s[Len(q) + i] = r[i]
  BY <1>1
<1>3. ASSUME NEW i \in 1 .. Len(s)
      PROVE  (i \in 1 .. Len(q) /\ s[i] = q[i]) \/ (i - Len(q) \in 1 .. Len(r) /\ s[i] = r[i - Len(q)])
  <2>1. CASE i <= Len(q)
    BY <1>2, <2>1
  <2>2. CASE ~(i <= Len(q))
    <3>1. i - Len(q) \in 1 .. Len(r) /\ Len(q) + (i - Len(q)) = i
      BY <1>2, <2>2
    <3> QED BY <1>2, <3>1
  <2> QED BY <2>1, <2>2
<1>4. CASE LimitSent(r, c, n)
  <2>1. PICK i \in 1 .. Len(r) :
          /\ r[i].cmd = "+l" /\ r[i].chan = c /\ r[i].to = n
          /\ \A j \in (i + 1) .. Len(r) : r[j].cmd = "+l" /\ r[j].chan = c => r[j].to = n
    BY <1>4 DEF LimitSent
  <2>2. Len(q) + i \in 1 .. Len(s) /\ s[Len(q) + i] = r[i]
    BY <1>2
  <2>3. ASSUME NEW j \in (Len(q) + i + 1) .. Len(s)
        PROVE  j - Len(q) \in (i + 1) .. Len(r) /\ s[j] = r[j - Len(q)]
    <3>1. j - Len(q) \in (i + 1) .. Len(r) /\ j - Len(q) \in 1 .. Len(r) /\ Len(q) + (j - Len(q)) = j
      BY <1>2
    <3> QED BY <1>2, <3>1
  <2>4. LimitSent(s, c, n)
    BY <2>1, <2>2, <2>3 DEF LimitSent
  <2> QED BY <1>1, <2>4 DEF Ends
<1>5. CASE NoLimitSent(r, c) /\ LimitSent(q, c, n)
  <2>1. PICK i \in 1 .. Len(q) :
          /\ q[i].cmd = "+l" /\ q[i].chan = c /\ q[i].to = n
          /\ \A j \in (i + 1) .. Len(q) : q[j].cmd = "+l" /\ q[j].chan = c => q[j].to = n
    BY <1>5 DEF LimitSent
  <2>2. i \in 1 .. Len(s) /\ s[i] = q[i]
    BY <1>2
  <2>3. ASSUME NEW j \in (i + 1) .. Len(s), s[j].cmd = "+l", s[j].chan = c PROVE s[j].to = n
    <3>1. j \in 1 .. Len(s)
      BY <1>2
    <3>2. j \in 1 .. Len(q) /\ s[j] = q[j]
      BY <1>3, <1>5, <2>3, <3>1 DEF NoLimitSent
    <3>3. j \in (i + 1) .. Len(q)
      BY <3>2
    <3> QED BY <2>1, <2>3, <3>2, <3>3
  <2>4. LimitSent(s, c, n)
    BY <2>1, <2>2, <2>3 DEF LimitSent
  <2> QED BY <1>1, <2>4 DEF Ends
<1>6. CASE NoLimitSent(r, c) /\ NoLimitSent(q, c) /\ net[c] = n
  <2>1. NoLimitSent(s, c)
    BY <1>3, <1>6 DEF NoLimitSent
  <2> QED BY <1>1, <1>6, <2>1 DEF Ends
<1> QED BY <1>4, <1>5, <1>6 DEF Ends

\* The uplink reads a line.
LEMMA EndsRead ==
  ASSUME NEW q \in Seq(Line), q # <<>>, NEW net, NEW mod, NEW c, NEW n, Ends(q, net, c, n),
         mod[c] = IF Head(q).cmd = "+l" /\ Head(q).chan = c THEN Head(q).to ELSE net[c]
  PROVE  Ends(Tail(q), mod, c, n)
<1>1. PICK t : t = Tail(q)
  OBVIOUS
<1>2. /\ Len(q) \in Nat /\ Len(q) >= 1 /\ Len(t) = Len(q) - 1 /\ Head(q) = q[1]
      /\ \A i \in 1 .. Len(q) - 1 : t[i] = q[i + 1]
  BY <1>1
<1>3. \A j \in 1 .. Len(t) : j + 1 \in 1 .. Len(q) /\ t[j] = q[j + 1]
  BY <1>2
<1>4. CASE LimitSent(q, c, n)
  <2>1. PICK i \in 1 .. Len(q) :
          /\ q[i].cmd = "+l" /\ q[i].chan = c /\ q[i].to = n
          /\ \A j \in (i + 1) .. Len(q) : q[j].cmd = "+l" /\ q[j].chan = c => q[j].to = n
    BY <1>4 DEF LimitSent
  <2>2. CASE i = 1
    <3>1. mod[c] = n
      BY <1>2, <2>1, <2>2
    <3>2. ASSUME NEW j \in 1 .. Len(t), t[j].cmd = "+l", t[j].chan = c PROVE t[j].to = n
      <4>1. j + 1 \in (i + 1) .. Len(q)
        BY <1>2, <2>2
      <4> QED BY <1>3, <2>1, <3>2, <4>1
    <3>3. CASE NoLimitSent(t, c)
      BY <1>1, <3>1, <3>3 DEF Ends
    <3>4. CASE ~NoLimitSent(t, c)
      <4>1. PICK k \in 1 .. Len(t) : t[k].cmd = "+l" /\ t[k].chan = c
        BY <3>4 DEF NoLimitSent
      <4>2. \A j \in (k + 1) .. Len(t) : j \in 1 .. Len(t)
        BY <1>2
      <4>3. LimitSent(t, c, n)
        BY <3>2, <4>1, <4>2 DEF LimitSent
      <4> QED BY <1>1, <4>3 DEF Ends
    <3> QED BY <3>3, <3>4
  <2>3. CASE i # 1
    <3>1. i - 1 \in 1 .. Len(t) /\ t[i - 1] = q[i]
      BY <1>2, <2>3
    <3>2. ASSUME NEW j \in (i - 1 + 1) .. Len(t), t[j].cmd = "+l", t[j].chan = c PROVE t[j].to = n
      <4>1. j + 1 \in (i + 1) .. Len(q) /\ j \in 1 .. Len(t)
        BY <1>2, <2>3
      <4> QED BY <1>3, <2>1, <3>2, <4>1
    <3>3. LimitSent(t, c, n)
      BY <2>1, <3>1, <3>2 DEF LimitSent
    <3> QED BY <1>1, <3>3 DEF Ends
  <2> QED BY <2>2, <2>3
<1>5. CASE NoLimitSent(q, c) /\ net[c] = n
  <2>1. NoLimitSent(t, c)
    BY <1>3, <1>5 DEF NoLimitSent
  <2>2. 1 \in 1 .. Len(q)
    BY <1>2
  <2>3. mod[c] = n
    BY <1>2, <1>5, <2>2 DEF NoLimitSent
  <2> QED BY <1>1, <2>1, <2>3 DEF Ends
<1> QED BY <1>4, <1>5 DEF Ends

\* Lines that set no limit leave it to those before them.
LEMMA SendEnds ==
  ASSUME TypeInv, linked, NEW lines \in Seq(Line), Send(lines), NEW c, NEW n,
         LimitSent(lines, c, n) \/ (NoLimitSent(lines, c) /\ Ends(toNet, netlimit, c, n))
  PROVE  Ends(toNet', netlimit, c, n)
<1>1. toNet \in Seq(Line) /\ toNet' = toNet \o lines
  BY DEF TypeInv, QueueType, Send
<1> QED BY <1>1, EndsFollowed

\* The steps after which no more limits have to be right, and those that were still are.
LEMMA StillEnds ==
  ASSUME LimitInv, linked' => linked,
         linked' => \A c \in registered' : Settled(c)' => c \in registered /\ Settled(c) /\ Room(c)' = Room(c),
         linked' => \A c \in registered' : \A n : Settled(c)' /\ Ends(toNet, netlimit, c, n) => Ends(toNet', netlimit', c, n)
  PROVE  LimitInv'
<1> SUFFICES ASSUME linked', NEW c \in registered', Settled(c)' PROVE Ends(toNet', netlimit', c, Room(c)')
  BY DEF LimitInv
<1>1. c \in registered /\ Settled(c) /\ Room(c)' = Room(c) /\ linked
  OBVIOUS
<1>2. Ends(toNet, netlimit, c, Room(c))
  BY <1>1 DEF LimitInv
<1> QED BY <1>1, <1>2

\* A line about one channel is read: the others' joins are still to come.
LEMMA ReadJoins ==
  ASSUME NEW q \in Seq(Told), q # <<>>, NEW c, JoinSent(q, c)
  PROVE  JoinSent(Tail(q), c) \/ (Head(q)[1] = "JOIN" /\ Head(q)[2] = c)
<1>1. /\ Len(q) \in Nat /\ Len(q) >= 1 /\ Len(Tail(q)) = Len(q) - 1 /\ Head(q) = q[1]
      /\ \A i \in 1 .. Len(q) - 1 : Tail(q)[i] = q[i + 1]
  OBVIOUS
<1>2. PICK i \in 1 .. Len(q) : q[i][1] = "JOIN" /\ q[i][2] = c
  BY DEF JoinSent
<1>3. CASE i = 1
  BY <1>1, <1>2, <1>3
<1>4. CASE i # 1
  <2>1. i - 1 \in 1 .. Len(Tail(q)) /\ Tail(q)[i - 1] = q[i]
    BY <1>1, <1>4
  <2> QED BY <1>2, <2>1 DEF JoinSent
<1> QED BY <1>3, <1>4

LEMMA TellJoins ==
  ASSUME NEW q \in Seq(Told), NEW line \in Told, NEW c,
         JoinSent(q, c) \/ (line[1] = "JOIN" /\ line[2] = c)
  PROVE  JoinSent(Append(q, line), c)
<1>1. PICK a, n : a = Append(q, line) /\ n = Len(q)
  OBVIOUS
<1>2. n \in Nat /\ Len(a) = n + 1 /\ a[n + 1] = line /\ \A i \in 1 .. n : a[i] = q[i]
  BY <1>1
<1>3. n + 1 \in 1 .. Len(a) /\ \A i \in 1 .. n : i \in 1 .. Len(a)
  BY <1>2
<1> QED BY <1>1, <1>2, <1>3 DEF JoinSent

\* A member of a channel goes: its limit waits anew, or nobody is left.
LEMMA LeaveSettled ==
  ASSUME TypeInv, NEW c \in Chans, NEW Q, Leave(c, Q), UNCHANGED <<registered, autolimit, nojoin, stale, users>>,
         NEW d \in registered, Settled(d)', JoinSent(toServices, d) => JoinSent(toServices', d)
  PROVE  Settled(d) /\ Room(d)' = Room(d)
<1>1. /\ members \in [Chans -> SUBSET Users] /\ limit \in [Chans -> LimitStates] /\ d \in Chans
      /\ members' = [members EXCEPT ![c] = @ \ Q]
      /\ limit' = IF members[c] \cap Q = {} \/ members[c] \subseteq Q THEN limit ELSE Renewed(c)
  BY DEF TypeInv, TableType, Leave
<1>2. /\ autolimit[d] > 0 /\ limit'[d] = "none" /\ users[d] # {} /\ members'[d] # {} /\ ~JoinSent(toServices, d)
      /\ d \notin stale
  BY DEF Settled
<1>3. limit[d] = "none"
  BY <1>1, <1>2 DEF Renewed
<1>4. members'[d] = members[d]
  <2>1. CASE d = c
    <3>1. ~(members[c] \subseteq Q)
      BY <1>1, <1>2, <2>1
    <3>2. limit' # Renewed(c)
      BY <1>1, <1>2, <2>1 DEF Renewed
    <3> QED BY <1>1, <2>1, <3>1, <3>2
  <2>2. CASE d # c
    BY <1>1, <2>2
  <2> QED BY <2>1, <2>2
<1> QED BY <1>2, <1>3, <1>4 DEF Settled, Room

\* The services handle what they read.
LEMMA JoinLimit ==
  ASSUME TypeInv, LimitInv, m_join PROVE LimitInv'
<1>1. PICK c \in Chans, u \in Users :
        /\ toServices # <<>> /\ Head(toServices) = <<"JOIN", c, u>> /\ toServices' = Tail(toServices)
        /\ limit' = Renewed(c)
        /\ UNCHANGED <<registered, autolimit, nojoin, linked, network, stale>>
        /\ members' = [members EXCEPT ![c] = @ \cup {u}] \/ UNCHANGED members
        /\ \/ UNCHANGED toNet
           \/ \E m \in Masks, lines \in Seq(Line) :
                Send(lines) /\ \A i \in 1 .. Len(lines) : lines[i] \in {Ban("+b", c, m), Kick(c, u)}
  BY Joins
<1>2. /\ toServices \in Seq(Told) /\ limit \in [Chans -> LimitStates] /\ registered \subseteq Chans /\ linked
      /\ members \in [Chans -> SUBSET Users] /\ UNCHANGED <<users, netlimit>>
  BY <1>1, HeadTold DEF TypeInv, QueueType, TableType, network
<1>3. ASSUME NEW d \in registered, Settled(d)' PROVE Settled(d) /\ Room(d)' = Room(d)
  <2>1. /\ autolimit[d] > 0 /\ limit'[d] = "none" /\ users[d] # {} /\ members'[d] # {} /\ ~JoinSent(toServices', d)
        /\ d \notin stale
    BY <1>1, <1>2, <1>3 DEF Settled
  <2>2. d # c
    BY <1>1, <1>2, <2>1 DEF Renewed
  <2>3. limit'[d] = limit[d] /\ members'[d] = members[d]
    BY <1>1, <1>2, <2>2 DEF Renewed
  <2>4. ~JoinSent(toServices, d)
    BY <1>1, <1>2, <2>1, <2>2, ReadJoins
  <2> QED BY <1>1, <2>1, <2>3, <2>4 DEF Settled, Room
<1>4. ASSUME NEW d, NEW n, Ends(toNet, netlimit, d, n) PROVE Ends(toNet', netlimit', d, n)
  <2>1. CASE UNCHANGED toNet
    BY <1>2, <1>4, <2>1
  <2>2. ASSUME NEW m \in Masks, NEW lines \in Seq(Line), Send(lines),
               \A i \in 1 .. Len(lines) : lines[i] \in {Ban("+b", c, m), Kick(c, u)}
        PROVE  Ends(toNet', netlimit', d, n)
    <3>1. NoLimitSent(lines, d)
      BY <2>2 DEF NoLimitSent, Ban, Kick
    <3> QED BY <1>2, <1>4, <2>2, <3>1, SendEnds
  <2> QED BY <1>1, <2>1, <2>2
<1> QED BY <1>1, <1>2, <1>3, <1>4, StillEnds

LEMMA PartLimit ==
  ASSUME TypeInv, LimitInv, m_part \/ \E c \in Chans, u \in Users : chan_kick(c, u) PROVE LimitInv'
<1>1. CASE m_part
  <2>1. PICK c, u : c = Head(toServices)[2] /\ u = Head(toServices)[3]
    OBVIOUS
  <2>2. /\ toServices # <<>> /\ toServices' = Tail(toServices) /\ toServices \in Seq(Told)
        /\ Head(toServices)[1] = "PART" /\ Leave(c, {u})
        /\ UNCHANGED <<registered, autolimit, nojoin, linked, users, netlimit, toNet, stale>>
    BY <1>1, <2>1 DEF m_part, network, TypeInv, QueueType
  <2>3. c \in Chans /\ linked
    BY <2>1, <2>2, HeadTold DEF TypeInv
  <2>4. \A d : JoinSent(toServices, d) => JoinSent(toServices', d)
    BY <2>2, ReadJoins
  <2>5. \A d \in registered : Settled(d)' => Settled(d) /\ Room(d)' = Room(d)
    BY <2>2, <2>3, <2>4, LeaveSettled
  <2> QED BY <2>2, <2>3, <2>5, StillEnds
<1>2. ASSUME NEW c \in Chans, NEW u \in Users, chan_kick(c, u) PROVE LimitInv'
  <2>1. /\ linked /\ Leave(c, {u}) /\ Send(<<Kick(c, u)>>)
        /\ UNCHANGED <<registered, autolimit, nojoin, linked, users, netlimit, toServices, stale>>
    BY <1>2 DEF chan_kick, network
  <2>2. PICK lines : lines = <<Kick(c, u)>>
    OBVIOUS
  <2>3. lines \in Seq(Line) /\ \A i \in 1 .. Len(lines) : lines[i] = Kick(c, u)
    BY <2>2, Lines
  <2>4. \A d : NoLimitSent(lines, d)
    BY <2>3 DEF NoLimitSent, Kick
  <2>5. \A d, n : Ends(toNet, netlimit, d, n) => Ends(toNet', netlimit, d, n)
    BY <2>1, <2>2, <2>3, <2>4, SendEnds
  <2>6. \A d \in registered : Settled(d)' => Settled(d) /\ Room(d)' = Room(d)
    BY <2>1, LeaveSettled
  <2> QED BY <2>1, <2>5, <2>6, StillEnds
<1> QED BY <1>1, <1>2

\* What others do to the limit of a channel is noted.
LEMMA MeddleLimit ==
  ASSUME TypeInv, LimitInv, NEW c \in Chans,
         Meddles(c) \/ \E n \in ModeLimits : SetLimit(c, n)
  PROVE  LimitInv'
<1>1. /\ UNCHANGED <<registered, autolimit, limit, members, linked, users, toServices>> /\ stale \subseteq stale'
      /\ \A d : d # c => (d \in nojoin' <=> d \in nojoin)
      /\ c \in stale' \/ UNCHANGED nojoin
  <2>1. CASE Meddles(c)
    BY <2>1, Meddled DEF network
  <2>2. ASSUME NEW n \in ModeLimits, SetLimit(c, n)
        PROVE  /\ UNCHANGED <<services, users, toServices>> /\ stale' = stale \cup {c}
    BY <2>2 DEF SetLimit
  <2> QED BY <2>1, <2>2 DEF services
<1>2. ASSUME NEW d \in registered, Settled(d)' PROVE Settled(d) /\ Room(d)' = Room(d)
  <2>1. Settled(d)
    BY <1>1, <1>2 DEF Settled
  <2>2. d \in nojoin' <=> d \in nojoin
    BY <1>1, <1>2 DEF Settled
  <2> QED BY <1>1, <2>1, <2>2 DEF Room
<1>3. ASSUME linked, NEW d \in registered, NEW n, Settled(d)', Ends(toNet, netlimit, d, n)
      PROVE  Ends(toNet', netlimit', d, n)
  <2>1. d \notin stale'
    BY <1>3 DEF Settled
  <2>2. CASE Meddles(c)
    <3>1. PICK lines \in Seq(Line) :
            /\ Send(lines) /\ \A i \in 1 .. Len(lines) : lines[i].chan = c
            /\ c \in stale' \/ \A i \in 1 .. Len(lines) : lines[i].cmd = "SVSMODE"
      BY <2>2, Meddled
    <3>2. NoLimitSent(lines, d)
      BY <2>1, <3>1 DEF NoLimitSent
    <3>3. netlimit' = netlimit
      BY <2>2, Meddled DEF network
    <3> QED BY <1>3, <3>1, <3>2, <3>3, SendEnds
  <2>3. ASSUME NEW l \in ModeLimits, SetLimit(c, l) PROVE Ends(toNet', netlimit', d, n)
    <3>1. netlimit' = [netlimit EXCEPT ![c] = l] /\ stale' = stale \cup {c} /\ UNCHANGED toNet
      BY <2>3 DEF SetLimit
    <3>2. netlimit'[d] = netlimit[d]
      BY <2>1, <3>1 DEF TypeInv, TableType, NetType
    <3> QED BY <1>3, <3>1, <3>2 DEF Ends
  <2> QED BY <2>2, <2>3
<1> QED BY <1>1, <1>2, <1>3, StillEnds

\* A user comes or goes: with the last user the network forgets the limit.
LEMMA MoveLimit ==
  ASSUME TypeInv, LimitInv, NEW c \in Chans, NEW u \in Users, Join(c, u) \/ Part(c, u)
  PROVE  LimitInv'
<1>1. /\ toServices \in Seq(Told) /\ users \in [Chans -> SUBSET Users] /\ netlimit \in [Chans -> Nat]
      /\ UNCHANGED <<registered, autolimit, nojoin, limit, members, linked, toNet, stale>> /\ registered \subseteq Chans
  BY DEF Join, Part, services, TypeInv, QueueType, NetType, TableType
<1>2. \E w \in {"JOIN", "PART"} :
        /\ linked => toServices' = Append(toServices, <<w, c, u>>)
        /\ w = "JOIN" => netlimit' = netlimit /\ users' = [users EXCEPT ![c] = @ \cup {u}]
        /\ w = "PART" => Without(c, u)
  BY DEF Join, Part, Tell
<1>3. PICK w \in {"JOIN", "PART"} :
        /\ linked => toServices' = Append(toServices, <<w, c, u>>)
        /\ w = "JOIN" => netlimit' = netlimit /\ users' = [users EXCEPT ![c] = @ \cup {u}]
        /\ w = "PART" => Without(c, u)
  BY <1>2
<1>4. <<w, c, u>> \in Told /\ <<w, c, u>>[1] = w /\ <<w, c, u>>[2] = c
  BY DEF Told
<1>5. ASSUME linked, NEW d \in registered, Settled(d)' PROVE Settled(d) /\ Room(d)' = Room(d)
  <2>1. /\ autolimit[d] > 0 /\ limit[d] = "none" /\ users'[d] # {} /\ members[d] # {} /\ ~JoinSent(toServices', d)
        /\ d \notin stale
    BY <1>1, <1>5 DEF Settled
  <2>2. ~JoinSent(toServices, d) /\ ~(w = "JOIN" /\ d = c)
    <3>1. toServices' = Append(toServices, <<w, c, u>>)
      BY <1>3, <1>5
    <3> QED BY <1>1, <1>4, <2>1, <3>1, TellJoins
  <2>3. users[d] # {}
    BY <1>1, <1>3, <2>1, <2>2 DEF Without
  <2> QED BY <1>1, <2>1, <2>2, <2>3 DEF Settled, Room
<1>6. ASSUME NEW d \in registered, NEW n, users'[d] # {}, Ends(toNet, netlimit, d, n)
      PROVE  Ends(toNet', netlimit', d, n)
  <2>1. netlimit'[d] = netlimit[d]
    BY <1>1, <1>3, <1>6 DEF Without
  <2> QED BY <1>1, <1>6, <2>1 DEF Ends
<1>7. \A d : Settled(d)' => users'[d] # {}
  BY DEF Settled
<1> QED BY <1>1, <1>5, <1>6, <1>7, StillEnds

LEMMA ObeyLimit ==
  ASSUME TypeInv, LimitInv, Obey PROVE LimitInv'
<1>1. PICK o : o = Head(toNet)
  OBVIOUS
<1>2. /\ toNet # <<>> /\ toNet' = Tail(toNet)
      /\ UNCHANGED <<registered, autolimit, nojoin, limit, members, linked, toServices, stale>>
      /\ IF o.cmd = "KICK" THEN Without(o.chan, o.user) ELSE Mode(o)
  BY <1>1 DEF Obey, services
<1>3. /\ toNet \in Seq(Line) /\ users \in [Chans -> SUBSET Users] /\ netlimit \in [Chans -> Nat]
      /\ registered \subseteq Chans
  BY DEF TypeInv, QueueType, NetType, TableType
<1>4. o \in Line /\ o.chan \in Chans
  <2>1. o \in Line
    BY <1>1, <1>2, <1>3
  <2> QED BY <2>1, Lines
<1>5. \A d \in Chans : users'[d] \subseteq users[d]
  BY <1>2, <1>3 DEF Without, Mode
<1>6. ASSUME NEW d \in registered, Settled(d)' PROVE Settled(d) /\ Room(d)' = Room(d)
  BY <1>2, <1>3, <1>5, <1>6 DEF Settled, Room
<1>7. ASSUME NEW d \in registered, NEW n, users'[d] # {}, Ends(toNet, netlimit, d, n)
      PROVE  Ends(toNet', netlimit', d, n)
  <2>1. netlimit'[d] = IF o.cmd = "+l" /\ o.chan = d THEN o.to ELSE netlimit[d]
    <3>1. CASE o.cmd = "KICK"
      BY <1>2, <1>3, <1>4, <1>7, <3>1 DEF Without
    <3>2. CASE o.cmd # "KICK"
      BY <1>2, <1>3, <1>4, <1>7, <3>2 DEF Mode
    <3> QED BY <3>1, <3>2
  <2> QED BY <1>1, <1>2, <1>3, <1>7, <2>1, EndsRead
<1>8. \A d : Settled(d)' => users'[d] # {}
  BY DEF Settled
<1> QED BY <1>2, <1>6, <1>7, <1>8, StillEnds

\* What is due is sent.
LEMMA CheckLimit ==
  ASSUME TypeInv, LimitInv, CheckLimits PROVE LimitInv'
<1>1. PICK lines \in Seq(Line) :
        /\ Send(lines)
        /\ \A i \in 1 .. Len(lines) : lines[i].cmd = "+l" /\ lines[i].to = Room(lines[i].chan)
        /\ \A c \in Chans : limit[c] = "due" /\ members[c] # {} => \E i \in 1 .. Len(lines) : lines[i].chan = c
  BY LimitsSent
<1>2. /\ limit' = [c \in Chans |-> IF limit[c] = "due" THEN "none" ELSE limit[c]]
      /\ \A c \in stale : c \in stale' \/ (c \in Chans /\ limit[c] = "due" /\ members[c] # {})
      /\ UNCHANGED <<registered, autolimit, nojoin, members, linked, users, netlimit, toServices>>
  BY DEF CheckLimits, network, TypeInv, RestType
<1> SUFFICES ASSUME linked, NEW c \in registered, Settled(c)' PROVE Ends(toNet', netlimit, c, Room(c))
  BY <1>2 DEF LimitInv, Room
<1>3. c \in Chans /\ members[c] # {}
  BY <1>2 DEF TypeInv, TableType, Settled
<1>4. CASE NoLimitSent(lines, c)
  <2>1. limit[c] # "due"
    BY <1>1, <1>3, <1>4 DEF NoLimitSent
  <2>2. Settled(c)
    BY <1>2, <1>3, <2>1 DEF Settled
  <2> QED BY <1>1, <1>4, <2>2, SendEnds DEF LimitInv
<1>5. CASE ~NoLimitSent(lines, c)
  <2>1. PICK i \in 1 .. Len(lines) : lines[i].chan = c
    BY <1>5 DEF NoLimitSent
  <2>2. \A j \in (i + 1) .. Len(lines) : j \in 1 .. Len(lines)
    OBVIOUS
  <2>3. LimitSent(lines, c, Room(c))
    BY <1>1, <2>1, <2>2 DEF LimitSent
  <2> QED BY <1>1, <2>3, SendEnds
<1> QED BY <1>4, <1>5

\* Bans and kicks set no limit; who is kicked leaves one that waits anew.
LEMMA OrderLimit ==
  ASSUME TypeInv, LimitInv, NEW c \in Chans, NEW m \in Masks,
         bot_unban(c, m) \/ \E Q \in SUBSET members[c], until \in {"running", "forever"} : bot_tb(c, m, until, Q)
  PROVE  LimitInv'
<1>1. linked /\ UNCHANGED <<registered, autolimit, nojoin, users, netlimit, linked, toServices, stale>>
  BY DEF bot_unban, bot_tb, network
<1>2. PICK lines \in Seq(Line) : Send(lines) /\ \A i \in 1 .. Len(lines) : lines[i].cmd \in {"+b", "-b", "KICK"}
  <2>1. CASE bot_unban(c, m)
    <3>1. PICK lines : lines = <<Ban("-b", c, m)>>
      OBVIOUS
    <3>2. Ban("-b", c, m) \in Line
      BY Lines
    <3>3. lines \in Seq(Line) /\ \A i \in 1 .. Len(lines) : lines[i] = Ban("-b", c, m)
      BY <3>1, <3>2
    <3>4. Send(lines)
      BY <2>1, <3>1 DEF bot_unban, UnbanLines
    <3> QED BY <3>3, <3>4, Commands
  <2>2. ASSUME NEW until \in {"running", "forever"}, NEW Q \in SUBSET members[c], bot_tb(c, m, until, Q)
        PROVE  \E lines \in Seq(Line) :
                 Send(lines) /\ \A i \in 1 .. Len(lines) : lines[i].cmd \in {"+b", "-b", "KICK"}
    <3>1. PICK lines \in Seq(Line) :
            /\ Send(lines)
            /\ \A i \in 1 .. Len(lines) : lines[i] = Ban("+b", c, m) \/ lines[i].cmd = "KICK"
      BY <2>2, BanLines
    <3> QED BY <3>1, Commands
  <2> QED BY <2>1, <2>2
<1>3. \A d, n : Ends(toNet, netlimit, d, n) => Ends(toNet', netlimit, d, n)
  <2>1. \A d : NoLimitSent(lines, d)
    BY <1>2 DEF NoLimitSent
  <2> QED BY <1>1, <1>2, <2>1, SendEnds
<1>4. \A d \in registered : Settled(d)' => Settled(d) /\ Room(d)' = Room(d)
  <2>1. CASE bot_unban(c, m)
    BY <1>1, <2>1 DEF bot_unban, Settled, Room
  <2>2. ASSUME NEW until \in {"running", "forever"}, NEW Q \in SUBSET members[c], bot_tb(c, m, until, Q)
        PROVE  \A d \in registered : Settled(d)' => Settled(d) /\ Room(d)' = Room(d)
    <3>1. Leave(c, Q)
      BY <2>2 DEF bot_tb
    <3> QED BY <1>1, <3>1, LeaveSettled
  <2> QED BY <2>1, <2>2
<1> QED BY <1>1, <1>3, <1>4, StillEnds

LEMMA LiftLimit ==
  ASSUME TypeInv, LimitInv, CheckTimebans PROVE LimitInv'
<1>1. PICK over \in SUBSET (Chans \X Masks), lines \in Seq(Line) :
        /\ Send(lines)
        /\ \A i \in 1 .. Len(lines) : \E b \in over : lines[i] = Ban("-b", b[1], b[2])
        /\ UNCHANGED <<registered, autolimit, nojoin, limit, members, linked, network, toServices, stale>>
  BY Lifted
<1>2. \A c : NoLimitSent(lines, c)
  <2>1. ASSUME NEW i \in 1 .. Len(lines) PROVE lines[i].cmd = "-b"
    <3>1. PICK b \in over : lines[i] = Ban("-b", b[1], b[2])
      BY <1>1
    <3> QED BY <3>1, Commands
  <2> QED BY <2>1 DEF NoLimitSent
<1>3. linked => \A c, n : Ends(toNet, netlimit, c, n) => Ends(toNet', netlimit, c, n)
  BY <1>1, <1>2, SendEnds
<1> QED BY <1>1, <1>3, StillEnds DEF network, Settled, Room

\* The owner asks for room, registers or drops the channel; time passes.
LEMMA OwnerLimit ==
  ASSUME TypeInv, LimitInv, NEW c \in Chans,
         \/ chan_register(c) \/ chandrop(c) \/ chan_clearbans(c) \/ LimitDue(c)
         \/ \E a \in AutoLimits : chan_set_autolimit(c, a)
         \/ \E m \in Masks : BanOver(c, m) \/ \E until : bot_tb_refused(c, m, until)
  PROVE  LimitInv'
<1>1. /\ UNCHANGED <<linked, members, users, netlimit, toServices, toNet, stale>>
      /\ \A d : d # c => (d \in nojoin' <=> d \in nojoin)
  BY DEF chan_register, chandrop, chan_clearbans, LimitDue, chan_set_autolimit, BanOver, bot_tb_refused, network
<1>2. /\ autolimit \in [Chans -> AutoLimits] /\ limit \in [Chans -> LimitStates] /\ registered \subseteq Chans
      /\ AutoLimits \subseteq Nat
  BY TimersLimits DEF TypeInv, TableType
<1>3. ASSUME NEW d \in registered', Settled(d)' PROVE d \in registered /\ Settled(d) /\ Room(d)' = Room(d)
  <2>1. CASE chan_register(c) \/ chandrop(c)
    <3>1. registered' \subseteq registered \cup {c} /\ autolimit' = [autolimit EXCEPT ![c] = 0] /\ limit' = limit
      BY <2>1 DEF chan_register, chandrop
    <3>2. d # c
      BY <1>2, <1>3, <3>1 DEF Settled
    <3>3. d \in registered /\ autolimit'[d] = autolimit[d]
      BY <1>2, <3>1, <3>2
    <3> QED BY <1>1, <1>3, <3>1, <3>2, <3>3 DEF Settled, Room
  <2>2. CASE chan_clearbans(c) \/ \E m \in Masks : BanOver(c, m) \/ \E until : bot_tb_refused(c, m, until)
    <3>1. UNCHANGED <<registered, autolimit, nojoin, limit>>
      BY <2>2 DEF chan_clearbans, BanOver, bot_tb_refused
    <3> QED BY <1>1, <1>3, <3>1 DEF Settled, Room
  <2>3. CASE LimitDue(c)
    <3>1. limit' = [limit EXCEPT ![c] = "due"] /\ UNCHANGED <<registered, autolimit, nojoin>>
      BY <2>3 DEF LimitDue
    <3>2. limit[d] = "none"
      BY <1>2, <1>3, <3>1 DEF Settled
    <3> QED BY <1>1, <1>3, <3>1, <3>2 DEF Settled, Room
  <2>4. ASSUME NEW a \in AutoLimits, chan_set_autolimit(c, a)
        PROVE  d \in registered /\ Settled(d) /\ Room(d)' = Room(d)
    <3>1. /\ autolimit' = [autolimit EXCEPT ![c] = a] /\ UNCHANGED registered
          /\ limit' = IF a > 0 THEN [limit EXCEPT ![c] = "waiting"] ELSE limit
      BY <2>4 DEF chan_set_autolimit
    <3>2. d \in registered /\ d \in Chans /\ autolimit'[d] > 0 /\ limit'[d] = "none"
      BY <1>2, <1>3, <3>1 DEF Settled
    <3>3. d # c
      BY <1>2, <3>1, <3>2
    <3>4. autolimit'[d] = autolimit[d] /\ limit'[d] = limit[d]
      BY <1>2, <3>1, <3>2, <3>3
    <3> QED BY <1>1, <1>3, <3>2, <3>3, <3>4 DEF Settled, Room
  <2> QED BY <2>1, <2>2, <2>3, <2>4
<1> QED BY <1>1, <1>3, StillEnds

\* The link goes with the limits, and comes back with everyone's JOIN.
LEMMA LinkLimit ==
  ASSUME TypeInv, LimitInv, cleanup_reconnect \/ Burst PROVE LimitInv'
<1>1. CASE cleanup_reconnect
  BY <1>1 DEF cleanup_reconnect, LimitInv
<1>2. CASE Burst
  <2>1. UNCHANGED <<registered, users>> /\ registered \subseteq Chans
    BY <1>2 DEF Burst, network, TypeInv, TableType
  <2>2. ASSUME NEW c \in Chans, users[c] # {} PROVE JoinSent(toServices, c)'
    <3>1. PICK u \in users[c] : TRUE
      BY <2>2
    <3>2. PICK i \in 1 .. Len(toServices') : toServices'[i] = <<"JOIN", c, u>>
      BY <1>2, BurstJoins
    <3> QED BY <3>2 DEF JoinSent
  <2> QED BY <2>1, <2>2 DEF LimitInv, Settled
<1> QED BY <1>1, <1>2

LEMMA NextLimit ==
  ASSUME TypeInv, KnownInv, LimitInv, [Next]_vars PROVE KnownInv' /\ LimitInv'
<1>1. CASE UNCHANGED vars
  BY <1>1 DEF vars, services, network, KnownInv, Known, LimitInv, Settled, Room
<1>2. CASE m_join \/ m_part
  BY <1>2, JoinKnown, PartKnown, JoinLimit, PartLimit
<1>3. CASE \E c \in Chans, u \in Users : Join(c, u) \/ Part(c, u)
  BY <1>3, MoveKnown, MoveLimit
<1>4. CASE Obey
  BY <1>4, ObeyKnown, ObeyLimit
<1>5. CASE Burst
  BY <1>5, BurstKnown, LinkLimit
<1>6. CASE cleanup_reconnect
  BY <1>6, LinkLimit DEF cleanup_reconnect, KnownInv
<1>7. CASE CheckLimits
  <2>1. PICK lines \in Seq(Line) : Send(lines)
    BY <1>7, LimitsSent
  <2>2. UNCHANGED <<linked, users, toServices, members>>
    BY <1>7 DEF CheckLimits, network
  <2>3. KnownInv'
    BY <2>1, <2>2, SendKicks, StillKnown
  <2> QED BY <1>7, <2>3, CheckLimit
<1>8. CASE CheckTimebans
  <2>1. PICK lines \in Seq(Line) : Send(lines)
    BY <1>8, Lifted
  <2>2. UNCHANGED <<linked, users, toServices, members>>
    BY <1>8 DEF CheckTimebans, network
  <2>3. KnownInv'
    BY <2>1, <2>2, SendKicks, StillKnown
  <2> QED BY <1>8, <2>3, LiftLimit
<1>9. ASSUME NEW c \in Chans, NEW m \in Masks,
             bot_unban(c, m) \/ \E Q \in SUBSET members[c], until \in {"running", "forever"} : bot_tb(c, m, until, Q)
      PROVE  KnownInv' /\ LimitInv'
  <2>1. CASE bot_unban(c, m)
    <3>1. <<Ban("-b", c, m)>> \in Seq(Line) /\ Send(<<Ban("-b", c, m)>>)
      BY <2>1, Lines DEF bot_unban, UnbanLines
    <3>2. UNCHANGED <<linked, users, toServices, members>>
      BY <2>1 DEF bot_unban, network
    <3> QED BY <1>9, <3>1, <3>2, SendKicks, StillKnown, OrderLimit
  <2>2. CASE \E Q \in SUBSET members[c], until \in {"running", "forever"} : bot_tb(c, m, until, Q)
    BY <1>9, <2>2, OrderKnown, OrderLimit
  <2> QED BY <1>9, <2>1, <2>2
<1>10. ASSUME NEW c \in Chans,
              \/ chan_register(c) \/ chandrop(c) \/ chan_clearbans(c) \/ LimitDue(c)
              \/ \E a \in AutoLimits : chan_set_autolimit(c, a)
              \/ \E m \in Masks : BanOver(c, m) \/ \E until : bot_tb_refused(c, m, until)
       PROVE  KnownInv' /\ LimitInv'
  <2>1. UNCHANGED <<linked, users, toServices, members, toNet>>
    BY <1>10 DEF chan_register, chandrop, chan_clearbans, LimitDue, chan_set_autolimit, BanOver,
                 bot_tb_refused, network
  <2> QED BY <1>10, <2>1, StillKnown, OwnerLimit
<1>11. ASSUME NEW c \in Chans, Meddles(c) \/ \E n \in ModeLimits : SetLimit(c, n)
       PROVE  KnownInv' /\ LimitInv'
  <2>1. UNCHANGED <<linked, users, toServices, members>>
    <3>1. CASE Meddles(c)
      BY <3>1, Meddled DEF network
    <3>2. CASE \E n \in ModeLimits : SetLimit(c, n)
      BY <3>2 DEF SetLimit, services
    <3> QED BY <1>11, <3>1, <3>2
  <2>2. \A d, v : KickSent(toNet, d, v) => KickSent(toNet', d, v)
    <3>1. CASE Meddles(c)
      BY <3>1, Meddled, SendKicks
    <3>2. CASE \E n \in ModeLimits : SetLimit(c, n)
      BY <3>2 DEF SetLimit
    <3> QED BY <1>11, <3>1, <3>2
  <2> QED BY <1>11, <2>1, <2>2, StillKnown, MeddleLimit
<1>12. CASE Command
  <2>1. PICK c \in Chans :
          \/ chan_register(c) \/ chandrop(c) \/ chan_clearbans(c)
          \/ Meddles(c) \/ \E u \in Users : chan_kick(c, u)
          \/ \E a \in AutoLimits : chan_set_autolimit(c, a)
          \/ \E m \in Masks : bot_unban(c, m)
               \/ \E until \in {"running", "forever"} :
                    bot_tb_refused(c, m, until) \/ \E Q \in SUBSET members[c] : bot_tb(c, m, until, Q)
    BY <1>12 DEF Command, Meddles
  <2>2. CASE \/ chan_register(c) \/ chandrop(c) \/ chan_clearbans(c)
             \/ \E a \in AutoLimits : chan_set_autolimit(c, a)
    BY <1>10, <2>2
  <2>3. ASSUME NEW m \in Masks, bot_unban(c, m) PROVE KnownInv' /\ LimitInv'
    BY <1>9, <2>3
  <2>4. ASSUME NEW m \in Masks, NEW until \in {"running", "forever"}, bot_tb_refused(c, m, until)
        PROVE  KnownInv' /\ LimitInv'
    BY <1>10, <2>4
  <2>5. ASSUME NEW m \in Masks, NEW until \in {"running", "forever"}, NEW Q \in SUBSET members[c],
               bot_tb(c, m, until, Q)
        PROVE  KnownInv' /\ LimitInv'
    BY <1>9, <2>5
  <2>6. ASSUME NEW u \in Users, chan_kick(c, u) PROVE KnownInv' /\ LimitInv'
    BY <2>6, KickKnown, PartLimit
  <2>7. CASE Meddles(c)
    BY <1>11, <2>7
  <2> QED BY <2>1, <2>2, <2>3, <2>4, <2>5, <2>6, <2>7
<1>13. CASE Clock
  <2>1. PICK c \in Chans : LimitDue(c) \/ \E m \in Masks : BanOver(c, m)
    BY <1>13 DEF Clock
  <2> QED BY <1>10, <2>1
<1>14. CASE \E c \in Chans, n \in ModeLimits : SetLimit(c, n)
  BY <1>11, <1>14
<1> QED BY <1>1, <1>2, <1>3, <1>4, <1>5, <1>6, <1>7, <1>8, <1>12, <1>13, <1>14 DEF Next

\* With nothing under way and no limit waiting, the services know every user of a channel,
\* and the network's limit is the number of members with AUTOLIMIT and, but under NOJOIN,
\* one more, unless someone else changed mode l or NOJOIN since, with any number of
\* channels, of users and of lines that crossed each other before (AddLimit and its
\* callers, CheckLimits, clear_limits).
THEOREM LimitsCorrect == Spec => []LimitFollowsUsers
<1>1. Init => KnownInv /\ LimitInv
  BY DEF Init, KnownInv, LimitInv
<1>2. TypeInv /\ KnownInv /\ LimitInv /\ [Next]_vars => (KnownInv /\ LimitInv)'
  BY NextLimit
<1>3. TypeInv /\ KnownInv /\ LimitInv => LimitFollowsUsers
  <2> SUFFICES ASSUME TypeInv, KnownInv, LimitInv, linked, toServices = <<>>, toNet = <<>>,
                      NEW c \in registered, autolimit[c] > 0, limit[c] = "none", users[c] # {}
               PROVE  users[c] \subseteq members[c] /\ (c \notin stale => netlimit[c] = Room(c))
    BY DEF LimitFollowsUsers, Room
  <2>1. c \in Chans
    BY DEF TypeInv, TableType
  <2>2. users[c] \subseteq members[c]
    BY <2>1 DEF KnownInv, Known, KickSent, Joining
  <2>3. ASSUME c \notin stale PROVE netlimit[c] = Room(c)
    <3>1. Settled(c)
      BY <2>2, <2>3 DEF Settled, JoinSent
    <3>2. Ends(<<>>, netlimit, c, Room(c))
      BY <3>1 DEF LimitInv
    <3> QED BY <3>2 DEF Ends, LimitSent
  <2> QED BY <2>2, <2>3
<1> QED BY <1>1, <1>2, <1>3, TypesKept, PTL DEF Spec

=============================================================================
