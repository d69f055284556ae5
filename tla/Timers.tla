------------------------------- MODULE Timers -------------------------------
(***************************************************************************)
(* What a registered channel has waiting for its time: the new limit that  *)
(* follows its number of users (AUTOLIMIT) and the bans that end (!tb).    *)
(* Both act on the network through lines that may be lost with the link,   *)
(* and both hold a pointer to the channel.                                 *)
(*                                                                         *)
(* Operators ending in _slip are faulty variants, used by no specification *)
(* (README, "What the properties can see").                                *)
(***************************************************************************)
EXTENDS Integers, FiniteSets, SequencesExt

CONSTANTS
  Chans,      \* channels
  Masks,      \* masks of bans
  AutoLimits, \* values of AUTOLIMIT, 0 for off
  Users,      \* the network's users
  Host,       \* the mask *!*@host of each user
  ModeLimits, \* numbers that others give mode l, 0 for -l
  MaxOrders,  \* bound: time bans, kicks, and what others do to limits and bans
  MaxPending  \* bound: lines under way when a user comes, goes or gives a command

ASSUME TimersFinite == IsFiniteSet(Chans) /\ IsFiniteSet(Masks) /\ IsFiniteSet(Users)
ASSUME TimersHosts == Host \in [Users -> Masks]
ASSUME TimersBounds == {MaxOrders, MaxPending} \subseteq Nat
ASSUME TimersLimits == AutoLimits \subseteq Nat /\ 0 \in AutoLimits /\ ModeLimits \subseteq Nat

VARIABLES
  registered, \* the registered channels
  autolimit,  \* chan->autolimit
  nojoin,     \* the channels with COPT_NOJOIN
  limit,      \* chan->active_autolimit and its entry in core->limits: none, or until when it waits
  timeban,    \* core->timebans and chan->timebans: none, or until when the ban of a mask lasts
  members,    \* the services' wchan of each channel, {} without one
  linked,     \* core->eos
  users,      \* the network's users of each channel
  netlimit,   \* the network's limit of each channel, 0 for none
  bans,       \* the network's bans of each channel
  toServices, \* lines the services have not read
  toNet,      \* lines the uplink has not read
  loose,      \* bans no entry watches: see BansAreWatched
  stale,      \* channels whose mode l or NOJOIN changed since CheckLimits sent a limit
  orders,     \* what MaxOrders bounds, so far
  fault       \* a channel or a wchan was freed that is still pointed to

services == <<registered, autolimit, nojoin, limit, timeban, members, linked>>
network == <<users, netlimit, bans>>
vars == <<services, network, toServices, toNet, loose, stale, orders, fault>>

LimitStates == {"none", "waiting", "due"}
BanStates == {"none", "running", "over", "forever"}

Line == [cmd : {"+b", "-b"}, chan : Chans, mask : Masks]
        \cup [cmd : {"+l"}, chan : Chans, to : Nat] \cup [cmd : {"KICK"}, chan : Chans, user : Users]
        \cup [cmd : {"SVSMODE"}, chan : Chans]

TypeOK ==
  /\ {registered, nojoin, stale} \subseteq SUBSET Chans /\ {linked, fault} \subseteq BOOLEAN
  /\ autolimit \in [Chans -> AutoLimits] /\ limit \in [Chans -> LimitStates]
  /\ timeban \in [Chans -> [Masks -> BanStates]]
  /\ {members, users} \subseteq [Chans -> SUBSET Users]
  /\ netlimit \in [Chans -> Nat] /\ bans \in [Chans -> SUBSET Masks]
  /\ Range(toServices) \subseteq {"JOIN", "PART"} \X Chans \X Users
  /\ Range(toNet) \subseteq Line
  /\ loose \subseteq Chans \X Masks /\ orders \in 0 .. MaxOrders

\* After a use of what was freed there is no telling: the model stops.
Sound == ~fault /\ UNCHANGED fault

Ban(cmd, c, m) == [cmd |-> cmd, chan |-> c, mask |-> m]
Kick(c, u) == [cmd |-> "KICK", chan |-> c, user |-> u]
Limit(c, n) == [cmd |-> "+l", chan |-> c, to |-> n]   \* -l for 0
Unban(c) == [cmd |-> "SVSMODE", chan |-> c]           \* every ban of the channel

\* Without a link the lines are lost: they precede the next handshake, or the
\* disconnection discards them.
Send(lines) == toNet' = IF linked THEN toNet \o lines ELSE toNet

-----------------------------------------------------------------------------
(* Limits *)

\* AddLimit after a member came or went; a limit that waits waits anew.
Renewed_slip(c) == limit

Renewed(c) == IF c \in registered /\ autolimit[c] > 0 THEN [limit EXCEPT ![c] = "waiting"] ELSE limit

\* Whom an entry names is banned, by the mask of the host, which need not be the
\* entry's, and kicked, unless KickUser spares him for his mode q.
m_join ==
  LET c == Head(toServices)[2]
      u == Head(toServices)[3]
      joined == [members EXCEPT ![c] = @ \cup {u}]
      ban == Ban("+b", c, Host[u])
  IN /\ toServices # <<>> /\ Head(toServices)[1] = "JOIN"
     /\ toServices' = Tail(toServices) /\ limit' = Renewed(c)
     /\ \/ members' = joined /\ UNCHANGED <<toNet, loose>>
        \/ /\ c \in registered /\ \E m \in Masks : timeban[c][m] # "none"
           /\ \/ members' = joined /\ Send(<<ban>>)
              \/ UNCHANGED members /\ Send(<<ban, Kick(c, u)>>)
           /\ loose' = IF timeban[c][Host[u]] = "none" THEN loose \cup {<<c, Host[u]>>} ELSE loose
     /\ Sound /\ UNCHANGED <<registered, autolimit, nojoin, timeban, linked, network, stale, orders>>

\* DeleteUserFromWchan: the last member takes the wchan along, and the limit waits
\* for nobody.
Leave(c, Q) ==
  /\ members' = [members EXCEPT ![c] = @ \ Q]
  /\ limit' = IF members[c] \cap Q = {} \/ members[c] \subseteq Q THEN limit ELSE Renewed(c)

m_part ==
  /\ toServices # <<>> /\ Head(toServices)[1] = "PART"
  /\ toServices' = Tail(toServices) /\ Leave(Head(toServices)[2], {Head(toServices)[3]})
  /\ Sound /\ UNCHANGED <<registered, autolimit, nojoin, timeban, linked, network, toNet, loose, stale, orders>>

\* CHAN KICK, !kick, !opopop and the like, of one nick, be he there or not, and m_join's
\* of one with the access akick.
chan_kick(c, u) ==
  /\ c \in registered /\ linked /\ orders < MaxOrders /\ Len(toNet) < MaxPending /\ orders' = orders + 1
  /\ Leave(c, {u}) /\ Send(<<Kick(c, u)>>)
  /\ Sound /\ UNCHANGED <<registered, autolimit, nojoin, timeban, linked, network, toServices, loose, stale>>

chan_set_autolimit(c, a) ==
  /\ c \in registered /\ linked /\ Len(toNet) < MaxPending
  /\ autolimit' = [autolimit EXCEPT ![c] = a]
  /\ limit' = IF a > 0 THEN [limit EXCEPT ![c] = "waiting"] ELSE limit
  /\ Sound /\ UNCHANGED <<registered, nojoin, timeban, members, linked, network, toServices, toNet, loose, stale, orders>>

LimitDue(c) ==
  /\ limit[c] = "waiting" /\ limit' = [limit EXCEPT ![c] = "due"]
  /\ Sound /\ UNCHANGED <<registered, autolimit, nojoin, timeban, members, linked, network, toServices, toNet, loose, stale, orders>>

\* With room for the services' own place, if they are in the channel.
Room(c) == Cardinality(members[c]) + autolimit[c] + (IF c \in nojoin THEN 0 ELSE 1)

\* Every limit that is due is sent, unless nobody is there, and forgotten.
CheckLimits ==
  LET due == {c \in Chans : limit[c] = "due"}
  IN /\ due # {}
     /\ limit' = [c \in Chans |-> IF c \in due THEN "none" ELSE limit[c]]
     /\ \E s \in SetToSeqs({c \in due : members[c] # {}}) : Send([i \in DOMAIN s |-> Limit(s[i], Room(s[i]))])
     /\ stale' = stale \ {c \in due : members[c] # {}}
     /\ Sound /\ UNCHANGED <<registered, autolimit, nojoin, timeban, members, linked, network, toServices, loose, orders>>

-----------------------------------------------------------------------------
(* Time bans *)

\* !tb, with a duration that comes to an end, be it at once, or is -1; a ban of the
\* same mask takes the new duration.  Q are the members the mask matches and the
\* command may kick: with the last of them goes the wchan, whose name the +b needs.
bot_tb(c, m, until, Q) ==
  /\ c \in registered /\ linked /\ members[c] # {} /\ orders < MaxOrders /\ Len(toNet) < MaxPending
  /\ timeban' = [timeban EXCEPT ![c][m] = until]
  /\ \E s \in SetToSeqs(Q) : Send([i \in DOMAIN s |-> Kick(c, s[i])] \o <<Ban("+b", c, m)>>)
  /\ Leave(c, Q) /\ ~fault /\ fault' = (members[c] = Q)
  /\ loose' = loose \ {<<c, m>>} /\ orders' = orders + 1
  /\ UNCHANGED <<registered, autolimit, nojoin, linked, network, toServices, stale>>

\* !tb of a nick it may not ban: the entry is there, the ban is not.
bot_tb_refused(c, m, until) ==
  /\ c \in registered /\ linked /\ members[c] # {} /\ orders < MaxOrders /\ Len(toNet) < MaxPending
  /\ timeban' = [timeban EXCEPT ![c][m] = until]
  /\ loose' = loose \ {<<c, m>>} /\ orders' = orders + 1
  /\ Sound /\ UNCHANGED <<registered, autolimit, nojoin, limit, members, linked, network, toServices, toNet, stale>>

\* !unban: the mask's entry is deleted, if there is one; the _slip keeps quiet
\* when there is one.
UnbanLines_slip(c, m) == IF timeban[c][m] = "none" THEN <<Ban("-b", c, m)>> ELSE <<>>

UnbanLines(c, m) == <<Ban("-b", c, m)>>

bot_unban(c, m) ==
  /\ c \in registered /\ linked /\ members[c] # {} /\ Len(toNet) < MaxPending
  /\ timeban' = [timeban EXCEPT ![c][m] = "none"]
  /\ Send(UnbanLines(c, m))
  /\ Sound /\ UNCHANGED <<registered, autolimit, nojoin, limit, members, linked, network, toServices, loose, stale, orders>>

\* CLEARBANS deletes the entries and leaves the network's bans.
chan_clearbans(c) ==
  /\ c \in registered /\ linked /\ Len(toNet) < MaxPending
  /\ timeban' = [timeban EXCEPT ![c] = [m \in Masks |-> "none"]]
  /\ loose' = loose \cup {<<c, m>> : m \in {n \in Masks : timeban[c][n] # "none"}}
  /\ Sound /\ UNCHANGED <<registered, autolimit, nojoin, limit, members, linked, network, toServices, toNet, stale, orders>>

BanOver(c, m) ==
  /\ timeban[c][m] = "running" /\ timeban' = [timeban EXCEPT ![c][m] = "over"]
  /\ Sound /\ UNCHANGED <<registered, autolimit, nojoin, limit, members, linked, network, toServices, toNet, loose, stale, orders>>

Ended_slip(state) == state = "forever"   \* only -1 is tested

Ended(state) == state = "over"

\* Every ban whose time is over is lifted and forgotten, linked or not.
CheckTimebans ==
  LET over == {b \in Chans \X Masks : Ended(timeban[b[1]][b[2]])}
  IN /\ over # {}
     /\ timeban' = [c \in Chans |-> [m \in Masks |-> IF <<c, m>> \in over THEN "none" ELSE timeban[c][m]]]
     /\ \E s \in SetToSeqs(over) : Send([i \in DOMAIN s |-> Ban("-b", s[i][1], s[i][2])])
     /\ loose' = IF linked THEN loose ELSE loose \cup {b \in over : b[2] \in bans[b[1]]}
     /\ Sound /\ UNCHANGED <<registered, autolimit, nojoin, limit, members, linked, network, toServices, stale, orders>>

-----------------------------------------------------------------------------
(* Commands that leave limits and entries as they are *)

Commanded(c) ==
  /\ c \in registered /\ linked /\ orders < MaxOrders /\ Len(toNet) < MaxPending /\ orders' = orders + 1
  /\ Sound /\ UNCHANGED <<registered, autolimit, limit, timeban, members, linked, network, toServices, loose>>

\* SET NOJOIN that changes something, and ASSIGN, which sets it.
chan_set_nojoin(c, on) ==
  /\ on # (c \in nojoin) /\ nojoin' = IF on THEN nojoin \cup {c} ELSE nojoin \ {c}
  /\ stale' = stale \cup {c}
  /\ Commanded(c) /\ UNCHANGED toNet

\* SET MLOCK with a mode l, and whatever else sends the locked modes once more: joining
\* a channel, and m_mode where a user changes one of them.
chan_set_mlock(c, n) ==
  /\ Send(<<Limit(c, n)>>) /\ stale' = stale \cup {c}
  /\ Commanded(c) /\ UNCHANGED nojoin

chan_clearmodes(c) ==
  /\ Send(<<Limit(c, 0)>>) /\ stale' = stale \cup {c}
  /\ Commanded(c) /\ UNCHANGED nojoin

chan_clearchan(c) ==
  /\ Send(<<Limit(c, 0), Unban(c)>>) /\ stale' = stale \cup {c}
  /\ Commanded(c) /\ UNCHANGED nojoin

chan_unbanall(c) ==
  /\ Send(<<Unban(c)>>)
  /\ Commanded(c) /\ UNCHANGED <<nojoin, stale>>

-----------------------------------------------------------------------------
(* Channels and the link *)

chan_register(c) ==
  /\ c \notin registered /\ linked /\ members[c] # {}
  /\ registered' = registered \cup {c} /\ autolimit' = [autolimit EXCEPT ![c] = 0] /\ nojoin' = nojoin \ {c}
  /\ Sound /\ UNCHANGED <<limit, timeban, members, linked, network, toServices, toNet, loose, stale, orders>>

\* The entries keep their pointer to the channel.
chandrop(c) ==
  /\ c \in registered /\ registered' = registered \ {c}
  /\ autolimit' = [autolimit EXCEPT ![c] = 0] /\ nojoin' = nojoin \ {c}
  /\ ~fault /\ fault' = (limit[c] # "none" \/ \E m \in Masks : timeban[c][m] # "none")
  /\ UNCHANGED <<limit, timeban, members, linked, network, toServices, toNet, loose, stale, orders>>

\* Limits go with the link, bans stay.
cleanup_reconnect ==
  /\ linked /\ linked' = FALSE
  /\ members' = [c \in Chans |-> {}] /\ limit' = [c \in Chans |-> "none"]
  /\ toServices' = <<>> /\ toNet' = <<>>
  /\ loose' = loose \cup {b \in Chans \X Masks :
                            b[2] \in bans[b[1]] /\ Ban("-b", b[1], b[2]) \in Range(toNet)}
  /\ Sound /\ UNCHANGED <<registered, autolimit, nojoin, timeban, network, stale, orders>>

\* The uplink's burst brings every user of every channel.
Burst ==
  /\ ~linked /\ linked' = TRUE
  /\ \E s \in SetToSeqs({b \in Chans \X Users : b[2] \in users[b[1]]}) :
       toServices' = [i \in DOMAIN s |-> <<"JOIN", s[i][1], s[i][2]>>]
  /\ Sound /\ UNCHANGED <<registered, autolimit, nojoin, limit, timeban, members, network, toNet, loose, stale, orders>>

-----------------------------------------------------------------------------
(* The network *)

Tell(cmd, c, u) ==
  /\ Len(toServices) < MaxPending /\ Len(toNet) <= MaxPending
  /\ toServices' = IF linked THEN Append(toServices, <<cmd, c, u>>) ELSE toServices

Join(c, u) ==
  /\ u \notin users[c] /\ Len(toNet) < MaxPending
  /\ users' = [users EXCEPT ![c] = @ \cup {u}] /\ Tell("JOIN", c, u)
  /\ Sound /\ UNCHANGED <<services, netlimit, bans, toNet, loose, stale, orders>>

\* With its last user the network forgets a channel.
Without(c, u) ==
  /\ users' = [users EXCEPT ![c] = @ \ {u}]
  /\ IF users[c] = {u} THEN /\ netlimit' = [netlimit EXCEPT ![c] = 0] /\ bans' = [bans EXCEPT ![c] = {}]
                       ELSE UNCHANGED <<netlimit, bans>>

Part(c, u) ==
  /\ u \in users[c] /\ Without(c, u) /\ Tell("PART", c, u)
  /\ Sound /\ UNCHANGED <<services, toNet, loose, stale, orders>>

\* The services take no notice of mode l.
SetLimit(c, n) ==
  /\ users[c] # {} /\ orders < MaxOrders /\ orders' = orders + 1
  /\ netlimit' = [netlimit EXCEPT ![c] = n] /\ stale' = stale \cup {c}
  /\ Sound /\ UNCHANGED <<services, users, bans, toServices, toNet, loose>>

\* A mode for a channel that is gone changes nothing.
Mode(o) ==
  /\ netlimit' = IF o.cmd = "+l" /\ users[o.chan] # {} THEN [netlimit EXCEPT ![o.chan] = o.to] ELSE netlimit
  /\ bans' = CASE o.cmd = "+b" /\ users[o.chan] # {} -> [bans EXCEPT ![o.chan] = @ \cup {o.mask}]
               [] o.cmd = "-b" -> [bans EXCEPT ![o.chan] = @ \ {o.mask}]
               [] o.cmd = "SVSMODE" -> [bans EXCEPT ![o.chan] = {}]
               [] OTHER -> bans
  /\ UNCHANGED users

Obey ==
  LET o == Head(toNet)
      again == {k \in DOMAIN toNet : toNet[k].cmd = "+b" /\ toNet[k].chan = o.chan /\ toNet[k].mask = o.mask}
  IN /\ toNet # <<>> /\ toNet' = Tail(toNet)
     /\ IF o.cmd = "KICK" THEN Without(o.chan, o.user) ELSE Mode(o)
     /\ loose' = IF o.cmd = "-b" /\ again = {} THEN loose \ {<<o.chan, o.mask>>} ELSE loose
     /\ Sound /\ UNCHANGED <<services, toServices, stale, orders>>

-----------------------------------------------------------------------------

Init ==
  /\ registered = {} /\ autolimit = [c \in Chans |-> 0] /\ nojoin = {} /\ stale = {}
  /\ limit = [c \in Chans |-> "none"] /\ timeban = [c \in Chans |-> [m \in Masks |-> "none"]]
  /\ members = [c \in Chans |-> {}] /\ linked = TRUE
  /\ users = [c \in Chans |-> {}] /\ netlimit = [c \in Chans |-> 0] /\ bans = [c \in Chans |-> {}]
  /\ toServices = <<>> /\ toNet = <<>> /\ loose = {} /\ orders = 0 /\ fault = FALSE

Command ==
  \E c \in Chans :
    \/ chan_register(c) \/ chandrop(c) \/ chan_clearbans(c)
    \/ chan_clearmodes(c) \/ chan_clearchan(c) \/ chan_unbanall(c)
    \/ \E on \in BOOLEAN : chan_set_nojoin(c, on)
    \/ \E n \in ModeLimits : chan_set_mlock(c, n)
    \/ \E u \in Users : chan_kick(c, u)
    \/ \E a \in AutoLimits : chan_set_autolimit(c, a)
    \/ \E m \in Masks : bot_unban(c, m)
         \/ \E until \in {"running", "forever"} :
              bot_tb_refused(c, m, until) \/ \E Q \in SUBSET members[c] : bot_tb(c, m, until, Q)

Clock == \E c \in Chans : LimitDue(c) \/ \E m \in Masks : BanOver(c, m)

Next ==
  \/ m_join \/ m_part \/ Command \/ Clock \/ CheckLimits \/ CheckTimebans
  \/ cleanup_reconnect \/ Burst \/ Obey
  \/ \E c \in Chans, u \in Users : Join(c, u) \/ Part(c, u)
  \/ \E c \in Chans, n \in ModeLimits : SetLimit(c, n)

Spec == Init /\ [][Next]_vars

\* Time passes, the main loop looks at every entry on each turn, and the uplink
\* reads what it is sent.
FairSpec ==
  /\ Spec
  /\ \A c \in Chans, m \in Masks : WF_vars(BanOver(c, m))
  /\ WF_vars(CheckTimebans) /\ WF_vars(Obey)

-----------------------------------------------------------------------------
(* Properties *)

\* With nothing under way and no limit waiting, the services know every user of a
\* channel, and the network's limit is what AUTOLIMIT adds to the members they know,
\* with one more for the services themselves unless NOJOIN keeps them out, however users
\* came, went and were kicked and whatever the loss of a link took (AddLimit and its
\* callers, CheckLimits, clear_limits).  Who else gives mode l a value, or changes NOJOIN,
\* is not answered before somebody comes or goes.
LimitFollowsUsers ==
  linked /\ toServices = <<>> /\ toNet = <<>> =>
    \A c \in registered :
      autolimit[c] > 0 /\ limit[c] = "none" /\ users[c] # {} =>
        /\ users[c] \subseteq members[c]
        /\ c \notin stale =>
             netlimit[c] = Cardinality(members[c]) + autolimit[c] + (IF c \in nojoin THEN 0 ELSE 1)

\* A ban that !tb or m_join set is one whose end the services watch, but for those whose
\* end was lost with the link or forgotten by CLEARBANS and those m_join set on a host
\* of its own (bot_tb, bot_unban, CheckTimebans, UNBANALL).
BansAreWatched ==
  toNet = <<>> => \A c \in Chans : \A m \in bans[c] : timeban[c][m] # "none" \/ <<c, m>> \in loose

\* A ban for a time ends, unless it is made to last, or its end is lost (CheckTimebans).
BansEnd ==
  \A c \in Chans, m \in Masks :
    (m \in bans[c] /\ timeban[c][m] = "running")
      ~> (m \notin bans[c] \/ timeban[c][m] = "forever" \/ <<c, m>> \in loose \/ fault)

=============================================================================
