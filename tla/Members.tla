------------------------------ MODULE Members ------------------------------
(***************************************************************************)
(* The services' picture of who is in which channel of the network (struct *)
(* wchan, struct member) and with which statuses, beside the network       *)
(* itself.                                                                 *)
(*                                                                         *)
(* Both sides act at once.  The network tells of joins, parts, kicks and   *)
(* modes in toServices; the services kick, op and deop in toNet, and       *)
(* change their own tables as they send, without waiting.  So a line may   *)
(* speak of a situation that its reader has already changed.               *)
(*                                                                         *)
(* A handler is one action.  The functions it calls are operators on a     *)
(* record of what they change (Tables), named as in the code.  A handler   *)
(* that reads a wchan or a member it has freed, or a NULL pointer, has no  *)
(* meaning in C: it sets fault, and the model stops there.                 *)
(*                                                                         *)
(* Nobody changes nick here (Sessions), and an access, as find_cflag_      *)
(* recursive finds it, is given once and for all (Channels, Links).        *)
(*                                                                         *)
(* Operators ending in _slip are faulty variants, used by no specification *)
(* (README, "What the properties can see").                                *)
(***************************************************************************)
EXTENDS Integers, SequencesExt

CONSTANTS
  Nicks,       \* connections, by their nick names
  Users,       \* the registered accounts among those names
  Chans,       \* channel names
  Nokick,      \* those with the user mode q, whom the services do not kick
  Bot,         \* the services' own nick in a channel
  None,        \* no account, no access
  Statuses,    \* the statuses that occur, a subset of "q", "a", "o", "h", "v"
  Settings,    \* what a run may start from, see below
  MaxPending,  \* bound: the network acts while fewer lines wait in toServices
  MaxCopies    \* bound: a nick rejoins while the services list it fewer times

(***************************************************************************)
(* The levels of the configuration, as ranks in the same order.            *)
(***************************************************************************)
Akick    == -2
NoStatus == -1
Voice    == 1
Halfop   == 2
Op       == 3
Admin    == 4
Founder  == 5

(***************************************************************************)
(* What a struct cflag comes to.  level: what GetFlag returns; auto: the   *)
(* statuses that sync_cflag gives, from the automode and the level or from *)
(* the chanflags; strips, kicks: whether it takes the statuses away or     *)
(* kicks.  A suspended access is no access, but for a founder's, which is   *)
(* left out.                                                               *)
(***************************************************************************)
Cflag == [level : Akick..Founder, auto : SUBSET Statuses,
          strips : BOOLEAN, kicks : BOOLEAN]

Options == {"AXXFLAGS", "STRICTOP", "PROTECTOPS", "SECURE", "AOP", "AVOICE",
            "NOAUTO"}

\* The optional inputs.  "sasl": a connection arrives identified to an account;
\* "relink": the services lose the uplink and link again; "modes": there are
\* statuses, and users change them.
AllFeatures == {"sasl", "relink", "modes"}

\* A setting has the accesses to a channel that a user may have, the sets of options
\* a channel may have (None if it is not registered), the optional inputs, and the
\* bound sent: the services act while fewer lines wait in toNet.

ASSUME Finite == IsFiniteSet(Nicks) /\ IsFiniteSet(Chans)
ASSUME UsersAreNames == Users \cup Nokick \subseteq Nicks
ASSUME Fresh == None \notin Users \cup Cflag /\ Bot \notin Nicks
ASSUME StatusesKnown == Statuses \subseteq {"q", "a", "o", "h", "v"}
ASSUME SettingsKnown ==
  \A x \in Settings : /\ DOMAIN x = {"accesses", "options", "features", "sent"}
                      /\ x.accesses \subseteq Cflag \cup {None}
                      /\ x.options \subseteq (SUBSET Options) \cup {None}
                      /\ x.features \subseteq AllFeatures /\ x.sent \in Nat \ {0}
ASSUME BoundsArePositive == {MaxPending, MaxCopies} \subseteq Nat \ {0}

VARIABLES
  nicks,       \* core->nicks
  account,     \* nick->account
  wchans,      \* core->wchans: a list of members for each channel in it
  fault,       \* a handler has used memory it may not use
  access,      \* the access of each user to each channel
  options,     \* chan->options, or None if the channel is not registered
  setting,     \* the setting of this run
  online,      \* the network: who is connected,
  net,         \*   and in which channel, each with the statuses held there
  toServices,  \* lines under way to the services
  toNet        \* lines under way to the network

services == <<nicks, account, wchans, fault>>
network  == <<online, net>>
given    == <<access, options, setting>>
vars     == <<nicks, account, wchans, fault, access, options, setting, online, net,
              toServices, toNet>>

\* The statuses there are.
InUse == IF "modes" \in setting.features THEN Statuses ELSE {}

Member == [nick : Nicks, flags : SUBSET Statuses]

\* Who gave a status: a user, the services, or a server in SJOIN.
Givers == {"user", "services", "server"}

TypeOK ==
  /\ nicks \subseteq Nicks
  /\ account \in [Nicks -> Users \cup {None}]
  /\ DOMAIN wchans \subseteq Chans
  /\ \A c \in DOMAIN wchans : wchans[c] \in Seq(Member)
  /\ fault \in BOOLEAN
  /\ setting \in Settings
  /\ access \in [Chans -> [Users -> setting.accesses]]
  /\ options \in [Chans -> setting.options]
  /\ online \subseteq Nicks
  /\ DOMAIN net = Chans
  /\ \A c \in Chans : /\ DOMAIN net[c] \subseteq online
                      /\ \A n \in DOMAIN net[c] :
                           net[c][n] \subseteq Statuses \X Givers

-----------------------------------------------------------------------------
(* What the code looks up *)

Registered(c)   == options[c] # None
HasOption(c, o) == Registered(c) /\ o \in options[c]

\* The nick's own account, else the one its name names.
find_account(n) ==
  IF account[n] # None THEN account[n] ELSE IF n \in Users THEN n ELSE None

Sessions(u) == {n \in nicks : account[n] = u}

IsAuthed(u) == u # None /\ Sessions(u) # {}

HasAccess(u, c) == u # None /\ Registered(c) /\ access[c][u] # None

GetFlag(u, c) == IF HasAccess(u, c) THEN access[c][u].level ELSE 0

\* The level a status asks for in a channel with STRICTOP or PROTECTOPS.
LevelFor(s) == CASE s = "q" -> Founder
                 [] s = "a" -> Admin
                 [] s = "o" -> Op
                 [] s = "h" -> Halfop

Entitled(u, c, s) == IsAuthed(u) /\ GetFlag(u, c) >= LevelFor(s)

-----------------------------------------------------------------------------
(***************************************************************************)
(* The tables a handler works on: wchans, the lines it has sent, and       *)
(* whether it has touched freed memory.                                    *)
(***************************************************************************)
Tables == [wchans |-> wchans, sent |-> <<>>, fault |-> FALSE]

Send(T, m)  == [T EXCEPT !.sent = Append(@, m)]
Faulty(T)   == [T EXCEPT !.fault = TRUE]
Exists(T, c) == c \in DOMAIN T.wchans

\* The first record of n in the list, 0 if there is none.
find_member(T, c, n) ==
  IF Exists(T, c) THEN SelectInSeq(T.wchans[c], LAMBDA m : m.nick = n) ELSE 0

IsMember(T, c, n) == find_member(T, c, n) # 0
FlagsOf(T, c, n)  == T.wchans[c][find_member(T, c, n)].flags

\* The function f with the value v for x.
Put(f, x, v) == [y \in DOMAIN f \cup {x} |-> IF y = x THEN v ELSE f[y]]

WithList(T, c, list) == [T EXCEPT !.wchans = Put(@, c, list)]

CreateWchan(T, c) == IF Exists(T, c) THEN T ELSE WithList(T, c, <<>>)

AddUserToWchan(T, n, c, flags) ==
  WithList(T, c, Append(T.wchans[c], [nick |-> n, flags |-> flags]))

SetFlags(T, c, n, flags) ==
  WithList(T, c, [T.wchans[c] EXCEPT ![find_member(T, c, n)] = [nick |-> n, flags |-> flags]])

\* The channel stays in the table when its last member goes.
DeleteUserFromWchan_slip(T, n, c) ==
  IF ~IsMember(T, c, n) THEN T
  ELSE WithList(T, c, RemoveAt(T.wchans[c], find_member(T, c, n)))

\* One record of n goes, and with the last member the channel.
DeleteUserFromWchan(T, n, c) ==
  LET rest == RemoveAt(T.wchans[c], find_member(T, c, n)) IN
  IF ~IsMember(T, c, n) THEN T
  ELSE IF rest = <<>>
       THEN [T EXCEPT !.wchans = Restrict(@, DOMAIN @ \ {c})]
       ELSE WithList(T, c, rest)

DeleteUsersFromWchans_slip(T, Q) == T   \* userquit without DeleteUserFromWchans

\* A list without the records of Q.
Remaining(list, Q) ==
  LET left[i \in 0 .. Len(list)] ==
        IF i = 0 THEN <<>>
        ELSE IF list[i].nick \in Q THEN left[i - 1] ELSE Append(left[i - 1], list[i])
  IN  left[Len(list)]

\* DeleteUserFromWchans for every nick of Q: their records go from every list, and
\* so does a channel that had no others.
DeleteUsersFromWchans(T, Q) ==
  LET left == {c \in DOMAIN T.wchans : \/ T.wchans[c] = <<>>
                                       \/ \E i \in DOMAIN T.wchans[c] : T.wchans[c][i].nick \notin Q}
  IN [T EXCEPT !.wchans = [c \in left |-> Remaining(@[c], Q)]]

\* killuser for every nick of Q.
Killed(T, Q) ==
  [DeleteUsersFromWchans(T, Q) EXCEPT !.sent = @ \o SetToSeq({[type |-> "KILL", nick |-> n] : n \in Q})]

KickUser(T, n, c) ==
  IF n \notin nicks \ Nokick THEN T
  ELSE Send(DeleteUserFromWchan(T, n, c), [type |-> "KICK", nick |-> n, chan |-> c])

SetStatus(T, n, c, flags, what) ==
  IF ~IsMember(T, c, n) \/ flags = {} THEN T
  ELSE Send(SetFlags(T, c, n, IF what THEN FlagsOf(T, c, n) \cup flags
                              ELSE FlagsOf(T, c, n) \ flags),
            [type |-> "MODE", nick |-> n, chan |-> c, what |-> what,
             flags |-> flags])

\* What a loop over a list leaves: FoldLeft, as a function of the turns taken.
Through(Each(_, _), T, list) ==
  LET after[i \in 0 .. Len(list)] == IF i = 0 THEN T ELSE Each(after[i - 1], list[i])
  IN  after[Len(list)]

(***************************************************************************)
(* sync_cflag for the access of u to c: it treats the nick that is called  *)
(* like the account, whoever that is.                                      *)
(***************************************************************************)
sync_cflag(T, u, c) ==
  LET x == access[c][u]
      known == "AXXFLAGS" \notin options[c] /\ x.auto \subseteq FlagsOf(T, c, u)
      gives == IF known THEN T ELSE SetStatus(T, u, c, x.auto, TRUE)
      strips == IF x.strips THEN SetStatus(gives, u, c, FlagsOf(gives, c, u), FALSE)
                ELSE gives
  IN IF u \notin nicks \/ ~IsMember(T, c, u) \/ HasOption(c, "NOAUTO") THEN T
     ELSE IF x.kicks THEN KickUser(strips, u, c) ELSE strips

-----------------------------------------------------------------------------
(* How handlers take lines and leave their results *)

Arrives(type) ==
  ~fault /\ Len(toNet) < setting.sent /\ toServices # <<>> /\ Head(toServices).type = type

Line == Head(toServices)

Leave(T) ==
  /\ wchans' = T.wchans
  /\ fault' = T.fault
  /\ toNet' = toNet \o T.sent
  /\ UNCHANGED <<given, network>>

\* What is left of the nicks and the sessions when the nicks Q have gone.
Gone(Q) == /\ nicks' = nicks \ Q
           /\ account' = [n \in Nicks |-> IF n \in Q THEN None ELSE account[n]]

\* n is identified to u; whoever was is killed.
user_login(n, u, Q) ==
  /\ nicks' = (nicks \ Q) \cup {n}
  /\ account' = [k \in Nicks |-> IF k = n THEN u ELSE IF k \in Q THEN None
                                 ELSE account[k]]

\* The handler of a line, which changes neither nicks nor sessions.
Handled(T) == Leave(T) /\ toServices' = Tail(toServices) /\ UNCHANGED <<nicks, account>>

\* A command of user k, who must be identified and have that level.
Commands(k, c, level) ==
  /\ ~fault /\ Len(toNet) < setting.sent
  /\ k \in nicks /\ IsAuthed(find_account(k)) /\ Registered(c)
  /\ GetFlag(find_account(k), c) >= level

-----------------------------------------------------------------------------
(* Lines from the network *)

\* A nick that SASL identified is logged in to the account of its name, or to
\* the one of the line if its name is not registered.
m_uid ==
  LET n == Line.nick
      u == IF Line.svid = None THEN None ELSE IF n \in Users THEN n ELSE Line.svid
      Q == IF u = None THEN {} ELSE Sessions(u)
  IN /\ Arrives("UID")
     /\ user_login(n, u, Q)
     /\ toServices' = Tail(toServices)
     /\ Leave(Killed(Tables, Q))

\* QUIT, KILL and SQUIT: userquit for each nick of the line.
m_quit ==
  /\ Arrives("QUIT")
  /\ Gone(Line.nicks)
  /\ toServices' = Tail(toServices)
  /\ Leave(DeleteUsersFromWchans(Tables, Line.nicks))

\* What an access makes of a nick that joins, level by level or by chanflags.
Welcome(T, n, u, c) ==
  IF ~IsAuthed(u) \/ ~HasAccess(u, c) \/ HasOption(c, "NOAUTO") THEN T
  ELSE IF HasOption(c, "AXXFLAGS") THEN sync_cflag(T, u, c)
  ELSE IF GetFlag(u, c) >= Voice THEN SetStatus(T, n, c, access[c][u].auto, TRUE)
  ELSE IF GetFlag(u, c) = Akick THEN KickUser(T, u, c)
  ELSE T

\* AOP and AVOICE, for those whom no level has dealt with.
AutoStatus(T, n, u, c) ==
  LET dealt == /\ IsAuthed(u) /\ GetFlag(u, c) # 0
               /\ ~HasOption(c, "AXXFLAGS")
      flags == {s \in Statuses : \/ s = "o" /\ HasOption(c, "AOP")
                                 \/ s = "v" /\ HasOption(c, "AVOICE")}
  IN IF HasOption(c, "NOAUTO") \/ dealt \/ (HasOption(c, "SECURE") /\ ~IsAuthed(u))
     THEN T ELSE SetStatus(T, n, c, flags, TRUE)

\* A time ban of the channel may match whoever joins.
m_join ==
  LET n == Line.nick
      c == Line.chan
      u == find_account(n)
      joined == AddUserToWchan(CreateWchan(Tables, c), n, c, {})
      greeted == AutoStatus(Welcome(joined, n, u, c), n, u, c)
  IN /\ Arrives("JOIN")
     /\ IF n \notin nicks THEN Handled(Tables)
        ELSE IF ~Registered(c) THEN Handled(joined)
        ELSE \E banned \in BOOLEAN :
               Handled(IF banned THEN KickUser(greeted, n, c) ELSE greeted)

\* It keeps its pointer to the wchan although sync_cflag may kick the only member
\* there is so far.
SjoinNick(T, c, e) ==
  LET u == find_account(e.nick)
      added == AddUserToWchan(T, e.nick, c, e.flags)
  IN IF T.fault \/ e.nick \notin nicks THEN T
     ELSE IF ~Exists(T, c) THEN Faulty(T)
     ELSE IF IsMember(T, c, e.nick) THEN T
     ELSE IF IsAuthed(u) /\ HasAccess(u, c) THEN sync_cflag(added, u, c)
     ELSE added

\* The loop over the nicks of an SJOIN.
SjoinEach(T, c, list) ==
  LET Each(t, e) == SjoinNick(t, c, e)
  IN Through(Each, T, list)

\* An SJOIN is dropped if its channel is not in the table yet.
m_sjoin_slip ==
  /\ Arrives("SJOIN")
  /\ Handled(IF Exists(Tables, Line.chan) THEN SjoinEach(Tables, Line.chan, Line.list)
             ELSE Tables)

m_sjoin ==
  /\ Arrives("SJOIN")
  /\ Handled(SjoinEach(CreateWchan(Tables, Line.chan), Line.chan, Line.list))

m_part ==
  /\ Arrives("PART")
  /\ Handled(IF Line.nick \in nicks THEN DeleteUserFromWchan(Tables, Line.nick, Line.chan)
             ELSE Tables)

\* Whoever kicks the bot is kicked, and then deleted from the wchan, which is
\* gone if nobody else was there.
KickedBot(by, c) ==
  LET kicked == KickUser(Tables, by, c)
  IN IF by \notin nicks THEN kicked
     ELSE IF ~Exists(kicked, c) THEN Faulty(kicked)
     ELSE DeleteUserFromWchan(kicked, by, c)

m_kick ==
  LET c == Line.chan IN
  /\ Arrives("KICK")
  /\ Handled(IF ~Exists(Tables, c) THEN Tables
             ELSE IF Line.nick = Bot /\ Registered(c) THEN KickedBot(Line.by, c)
             ELSE IF Line.nick \in nicks THEN DeleteUserFromWchan(Tables, Line.nick, c)
             ELSE Tables)

StrictOp_slip(T, u, c, s) == FALSE   \* the status is noted and left alone

\* Whether the services take back a status that somebody has given.
StrictOp(T, u, c, s) ==
  /\ s # "v" /\ Registered(c) /\ ~Entitled(u, c, s)
  /\ HasOption(c, "STRICTOP") \/ (s = "o" /\ Len(T.wchans[c]) = 1)

ModePlus(T, n, c, s) ==
  LET u == find_account(n)
      nostatus == IsAuthed(u) /\ GetFlag(u, c) = NoStatus
  IN IF ~IsMember(T, c, n) THEN T
     ELSE IF nostatus \/ StrictOp(T, u, c, s) THEN SetStatus(T, n, c, {s}, FALSE)
     ELSE SetFlags(T, c, n, FlagsOf(T, c, n) \cup {s})

\* The account of a nick that is not in the table is looked up, too.
ModeMinus(T, by, n, c, s) ==
  LET u == find_account(n)
      protects == /\ s \in {"q", "a", "o"} /\ HasOption(c, "PROTECTOPS")
                  /\ u # by /\ Entitled(u, c, s)
  IN IF n \notin nicks THEN Faulty(T)
     ELSE IF ~IsMember(T, c, n) THEN T
     ELSE IF protects THEN SetStatus(T, n, c, {s}, TRUE)
     ELSE SetFlags(T, c, n, FlagsOf(T, c, n) \ {s})

m_mode ==
  /\ Arrives("MODE")
  /\ Handled(IF ~Exists(Tables, Line.chan) THEN Tables
             ELSE IF Line.what THEN ModePlus(Tables, Line.nick, Line.chan, Line.status)
             ELSE ModeMinus(Tables, Line.by, Line.nick, Line.chan, Line.status))

\* The wchan is taken to be there.
m_stopic ==
  /\ Arrives("TOPIC")
  /\ Handled(IF Exists(Tables, Line.chan) THEN Tables ELSE Faulty(Tables))

-----------------------------------------------------------------------------
(* Commands *)

Ordered(T) == Leave(T) /\ UNCHANGED <<nicks, account, toServices>>

\* The channels in the order of the user's accesses.
sync_user(T, u, order) ==
  LET Each(t, c) == IF HasAccess(u, c) THEN sync_cflag(t, u, c) ELSE t
  IN Through(Each, T, order)

\* sync_user, unless the user has the option NOAUTO.
nick_identify(n) ==
  LET ghosted == Killed(Tables, Sessions(n))
  IN /\ ~fault /\ Len(toNet) < setting.sent
     /\ n \in nicks \cap Users /\ account[n] = None
     /\ user_login(n, n, Sessions(n))
     /\ \E noauto \in BOOLEAN, order \in SetToSeqs(Chans) :
          Leave(IF noauto THEN ghosted ELSE sync_user(ghosted, n, order))
     /\ UNCHANGED toServices

\* The level a command asks for that gives status s to oneself or to others,
\* or takes it; q goes to oneself only.
GiveLevel(s, own) == CASE s = "q" -> Founder
                       [] s = "a" -> IF own THEN Admin ELSE Founder
                       [] s = "o" -> Op
                       [] s = "h" -> IF own THEN Halfop ELSE Op
                       [] s = "v" -> IF own THEN Voice ELSE Halfop

\* CHAN OP and so on, !op and so on.
chan_status(k, n, c, s, what) ==
  /\ Commands(k, c, GiveLevel(s, k = n))
  /\ s = "q" => k = n
  /\ n \in nicks
  /\ Ordered(SetStatus(Tables, n, c, {s}, what))

GiveAll(T, c, s) ==
  LET Each(t, m) == IF s \in m.flags THEN t ELSE SetStatus(t, m.nick, c, {s}, TRUE)
  IN Through(Each, T, wchans[c])

\* !opall, !halfopall, !voiceall: whoever lacks the status gets it.
bot_opall(k, c, s) ==
  /\ s \in {"o", "h", "v"}
  /\ Commands(k, c, IF s = "v" THEN Halfop ELSE Op)
  /\ Exists(Tables, c)
  /\ Ordered(GiveAll(Tables, c, s))

\* CHAN KICK, !kick, !kb: not of an identified user of a higher level.
chan_kick(k, n, c) ==
  /\ Commands(k, c, Halfop)
  /\ n # k /\ IsAuthed(n) => GetFlag(find_account(k), c) >= GetFlag(n, c)
  /\ Ordered(KickUser(Tables, n, c))

\* !opopop: who speaks is kicked, whatever his level.
bot_opopop(k, c) ==
  /\ Commands(k, c, Akick)
  /\ Exists(Tables, c)
  /\ Ordered(KickUser(Tables, k, c))

KickAll(T, Q, c) ==
  LET Each(t, m) == IF m.nick \in Q THEN KickUser(t, m.nick, c) ELSE t
  IN Through(Each, T, wchans[c])

\* CHAN KICK *, !kick *, !kb * spare the one who commands and IRC operators; Q are
\* the others.  !rkick and !rkb take some of these.
chan_kick_all(k, Q, c) ==
  /\ Commands(k, c, Halfop)
  /\ Exists(Tables, c) /\ k \notin Q
  /\ Ordered(KickAll(Tables, Q, c))

\* !tb kicks those the mask matches, as far as their level allows, and reads the
\* wchan's name once more.
bot_tb(k, Q, c) ==
  LET kicked == KickAll(Tables, Q, c) IN
  /\ Commands(k, c, Halfop)
  /\ Exists(Tables, c)
  /\ \A n \in Q : IsAuthed(find_account(n)) =>
       GetFlag(find_account(k), c) >= GetFlag(find_account(n), c)
  /\ Ordered(IF Exists(kicked, c) THEN kicked ELSE Faulty(kicked))

ResyncMember(T, c, m) ==
  LET u == find_account(m.nick)
      synced == sync_cflag(T, u, c)
  IN IF T.fault \/ u = None \/ ~IsMember(T, c, m.nick) THEN T
     ELSE IF ~IsAuthed(u) \/ ~HasAccess(u, c)
     THEN SetStatus(T, m.nick, c, FlagsOf(T, c, m.nick), FALSE)
     ELSE IF u = m.nick /\ access[c][u].kicks /\ u \notin Nokick THEN Faulty(synced)
     ELSE synced

\* It goes on from a member that sync_cflag may have freed.
acl_resync(T, c) ==
  LET Each(t, m) == ResyncMember(t, c, m)
  IN Through(Each, T, wchans[c])

\* CHAN RESYNC.
chan_resync(k, c) ==
  /\ Commands(k, c, Admin)
  /\ Ordered(IF HasOption(c, "NOAUTO") \/ ~Exists(Tables, c) THEN Tables
             ELSE acl_resync(Tables, c))

-----------------------------------------------------------------------------
(* The network *)

Tells(m) ==
  /\ ~fault /\ Len(toServices) < MaxPending
  /\ toServices' = Append(toServices, m)
  /\ UNCHANGED <<services, given, toNet>>

NetMembers(c) == DOMAIN net[c]

WithoutNicks(Q) == [c \in Chans |-> Restrict(net[c], NetMembers(c) \ Q)]

\* A KILL on its way is for the connection the services meant.
Connect(n, svid) ==
  /\ n \notin online /\ [type |-> "KILL", nick |-> n] \notin Range(toNet)
  /\ svid # None => "sasl" \in setting.features
  /\ online' = online \cup {n}
  /\ Tells([type |-> "UID", nick |-> n, svid |-> svid])
  /\ UNCHANGED net

\* One user quits or is killed, or a server's users are lost.
Disconnect(Q) ==
  /\ Q # {} /\ Q \subseteq online
  /\ online' = online \ Q
  /\ net' = WithoutNicks(Q)
  /\ Tells([type |-> "QUIT", nicks |-> Q])

\* Whoever creates a channel has the status o, and comes with SJOIN.
Join(n, c, type) ==
  LET held == IF NetMembers(c) = {} THEN InUse \cap {"o"} ELSE {} IN
  /\ n \in online \ NetMembers(c)
  /\ c \in DOMAIN wchans =>
       Cardinality({i \in DOMAIN wchans[c] : wchans[c][i].nick = n}) < MaxCopies
  /\ held # {} => type = "SJOIN"
  /\ net' = [net EXCEPT ![c] = Put(@, n, held \X {"server"})]
  /\ Tells(IF type = "JOIN" THEN [type |-> "JOIN", nick |-> n, chan |-> c]
           ELSE [type |-> "SJOIN", chan |-> c, list |-> <<[nick |-> n, flags |-> held]>>])
  /\ UNCHANGED online

Without(n, c) == [net EXCEPT ![c] = Restrict(@, NetMembers(c) \ {n})]

Part(n, c) ==
  /\ n \in NetMembers(c)
  /\ net' = Without(n, c)
  /\ Tells([type |-> "PART", nick |-> n, chan |-> c])
  /\ UNCHANGED online

Kick(n, c) ==
  /\ n \in NetMembers(c)
  /\ net' = Without(n, c)
  /\ Tells([type |-> "KICK", nick |-> n, chan |-> c])
  /\ UNCHANGED online

\* The services' bot comes back at once; it is no member in either picture.
KickBot(by, c) ==
  /\ by \in NetMembers(c)
  /\ Tells([type |-> "KICK", nick |-> Bot, by |-> by, chan |-> c])
  /\ UNCHANGED network

Holds(n, c, s) == \E g \in Givers : <<s, g>> \in net[c][n]

\* Who holds a status keeps it from whom it was.
Gives(flags, S, giver) ==
  flags \cup {<<s, giver>> : s \in {x \in S : \A g \in Givers : <<x, g>> \notin flags}}

Takes(flags, S) == flags \ (S \X Givers)

Give(n, c, s) ==
  /\ n \in NetMembers(c) /\ ~Holds(n, c, s)
  /\ net' = [net EXCEPT ![c][n] = Gives(@, {s}, "user")]
  /\ Tells([type |-> "MODE", nick |-> n, chan |-> c, status |-> s, what |-> TRUE])
  /\ UNCHANGED online

Take(by, n, c, s) ==
  /\ by \in online /\ n \in NetMembers(c) /\ Holds(n, c, s)
  /\ net' = [net EXCEPT ![c][n] = Takes(@, {s})]
  /\ Tells([type |-> "MODE", nick |-> n, by |-> by, chan |-> c, status |-> s,
            what |-> FALSE])
  /\ UNCHANGED online

TakeFromBot(by, c, s) ==
  /\ by \in NetMembers(c)
  /\ Tells([type |-> "MODE", nick |-> Bot, by |-> by, chan |-> c, status |-> s,
            what |-> FALSE])
  /\ UNCHANGED network

\* The network does what the services have sent, and does not answer.
Obey ==
  LET m == Head(toNet) IN
  /\ ~fault /\ toNet # <<>>
  /\ toNet' = Tail(toNet)
  /\ online' = IF m.type = "KILL" THEN online \ {m.nick} ELSE online
  /\ net' = IF m.type = "KILL" THEN WithoutNicks({m.nick})
            ELSE IF m.nick \notin NetMembers(m.chan) THEN net
            ELSE IF m.type = "KICK" THEN Without(m.nick, m.chan)
            ELSE [net EXCEPT ![m.chan][m.nick] =
                    IF m.what THEN Gives(@, m.flags, "services") ELSE Takes(@, m.flags)]
  /\ UNCHANGED <<services, given, toServices>>

(***************************************************************************)
(* The link breaks and is made again: cleanup_reconnect empties the        *)
(* tables, what was under way is lost, and the uplink introduces everybody *)
(* and every channel anew, in some order.  It vouches for the statuses.    *)
(***************************************************************************)
\* What n is identified to, once the services have read what is under way.
Svid(n) ==
  LET uids == {i \in DOMAIN toServices : toServices[i].type = "UID" /\ toServices[i].nick = n}
  IN IF uids = {} THEN account[n] ELSE toServices[Max(uids)].svid

\* A channel's members, then its topic.
Burst(users, chans, members) ==
  [i \in DOMAIN users |-> [type |-> "UID", nick |-> users[i], svid |-> Svid(users[i])]]
  \o [i \in 1 .. 2 * Len(chans) |->
       LET c == chans[(i + 1) \div 2]
           record(n) == [nick |-> n, flags |-> {f[1] : f \in net[c][n]}]
       IN  IF i % 2 = 0 THEN [type |-> "TOPIC", chan |-> c]
           ELSE [type |-> "SJOIN", chan |-> c,
                 list |-> [j \in DOMAIN members[c] |-> record(members[c][j])]]]

cleanup_reconnect ==
  /\ "relink" \in setting.features /\ ~fault
  /\ nicks' = {}
  /\ account' = [n \in Nicks |-> None]
  /\ wchans' = <<>>
  /\ toNet' = <<>>
  /\ net' = [c \in Chans |-> [n \in NetMembers(c) |-> {f[1] : f \in net[c][n]} \X {"server"}]]
  /\ \E users \in SetToSeqs(online) :
     \E chans \in SetToSeqs({c \in Chans : NetMembers(c) # {}}) :
     \E members \in [Chans -> UNION {SetToSeqs(NetMembers(c)) : c \in Chans}] :
       /\ \A c \in Chans : members[c] \in SetToSeqs(NetMembers(c))
       /\ toServices' = Burst(users, chans, members)
  /\ UNCHANGED <<fault, given, online>>

-----------------------------------------------------------------------------
(* Specification *)

Init ==
  /\ nicks = {} /\ account = [n \in Nicks |-> None]
  /\ wchans = <<>> /\ fault = FALSE
  /\ setting \in Settings
  /\ access \in [Chans -> [Users -> setting.accesses]]
  /\ options \in [Chans -> setting.options]
  /\ online = {} /\ net = [c \in Chans |-> <<>>]
  /\ toServices = <<>> /\ toNet = <<>>

Handlers ==
  m_uid \/ m_quit \/ m_join \/ m_sjoin \/ m_part \/ m_kick \/ m_mode \/ m_stopic

UserCommands ==
  \/ \E n \in Nicks : nick_identify(n)
  \/ \E k \in Nicks, c \in Chans :
       \/ \E n \in Nicks, s \in InUse, what \in BOOLEAN : chan_status(k, n, c, s, what)
       \/ \E s \in InUse : bot_opall(k, c, s)
       \/ \E n \in Nicks : chan_kick(k, n, c)
       \/ \E Q \in SUBSET Nicks : chan_kick_all(k, Q, c) \/ bot_tb(k, Q, c)
       \/ bot_opopop(k, c) \/ chan_resync(k, c)

Network ==
  \/ \E n \in Nicks, svid \in Users \cup {None} : Connect(n, svid)
  \/ \E Q \in SUBSET Nicks : Disconnect(Q)
  \/ \E n \in Nicks, c \in Chans :
       \/ \E type \in {"JOIN", "SJOIN"} : Join(n, c, type)
       \/ Part(n, c)
       \/ Kick(n, c)
       \/ \E s \in InUse : Give(n, c, s)
  \/ \E by \in Nicks, c \in Chans :
       \/ KickBot(by, c)
       \/ \E s \in InUse : TakeFromBot(by, c, s)
       \/ \E n \in Nicks, s \in InUse : Take(by, n, c, s)
  \/ Obey
  \/ cleanup_reconnect

Next == Handlers \/ UserCommands \/ Network

Spec == Init /\ [][Next]_vars

-----------------------------------------------------------------------------
(* Properties *)

AtRest == toServices = <<>> /\ toNet = <<>>

\* Once both sides have read everything, the services list whoever is in a channel;
\* but for one with the user mode q who kicked the bot: m_kick deletes him from the
\* list though KickUser has spared him.  They may list somebody who is not there: a
\* kick that crosses a PART and a JOIN of the same user removes him from the network
\* only.
NobodyIsMissed ==
  AtRest => \A c \in Chans : \A n \in NetMembers(c) \ Nokick : IsMember(Tables, c, n)

\* No list keeps the address of a nick that was freed: userquit takes the records of
\* the nick out of every channel first.
MembersAreOnline ==
  \A c \in DOMAIN wchans : \A i \in DOMAIN wchans[c] : wchans[c][i].nick \in nicks

\* A channel that was emptied, whoever did it, is no longer in the table, or
\* CheckLimits and every command would go on with it.  (An SJOIN that crosses the
\* services' KILL of its only nick makes a channel without members, which stays.)
EmptiedWchansGo ==
  [][\A c \in DOMAIN wchans \cap DOMAIN wchans' :
       wchans[c] # <<>> => wchans'[c] # <<>>]_vars

\* STRICTOP, once both sides have read everything: no status that a user gave is
\* left to somebody whose level does not allow it, whatever was under way when.
\* (Where SASL identifies one nick to the account of another's name, the other
\* counts as identified while the first is there, and keeps the status.)  Who has the
\* user mode q may be missed, see above.
StrictOpAtRest ==
  AtRest => \A c \in Chans : HasOption(c, "STRICTOP") =>
    \A n \in NetMembers(c) \ Nokick, s \in Statuses \ {"v"} :
      <<s, "user">> \in net[c][n] => Entitled(find_account(n), c, s)
=============================================================================
