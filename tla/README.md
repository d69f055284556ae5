# Child, in TLA+

Child is a set of IRC services: one process, linked to an IRC network as a
server, that registers nick names (NickServ) and channels (ChanServ), lends bots
to channels (BotServ), watches new connections (SecServ) and gives operators
commands (OperServ). These modules model the part of it in which several actors
change shared tables in any order, check it with TLC on small instances, and
prove the central invariants with TLAPS for any number of connections, names,
accounts and channels.

Paths such as `user.c:381` are relative to the repository's `src/`;
`m_nick.c`, `m_chan.c`, `m_bot.c`, `m_oper.c` and `sasl.c` are in its `modules/`.

## The system

The process has one thread (`child.c`). A turn of its main loop reads what the
uplink sent, handles it line by line (`parseline.c`), sees to what has become due
(`CheckGuests`, `CheckLimits`, `CheckTimebans`, `CheckTB`, floods, expiry,
the periodic save) and writes what is queued. A handler runs to completion, so
the interleavings are those of whole handlers; what makes them hard is that the
network moves on while a line is under way, that pointers are kept in several
tables at once, and that the database outlives the process.

| component | state | operations | talks to | what makes it correct |
|---|---|---|---|---|
| Sessions and name protection: `nick.c`, `user.c`, `m_nick.c`, `sasl.c`, `parseline.c` | `nick->account`, `nick->svid`, `user->authed_nick` and `authed`, `core->guests`, options PROTECT and SUSPENDED | UID, NICK, QUIT, SQUIT; IDENTIFY, REGISTER, GHOST, DROP, SET, LINK; FORCEAUTH, SUSPEND; CheckGuests, expiry, loss of the uplink | links, channels (through userdrop), the uplink (SVSLOGIN, SVSNICK, KILL) | both directions of a session agree, nothing points to freed memory, at most one connection per account, protected names are released and only those |
| Account links: `user.c`, `m_nick.c` | `core->links`, keyed by the slave's name | LINK, UNLINK, SET MASTER, DROP, load | searches for accesses (`channel.c`) | records lie under their slave, no dangling end, no cycle |
| Channel ownership and accesses: `channel.c`, `m_chan.c` | `chan->owner`, `chan->options`, the cflags (level, chanflags, suspended), which are in a list of the channel and a list of the account | CHAN REGISTER, DROP, ACCESS (two systems), SUSPEND, UNSUSPEND, SET FOUNDER, SET AXXFLAGS; expiry, succession, save, load | sessions (who gives the command), links, wchans (who is made operator) | one owner, whichever way it is looked up; no dangling access; nobody rises above or strips a higher rank; what is saved can be loaded |
| Channel membership: `channel.c`, `parseline.c` | wchans, members (lists in both directions), status flags, topic, limits, timebans | SJOIN, JOIN, PART, KICK, MODE, TOPIC, QUIT; CHAN OP, KICK, CLEAR and so on | accesses, bots | whoever is in a channel is listed, nobody listed has been freed, an emptied wchan is freed and nobody reads it afterwards, STRICTOP wins |
| Automatic limits and time bans: `channel.c`, `m_bot.c`, `m_chan.c` | `chan->autolimit`, `core->limits`, `core->timebans` | JOIN, PART, SET AUTOLIMIT, !tb, !unban, CLEARBANS, DROP; CheckLimits, CheckTimebans | wchans, the uplink (+l, +b, -b) | the limit settles on the number of users, a ban for a time ends |
| BotServ: `botserv.c`, `m_bot.c`, `m_chan.c` | bots, `chan->chanbot` | ADDBOT, DELBOT, ASSIGN, UNASSIGN, the !commands | channels, wchans, persistence | no channel keeps a deleted bot |
| Persistence: `db.c`, `child.c` | MySQL tables | load_all_db, savealldb; SAVEDB, DIE, RESTART, SIGINT, the periodic save | every registry | what is in memory holds together whatever was torn; a save that was not disturbed is restored |
| Clones and trusts: `nick.c`, `trust.c`, `parseline.c` | a counter per address, limits per host and range | UID, NICK, QUIT, the loss of the uplink; TRUSTADD, TRUSTDEL | SecServ (which changes the limit) | a counter is the number of its connections, and nobody is refused for one that has gone |
| SecServ: `secserv.c`, `loadconf.c` | `seclev`, `perm`, `kills`, `glines`, `rmode`, `old_maxclones` | hooks of UID and NICK, PING, SECLEV, a reload | clones, the network (KILL, TKL, +R) | the level brings its measures and takes them away, and stays where an operator fixed it |
| Floods and badwords: `parseline.c`, `badwords.c` | counters, window and ignore time per nick; masks | PRIVMSG, a reload, CheckTB | sessions (it kills) | no more gets through than the settings allow, nobody is ignored without cause |
| Link to the uplink, event loop: `net.c`, `server.c`, `child.c`, `mem.c` | socket, both buffers, timers of the loop, server tree, `eos` | connect, handshake, PROTOCTL, SERVER, SID, SQUIT, NETINFO, reconnect, SIGUSR2 | all | one tree, the network's; nothing of an old link is left; a link that can be had is had |
| Commands, modules, hooks; HostServ, help, logging, configuration, mail | tables filled at start | | | (nothing interacts) |

Hard behaviours: handlers of different actors in any order over tables that
mirror each other; an identification made before the connection is known (SASL)
and used after names and accounts have changed; a rename requested by the
services that the network carries out later; the loss of the uplink, after which
accounts survive and connections do not; two access systems over one table;
accounts that go while other tables refer to them; a save and a load with a
crash between them; a link that breaks with lines in both directions; entries that wait for
their time while the channel they are about changes; a defence whose level moves by counters,
by the clock and by command. `PROJECT.json` lists the hazards line by line.

## The modules

| module | what it is |
|---|---|
| `Registry` | abstract specification of identification: connections, accounts, exclusive sessions |
| `Sessions` | the tables that keep them, one action per handler; implements `Registry` |
| `MCSessions` | instances of `Sessions` for TLC |
| `SessionsProofs` | proofs about both, among them the refinement |
| `Links` | the table of linked accounts, its keys included; in plain use its changes are commands of `Persist` |
| `LinksProofs` | proofs about `Links` |
| `Channels` | ownership of registered channels and the accesses to them; its changes are commands of `Persist` |
| `MCChannels` | instances of `Channels` for TLC |
| `ChannelsProofs` | proofs about `Channels` |
| `Members` | who is in which channel, in the services' tables and on the network, with the lines under way between them |
| `MCMembers` | instances of `Members` for TLC |
| `MembersProofs` | proofs about `Members` |
| `Store` | abstract specification of persistence: a save or a start is one step |
| `Persist` | the registries and the tables of the database, saves and loads query by query, with failures between any two; implements `Store` |
| `MCPersist` | instances of `Persist` for TLC |
| `PersistProofs` | proofs about `Persist` |
| `Watch` | connections and their counters, trusts, SecServ, with the lines under way to and from the network |
| `MCWatch` | instances of `Watch` for TLC |
| `Flood` | the messages of one connection, their windows, and the times in which it is ignored |
| `MCFlood` | instances of `Flood` for TLC |
| `WatchProofs` | proofs about `Watch` and `Flood` |
| `Timers` | automatic limits and time bans, with the lines under way |
| `MCTimers` | instances of `Timers` for TLC |
| `TimersProofs` | proofs about `Timers` |
| `Net` | the main loop's connection to the uplink, the buffers, the server tree, and the network behind it |
| `MCNet` | instances of `Net` for TLC |
| `NetProofs` | proofs about `Net` |

### Sessions

The unit of state is a connection (`Nicks`, one per UID) and a name (`Names`; a
nick name and an account name are the same kind of thing, since the code looks
either up by the other). `account`, `svid` and `authed_nick` are the pointers and
the string of the same names; `user->authed` is 1 exactly when `authed_nick` is
set, by every assignment of the code. `Freed` is a pointer to memory that was
freed. A handler that reads such a pointer has no meaning in C, so `Next` is
guarded by `NoDanglingPointer` and the model stops there; the runs in which this
can happen say `CHECK_DEADLOCK FALSE`.

`userquit(Q)` is what the departure of the nicks Q leaves in each table; a
handler that ghosts somebody and goes on (IDENTIFY, REGISTER, SASL, a rename)
applies it first and then `user_login`. `m_squit` loses any set of connections:
a server's subtree. `cleanup_reconnect` is the loss of the uplink. A stop
and a start of the services are the same step with another `Init`, since accounts
and options are what the database keeps.

SASL runs in two parts. What the exchange with the uplink decides reaches this
state only as the SVID that UID brings, so `m_uid` takes any name for an SVID:
the account may have been dropped or suspended, or another nick may have
identified to it, meanwhile.

`Features` says which inputs reach the services: `link` and `forceauth` (commands
a deployment can switch off with OPER CMDLEV), `suspend`, `protect` (accounts
with the option PROTECT), `caserename` (a NICK that changes letter case only).
A run names the ones it needs.

The environment: the uplink introduces no name that is in use and renames nobody
to one, which is the IRCd's rule; `UserRenames` and `SvsNickObeyed` model it.
Users and operators give any command at any time. Times are abstract: the delay of
a guest entry and the expiry of an account may be over at any moment.

Left out: the count of wrong passwords (its kill is an `m_quit`), levels, vhosts and
cloaks, the user mode +r after UID, the kills that secserv's hooks make, and what
userdrop does to channels (in `Channels`) and to the keys of the link table (in
`Links`; here links are a set).

### Links

The hash table as a function from keys to records, since SET MASTER changes the
names in a record and leaves its key (the map copies the key when it inserts).
`DeleteLinks` visits the entries in any order, and deletes by the slave's name
as the code does. `othername` lets a nick link and unlink under a name other than
its account's, `setmaster` adds SET MASTER; which of them a behaviour has is chosen in `Init`.

`Registries` is what a save would write of accounts and links, `Database` the instance of `Persist`
with it in memory. `LinksFollowCommands` says that each step is a step of `Database!Command` or
none: the hash table, its keys and the order in which a drop visits them are details of what
`Persist` has as a set of rows.

### Channels

An access (`cflags[c][u]`, `None` when there is none) stands for the struct cflag
in both of its lists. `users` are the accounts; whoever has one may command, so
the module needs no sessions. Operators' variants (`oper_...`) skip the tests that
the code skips for them.

A level is one of `Levels` and a set of chanflags one of `FlagSets`; the flags that
no access check looks at are the one flag "o", P, w, s, k, b, N included. What
depends on the remaining flags only (automatic modes, the ACCESS and SET commands'
reading of them) is left out. `access_add` and `access_del` are one command with
the same channel tests, split as the code is. A user inherits from a master
account if linked (`Links`); here nobody is linked.

`ownerleaves` lets the owner give ACCESS DEL for the own name, `ownerflag` lets a
superadmin edit flag F: both make the owner's records disagree (see the known
divergences).

`restart` is a save, a stop, a load: the owners' accesses are not written and are made
anew. The model takes this step only when the load succeeds, which is
`SavedDatabaseLoads`: when it does not, the services do not start.

`Registries` and `Database` are as in `Links`, with `ChanRows` and `AccessRows` the rows of the two
tables: `TablesFollowCommands` says that whatever a command does to levels, flags and lists, the
rows change as by one command of `Persist` (a registration, a new or a lost access, an owner who
changes, a drop), or not at all. With `Persist`'s own properties this joins the three modules: what
commands make of the tables is what saves and loads were checked with.

Left out: the limit of channels per user, the operator status that CHAN REGISTER asks
for (any user may register), COPT_SUSPENDED, limits, bans and bots of a channel,
the order of a channel's list (any co-owner may be the first), and a superadmin's
own access checks other than those of FLAGS.

### Members

Two pictures of one thing: `net` is the network's, `wchans` the services', and
`toServices` and `toNet` are the two directions of the link. The network acts, tells,
and does not wait; so do the services, who change their own lists as they send. `Obey` is
the network doing what it is told, silently, since no server sends a line back to where it came
from. All of the asynchrony is in the two queues.

A wchan is its list of members in order, each with its status flags; the list on the nick's
side (`nick_head`) is the same set of records, inserted and removed by the same two functions
(AddUserToWchan, DeleteMember), and is not kept twice. A list may name a nick twice: JOIN does not look
whether he is there. A handler's calls (KickUser, SetStatus, sync_cflag, DeleteUserFromWchan)
are operators on a record `Tables` of the lists, the lines sent and `fault`, so that a handler
which goes on after a kick sees what the kick did; a loop is `Through`, which passes the record from
turn to turn, over the list as it was when the loop began, with a test of what an earlier turn has taken away.
`fault` is the read of a freed wchan or
member or of a NULL pointer, at the six places listed under "known divergences"; the model
stops there, and the runs say `CHECK_DEADLOCK FALSE`.

An access is abstracted to what the handlers do with it: the level as a rank (the configured
levels in their order), the statuses it gives automatically, and whether it takes statuses
away or kicks (`Cflag`). Accesses and options are chosen in `Init` and stay; `Channels` is about
how they change. A command's right is a rank too, also where chanflags decide it. `Settings` names
combinations of accesses, options, inputs and the bound on `toNet`; a behaviour has one of them, so
that one run checks who is a member in one setting and who has which status in another.
Renames are in `Sessions`. A KILL of a ghosted nick is sent like a KICK; the model assumes
that it reaches the connection it was meant for, since it names a nick and not a connection.

Left out: bans, locked modes, topics, limits and the time bans' table (in `Timers`; here a JOIN may match
one, whatever it holds), and !deopall and its like, which only send.

### Persist

`mem` has the rows of the registries table by table, `disk` those of the database, each with how often
it is there, since nothing keeps a row from being inserted twice. `SaveProgram` is savealldb as a list of
steps: `open` is a section's mysql_ping and its DELETE, then come its other DELETE and its INSERTs, one
query per action, in the order of the hash tables, which is any (a channel's accesses follow the channel). A
query may be lost: nobody looks at what it returned, so the save goes on. `LoadProgram` is the order of the loads,
`Resolves` and `Key` the checks of the load_one functions; a refused row ends the process. A
fetch may break off, which the code does not tell from the last row.

SIGINT comes at any moment of a save or a load and itself saves and exits, from within the handler
(`child.c:63`): the tables that are loaded so far, or all of them in the middle of a save of all of them.
Between turns of the loop it is the ordinary `savealldb` that ends the process.

`snapshot` is the registries as they were at the end of the last save that nothing disturbed,
forgotten as soon as another save starts. The commands are those that change a key or a reference; which heir an
account's channel goes to is in `Channels`, here any with an access may be it. A channel's bot is
the table `chanbots`.

`Store` is the same seen from outside: services that serve or do not (`Serving`), what they hold
(`Held`: what a load has read so far does not serve yet), what is kept (`snapshot`), and whether
something failed since (`Intact`). A step of it is the work on the registries, the beginning of a
save, its end, a stop, a start, a failure, or a start that SIGINT cuts and saves. `SavesAreAtomic`
is the refinement: between the beginning of a save and its end nothing that is kept counts, and a
start that no failed read cut short holds exactly what the last save kept. `NoTableIsRefused` looks
at the tables in between: `LoadProgram` reads each table after those its rows refer to.

Left out: columns that refer to nothing, options and levels, the time between a query and its answer, and
expiry (its drops are the commands' drops).

### Watch

A connection is its address, a pair of host and ip; `Covers` says which ips a range that has a
trust stands for. `online` is the network's, `nicks` the services' table, `clones` the counters.
A line says whether the nick name it brings is bad for SecServ (a digit pattern). m_uid and m_nick
run the hook at their end, `KillNick` and `GlineNick`, and a nick that the hook kills is freed there
(`parseline.c:1139` goes on with its pointer: the model takes that to touch nothing of this module).

SecServ's counters stop at their limits in the model: the code compares them with `>=` and
resets them to 0. `Escalate` is `set_seclev` unless the level is permanent; `m_ping` is reset_vars, the hook
of PING. `loadconf` is SIGHUP and REHASH: it reads `MaxClones` and, if the configuration lists SecServ in
LoadMod (`listed`), loads the module again first, whose `child_init` takes the number of clones now in force
for the configured one.

The environment refuses connections from banned addresses, and reuses no nick name while a KILL of
it is under way: a KILL names a nick, not a connection. Opers and U-lines, the exceptions of the
check, are left out, as is the wait of the bans (`GlineExpires` at any moment).

### Flood

One connection, since no counter is shared: `ignored`, `ignoretime`, `msgtime` and `msgnb` are the
fields of the nick, `set` the directives MessageFlood (number and seconds) and IgnoreTime, which
`oper_rehash` may change at any time. `m_privmsg` is the part of the handler that counts: its four
outcomes are the branches at `parseline.c:961` (`Forgive`, the end of an ignorance, whose message is
not counted; `StartWindow`; `Ignore`; `Count`). A message to somebody ignored changes nothing.
`clock` is time(NULL), in seconds.

`got` and `reread` are not in the code: when the messages that got through were sent, and whether
the settings changed since the nick appeared. `FloodIsBounded` takes settings that stay and an
ignorance no shorter than the window; within these it allows twice the configured number, for a
window can end right after as many messages as it allows and the next begin with as many. With a
shorter ignorance the messages that end one add to that.

Left out: the messages of operators and those to channels, which are not counted.

### Timers

A channel's limit is `none`, waiting, or due; so is a ban that ends, which can also last for ever.
`LimitDue` and `BanOver` are steps of the clock, at any moment; CheckLimits and CheckTimebans handle
all that is due at once, as the loops over the lists do. AddLimit renews a limit that waits, so a
channel with much coming and going is not limited until it calms down.

`users`, `netlimit` and `bans` are the network's, `members` the services'. `LimitFollowsUsers` measures the limit by the
services' list, with one place more for the bot unless NOJOIN (`nojoin`) keeps it out (`channel.c:582`), and asks
besides that whoever is there is on the list; the list may also name somebody who is not there, after the services' KICK
crossed his PART and a new JOIN: he is kicked again, and nobody tells the services of it.
Others change the limit, or the number it should be, and nothing renews it: SET NOJOIN and ASSIGN
(`chan_set_nojoin`); locked modes with an l, sent by SET MLOCK and whenever the lock is enforced (`chan_set_mlock`); the
-l of CLEARMODES and CLEARCHAN; a user's MODE l, which m_mode does not look at (`SetLimit`). `stale`, which is not in
the code, has the channels where that happened since CheckLimits last sent a limit; for these the number
is not compared. `chan_kick` is a kick of any one nick, be he in the channel or not (KICK, !kick, !opopop, an access that kicks).
An entry of a time ban that matches who joins makes m_join ban his host (`Host`) and kick him, but for the kick
of one with mode q (`channel.c:393`). `loose` are the bans of the network no
entry watches, with the reason why that is so in the code: CLEARBANS deleted the entry and not the ban; the
-b was lost with the link; m_join banned the host of somebody whom an entry matched (the mask it
sets need not be the entry's). `fault` is set where a freed channel is still
pointed to (chandrop with entries waiting) and where !tb kicks the last member and then reads the name of the wchan.

The bans of the model are those !tb sets and those m_join sets for an entry; `BansAreWatched` and `BansEnd` are about
no others. Bans by a user's MODE +b, by !kb and !rkb, by accesses that ban and by locked modes are outside of it:
nothing in the code is to lift these by itself. SVSMODE -b (UNBANALL, CLEARCHAN) lifts every ban and leaves the entries.

Left out: who may give a command (an access check), a user's MODE -b, and a kick of somebody who at once
rejoins, whose race with the services' list is in `Members`.

### Net

The process is the main loop (`child.c:150`), cut where something else can happen: between a
connection and `timerclear`, between the parts of a line that two reads bring, between lines. `outq`
is the output buffer (a line that does not fit is dropped), `partial` the half line in the input
buffer, `timer` is `next_connect_time`. `link`, `inq` and `topo` are the uplink's: what it thinks of
the connection, what it has sent, and the tree of servers, which changes whether the services are
linked or not. The burst tells of the tree in any order in which a server follows the one it is
behind.

A server has its name for its SID. `Behind` is what the recursion of delete_server reaches: the
least set with the server in it and, with a server, those that hang below it; `NetSplit` uses it for
the network as well, as RFC 1459 has a SQUIT take all that is behind.

`SIGUSR2` closes and re-arms from a signal handler, at any moment if `Race`, and otherwise not
between the connection and timerclear. In the middle of a handler it frees what the handler uses;
that has no meaning in C and is not modelled. `poll` that a signal interrupts counts as a failure
(`PollInterrupted`).

Left out: TLS, the resolver, SIGHUP, SIGINT (in `Persist`), what lines say beyond the servers.

## What the runs check

| run | instance | what it shows |
|---|---|---|
| `sessions_core` | 3 connections, 3 names, no LINK, no FORCEAUTH; 44,072 states up to symmetry | `NoDanglingPointer`, `SessionsAgree`, `SessionsHaveBothEnds`, `SvidNamesAccount`; `SessionsEndForAReason`; the refinement of `Registry` (`SessionsAreExclusive`) |
| `sessions_links` | 2 connections, 3 names, LINK and FORCEAUTH as well; 393,296 states | `GuestsHoldNames` and `GuestsEndForAReason` survive even what breaks the sessions |
| `sessions_live` | 2 connections, 3 names, fair; 38,436 states | `ProtectionTakesEffect` |
| `links` | 4 names, with and without SET MASTER and foreign names; 69,404 states | `KeyedBySlave` in plain use; `NoMutualLinks`, `FoundLinkIsOwn`; `LinksFollowCommands` |
| `channels_core` | 3 accounts, 1 channel, 2 levels, 4 sets of flags; 12,836 states | `OwnersAgree`, `SavedDatabaseLoads`; `CoOwnersInherit`, `FoundersMakeFounders`, `OutrankedAreSafe`; `TablesFollowCommands` |
| `members` | 2 nicks, 1 channel; a setting with bans, SASL and loss of the uplink, one with STRICTOP, PROTECTOPS, AOP and the status o; 2,366,944 states | `NobodyIsMissed`, `MembersAreOnline`, `EmptiedWchansGo`, `StrictOpAtRest` |
| `persist` | 2 accounts, 1 channel, 1 host, 1 bot, one failure of any kind; 1,608,819 states | `ReferencesResolve`, `IntactSaveIsRestored`, `NoTableIsRefused`; the refinement of `Store` (`SavesAreAtomic`) |
| `net` | the uplink and 2 servers behind it, 2 breaks, fair; 110,724 states | `OneTree`, `TreesAgreeAtRest`, `AttemptsWhileApart`; `Reconnects` |
| `timers` | 1 channel, 2 masks, 2 users, 2 orders (time bans, kicks, what else changes limits or bans), fair; 1,549,618 states | `LimitFollowsUsers`, `BansAreWatched`; `BansEnd` |
| `watch` | 2 connections, 2 addresses, a host and a range; 1,544,808 states | `CountsMatch`, `TablesAgreeAtRest`, `LevelIsInForce`; `FixedLevelStays` |
| `flood` | 7 seconds, 7 messages, 3 settings; 70,787 states | `FloodIsBounded`; `OnlyFloodersAreIgnored` |
| `links_cycle` | 3 accounts | the code violates what it says, see below |

**Bounds.** Every bound is a constant of its module. In `Sessions`, `Links` and `Channels` nothing
counts, so the bounds are the sets. Three names are an account, an account it is renamed or linked
to and a name that is no account, or a third account to close a chain. Three connections are the
holder of an account, the one that ghosts it and a bystander; the runs with two need no bystander,
for their properties speak of one connection and one name. Four names in `links` let two chains
meet. Three accounts in `channels_core` are an owner, a co-owner and an administrator, whose roles
every command permutes; no command looks at two channels but userdrop, which treats each channel
alone. The levels are the configured administrator level and the co-owner's (a lower level may do
nothing, and the level 0 comes with chanflags), the sets of flags one for each of the answers of
`can_modify_uflag`.

In `Members` one party waits while `MaxPending` lines lie in `toServices` or `sent` in `toNet`; two
in each direction are enough for a line to cross another and for the reaction to it to
cross a third (one towards the network where there are modes, where a handler still sends several at
once). A nick is listed twice at most (`MaxCopies`). Two nicks are the last member of a channel and
another, of whom one has the account. One channel: no handler relates two, but
userquit and the burst, which treat each alone.

`persist` has two accounts, so that one can be an owner or a master and the other a slave or
have an access, and one of everything else; references never join two channels. `MaxFaults` is one
failure after another with an undisturbed save between them; crashes, SIGINT and stops are not counted, so that
a save is torn, and torn again, any number of times.

`watch`: two connections that share an address or do not; the limit of a trust, 1, is below and the
configured one, 3, above what two connections can reach, so that both answers occur, and the levels
2 and 4 make limits of their own; two kills and two bans raise the level. `MaxPending` 1 and
`MaxSent` 2 let a line cross a kill and a ban; a ban of both connections brings two lines at once.

`timers`: two users are the last one of the channel and another, AUTOLIMIT 1 (and 0 for off); `MaxOrders`, two, counts
!tb, kicks and whatever else changes l, NOJOIN or the network's bans: a ban is renewed, two masks end in either order, and each
of the others meets one of any kind. `ModeLimits` is one number that AUTOLIMIT may make as well. Both users have the host m1,
so that m2 is the mask of an entry that is not the host's. Everybody waits while more than `MaxPending`,
one, line is under way in a direction, but a handler sends several.

`flood`: 7 messages are more than twice any of the numbers configured, so that the bound can be
passed; 7 seconds hold two windows and an ignorance between them. Of the settings one has the longer
window, one the longer ignorance, and one allows one message only.

`net`: two servers behind the uplink, one behind the other or both behind it; a third level would
repeat the second. `SENDQSIZE` is 5 lines, so that the handshake does not fit behind what was queued
while the link was down; `MaxWire` lines are under way when the network goes on; `MaxBreaks` losses
and signals, `MaxRetries` failed attempts and one more.

**Symmetry.** Connections, names and accounts are interchangeable: no handler compares
them except for equality. Not used for liveness, nor where one of them is singled out.

**Fairness.** `sessions_live` assumes weak fairness of `CheckGuests(n)`, as the main loop looks at
every guest entry on each turn and the loop never stops (`child.c:192`), and of `SvsNickObeyed(n)`,
the IRCd's side of the protocol. It assumes nothing of users: they need not identify, and may rename
to and fro. `timers` assumes that the time of each ban comes, that the loop comes to CheckTimebans
(`child.c:194`) and that the uplink reads what it is sent; nothing of users, of commands or of the
link, which may be lost for good. `net` assumes that the loop turns (an attempt whose time has come
is made, one under way ends, a dead connection is noticed, lines that arrived are read), that TCP
delivers what is in the buffer, and that the uplink closes a connection which does not say who it
is. It does not assume that the uplink comes back: the process gives up after `MAX_RECO_ATTEMPTS`,
which `Reconnects` allows.

**Deadlock** is checked where the model does not stop by intent: it does at a dangling pointer
(`sessions_links`), at `fault` (`members`, `timers`), when the process gives up (`net`), and when
time and messages are used up (`flood`).

### What the properties can see

An operator named `..._slip` is the definition below it as a plausible mistake would
have it. No specification uses it. Each property of each passing run has one, and
putting it in the place of the real definition makes TLC report that property:

| property | slip |
|---|---|
| `NoDanglingPointer` | DeleteAccount without user_logout |
| `SessionsAgree`, `SvidNamesAccount` | user_logout clears one direction only, or sends no SVSLOGIN |
| `SessionsHaveBothEnds` | SASL does not look the account up again |
| `GuestsHoldNames` | userquit without DeleteGuest |
| `GuestsEndForAReason` | user_login deletes the entry whatever the nick is called |
| `SessionsEndForAReason` | IDENTIFY while identified |
| `SessionsAreExclusive` | a login without a ghost |
| `ProtectionTakesEffect` | CheckGuests deletes the entry and sends nothing |
| `KeyedBySlave`, `NoMutualLinks`, `FoundLinkIsOwn` | AddLink under the master's key; find_link2 with its arguments swapped; SET MASTER that takes any link to the caller |
| `LinksFollowCommands` | DeleteLinks looks at slaves only |
| `OwnersAgree` | SET FOUNDER leaves the former founder's access |
| `TablesFollowCommands` | userdrop without DeleteUserFromChannels |
| `SavedDatabaseLoads` | the owner's access is saved with the others |
| `CoOwnersInherit` | get_coowner finds nobody |
| `FoundersMakeFounders` | can_modify_uflag looks at F only |
| `OutrankedAreSafe` | ChannelCanWriteACL without the ranks |
| `NobodyIsMissed` | an SJOIN for an unknown channel is dropped |
| `MembersAreOnline` | userquit without DeleteUserFromWchans |
| `EmptiedWchansGo` | DeleteUserFromWchan keeps the channel |
| `StrictOpAtRest` | a status is noted and not taken back |
| `ReferencesResolve` | a load does not look a channel's bot up |
| `IntactSaveIsRestored` | accesses and assignments are inserted without a DELETE before |
| `NoTableIsRefused` | the assignments of bots are read before the bots |
| `SavesAreAtomic` | the services are up before the last table is read |
| `OneTree` | delete_server goes down one level only |
| `TreesAgreeAtRest` | SID hangs every server below the uplink |
| `AttemptsWhileApart` | timerclear leaves the timer as it was |
| `Reconnects` | the buffers are not emptied before a new connection |
| `LimitFollowsUsers` | joins and parts do not renew the limit |
| `BansAreWatched` | !unban deletes the entry and sends nothing |
| `BansEnd` | CheckTimebans looks for the bans that last |
| `CountsMatch` | delete_nick does not release the count |
| `TablesAgreeAtRest` | a kill is not sent |
| `LevelIsInForce` | lower levels leave the channels restricted |
| `FixedLevelStays` | check_nick does not look at `perm` |
| `FloodIsBounded` | one message more than the number |
| `OnlyFloodersAreIgnored` | the count is compared before the window is looked at |

## What is proved

The proofs hold for any sets that satisfy the
named assumptions of the modules: `Null` and `Freed` are no connection and no
name, `None` is no account and no cflag, levels are integers, sets of flags are not empty; the
connections of `Watch` are finitely many (a counter is the number of its connections), its limits and bounds are
natural numbers; the nicks and channels of `Members` are finitely many, and `None` is no
account; the failures of `Persist` are of the kinds named, as many as `MaxFaults`; servers are finitely many, and
`None` is no line; names in `Links` are finitely many, and an empty slot is no record.

**Sessions.** The inductive invariant is `SessionInv`: the types, authed accounts are
registered, no links, `NoDanglingPointer`, `SessionsAgree`, `SessionsHaveBothEnds`,
`SvidNamesAccount`. None of the last four is inductive alone: userquit finds the account to log
out through `nick->account` and DeleteAccount finds the nick through
`user->authed_nick`, so each leaves a dangling pointer in states where the two
directions differ, and a session with a missing end is what later makes them differ. The step
lemmas classify what a handler does to the sessions (`SessionStep`), and the
theorems follow from the classification: `NoUseAfterFree`, `SessionTablesAgree`,
`SessionEndsExist`, `SvidsFollowSessions`, `ExclusiveSessions`, `SessionEnds` and
`RefinesRegistry`, the refinement of `Registry`. They assume `StockCommands`, no LINK and no
FORCEAUTH, without which they fail (known divergences). `TypeCorrect` and
`GuestsCorrect` hold with every feature; `GuestEnds` excludes changes of letter case,
which are the exception (known divergences).

**Registry.** `RegistryExclusive`: whatever implements `Registry` has exclusive sessions. The proof is in
`SessionsProofs`, about the instance that `Sessions` implements.

**Channels.** `BaseInv` (types, no level above the owner's, both ends of every access) is inductive
with every feature and gives `TypeCorrect` and `AccessesHaveBothEnds`. `OwnersAgree` is not
inductive: get_coowner looks at the level and at the flag, so an owner with flag f or a record with
the level alone would inherit from itself, and `userdrop` would then leave a channel to an account
that is gone. `GoodEntries` adds that an owner never has flag f; it is kept under `PlainUse` (no
feature) and gives `OwnersCorrect`, `DatabaseLoads` (no history makes a save that cannot be loaded)
and `SuccessionCorrect`. `FoundersCorrect` needs `BaseInv` only: the level a non-founder may give is
below the own one, which is neither 9999 nor 10000, and the flags he may give do not include F and
f. `OutrankedCorrect` (`OutrankedAreSafe`) needs `BaseInv`, too: a writer who is no founder either
has rank p and edits somebody without a rank, or compares two levels that are both in force.
`TablesCorrect` (`TablesFollowCommands`, under `PlainUse`) goes through the same commands and asks
what each does to rows: with `GoodEntries` the accesses that are saved are those of all but the
owner (`EntriesAreSaved`), so a level that changes is no change, SET FOUNDER and succession are the
change of an owner, and userdrop gives each channel to an heir who has an access or drops it, which
is what `Persist` takes it to do.

**Watch.** `LevelCorrect` and `LevelsStayFixed` rest on `LevelInv`: what is proved and the types,
and that `old_maxclones` is the configured number unless SecServ can be loaded anew, since a fall to
level 1 takes the limit from there. For the counters and the tables of connections neither
`CountsMatch` nor `TablesAgreeAtRest` is inductive, for both depend on what is under way: a UID read
twice would be counted twice. `QueueInv` says of each connection (`QueueOf`) that its UID precedes
its other lines and is read while the services do not have it; that whom the services have or are
told of is there or has a QUIT on its way; that whom they killed they neither have nor will be told
of by a UID; and that one who is there is known with that address, told of with it, or about to be
killed. With both queues empty that is `TablesAgree`; with it every UID counts a connection that was
not counted, and every release one that was (`CountInv`, `CountsCorrect`). `TypeCorrect` adds the
types of the rest.

**Persist.** `PersistInv` says that the tables in memory join (`Joined`: every reference to a row
that is there), that a process which loads has nothing yet in the tables that come later, and one
that is down nothing at all. Nothing is assumed of the database: the checks of the loads give what
is needed, and the commands keep it (`ReferencesCorrect`). `SavesRestore` needs `SaveInv`: while a
save is not disturbed, each table whose DELETE was done holds exactly the rows that are inserted so
far (`SavedTo`), by its number in `SaveProgram`; the last step makes that the image of the
registries, and since those join, every row passes the checks (`ImageLoads`). `TypeCorrect` gives
the types, the rows still to insert included.

`StartsGetThrough` (`NoTableIsRefused`) is about the middle of a load: `LoadInv` says that after a
save that stands the tables read so far are those of the save, in the order of `LoadProgram`, and
the later ones empty, or, after a fetch that broke off, a part of them. So each row finds what it
names. With it `SavesAreSteps` shows that `Persist` implements `Store`: `StoreInv` joins the
invariants, and each step of a save, a load or a crash maps to a step of `Store` or to none; the
last INSERT of a save is `Saved`, the last table of a load is `Start`, all other queries are not
seen.

**Timers.** `BansCorrect` (`BansAreWatched` for any finite sets of channels, masks and users and any
number of lines under way; finite, for a step sends a line for each of a set). `BansAreWatched`
speaks of moments with nothing under way and is not inductive. `WatchInv` is: a ban that is still to
come is watched as well, where `Coming` reads the lines under way (a +b with no -b after it, or a
ban that stands and no -b at all). `Followed` says what lines that are sent make of it, `Read` what
a line does that is read; with them each step is one case: !unban and CheckTimebans forget an entry
and send what ends the ban, without a link what they lose goes to `loose`. `TypeCorrect` gives the
types, and that nothing is under way without a link.

`LimitsCorrect` (`LimitFollowsUsers`) has two halves. `KnownInv`: whoever is in a channel is about
to be kicked, or a JOIN of his is under way with no PART of his after it, or he is on the services'
list and no PART of his is under way. `LimitInv`: in a registered channel whose limit is neither
waiting nor due, which the services know to have members and with no JOIN under way, the last +l
that is under way, or the network's limit if there is none, is the number of the services' members,
what AUTOLIMIT adds and the bot's place (`Room`), unless the channel is `stale`. Whatever changes that list makes the limit
wait; whatever else changes the limit or `Room` makes the channel stale, and CheckLimits, which ends that, sends the `Room` of
the moment.

**Links.** `TableInv` (types, `FoundLinkIsOwn`) is kept with every feature, `PlainInv` (a record
under its slave, both its ends registered, no two records each other's reverse) without SET MASTER
and foreign names. All but `userdrop` are one assignment. `userdrop` visits the whole table in some
order: `DeletingExists` shows that the function `DeleteLinks` defines is one, for a set of numbers
that has 0 and the successor of each of its members, up to the last one, has the last one
(`Counting`); over such a set runs `DeletingLeaves`: an entry is what it was or has been erased, and
none of those visited mentions the account any more, if records lie under their slaves.
`KeysCorrect`, `EndsCorrect`, `NeverMutual` and `FoundCorrect` follow. `LinksAreSaved`
(`LinksFollowCommands`) needs of the loop that it leaves the records of others (`DropLeaves`: what
remains is exactly the records that do not mention the account), and of LINK and UNLINK that a slave
has one record, under its name.

**Flood.** `FloodCorrect` (`FloodIsBounded`, for all settings and any number of messages) needs to
know how the counters remember what got through. `BoundInv`: either the last `msgnb` messages are
the window's, all before came before it, and those more than `nb` further back are older than it by
more than its seconds (`WindowOpen`); or the last one ended an ignorance, which was longer than the
window, so that all before it are out of reach (`Forgiven`). Then a message that gets through is at
most the `nb`-th of its window, and the one 2`nb` before it lies beyond the window before.
`IgnoredForCause` (`OnlyFloodersAreIgnored`) assumes nothing of the settings and of when they
change: `CountersInv` says that at least the last `msgnb` messages are not older than the window.

**Net.** `AttemptsCorrect` (`AttemptsWhileApart`) is inductive with the types: the code never asks,
before it connects, whether it is connected, and need not, since the timer only ever waits while it
is not. The half about the time that is coming is about behaviours without `Race`: with it, the
signal may take the time away (known divergences).

`TreeCorrect` (`OneTree`) rests on `TreeInv`, which says that every server but the uplink has a hub
that is known (`Hung`) and is behind the uplink (`Rooted`), and that none is known without a link.
`Behind` is the least set closed under "hangs below", so what a SQUIT leaves still hangs together,
for any depth (`RootedDetach`, `HungDetach`). `TreesAgree` needs to say what is under way.
`AgreeInv`: while the services read a burst or the lines after it, the servers they have, changed by
the lines in the order in which they come (`After`), become those of the network (`Leads`); a burst
of all servers in any order in which a server follows its hub does that from nothing
(`BurstReplays`), and a SID or SQUIT sent later extends it at the end (`LinkAfter`, `SplitAfter`).

**Members.** A handler is a composition of operators on `Tables`, several of them loops, so the
proof has two floors. Below, `Good(P, N, E, L)` is the set of tables in which each pair of `P` is
still listed or has a KICK or KILL among the lines to send, all who are listed are in `N`, only
channels of `E` have an empty list, and the lines `L` are sent; each operator is shown to map a
`Good` set to a `Good` set, and a loop stays in a set that its turns stay in (`Loop`). Above, each
handler is one fact, `Serves(T, K)`: it leaves `T`, which lists connected nicks only, keeps no
channel that the handler has emptied, and still lists whom it must keep, `K`, but for those it has
expelled. From it follow `TypeCorrect`, `MembersCorrect` and `EmptiedCorrect` (`Good0`).

`NobodyIsMissed` speaks of rest and is not inductive. `HeardInv` and `KnownInv` say for any moment
that a nick of the network is about to be killed, or has a UID under way with no QUIT behind it, or
is known and has no QUIT on its way; and that a member is about to be expelled (`Expelled`), or
comes with a JOIN, SJOIN or burst and nothing behind it takes him out (`Joining`), or is listed and
nothing under way takes him out (`Staying`). A handler that has used freed memory may have left
somebody out; it has sent a kick before, so that state is not at rest, and after it nothing moves:
`KnownInv` asks nothing of a `fault` with lines to the network. That gives `NobodyCorrect`.

`StrictOpCorrect` adds `StatusInv`: a status that a user gave a member is still to be read, with no
departure and no second join of his behind it (`Noted`), or is being taken back (`Taken`), or its
holder is being expelled, or is entitled to it and nothing under way takes him out. It depends on an
entitlement that does not lapse: `AccountInv`, that an account is only ever held by the nick of its
name. SASL breaks that, and the property with it (known divergences), so the theorem is about
settings without SASL, as the run's is. `KickUser` spares users with the mode q (`Nokick`), m_kick
then deletes the record all the same, so both theorems except those users.

**Only model-checked:** liveness (fairness and ENABLED are beyond the prover:
`ProtectionTakesEffect`, `Reconnects`, `BansEnd`), and the violation run. Each invariant and action
property of each passing run is stated by a theorem, some under the assumption that is named above.

**Only proved:** the types (`TypeOK` of each module, theorem `TypeCorrect`), `CflagsHaveBothEnds`
(`AccessesHaveBothEnds`) and `LinksJoinAccounts` (`EndsCorrect`). The runs spend their time on the
properties that these serve: `TablesFollowCommands` and `LinksFollowCommands` see what either would.

## Known divergences

The run `links_cycle` shows what the code does against what it says (`PROJECT.json`, "findings",
quotes the lines): LINK accepts a cycle of three, and a search for accesses recurses without end.

Two more can be seen with the modules as they are:

- SIGUSR2 between a connection made and the reset of its timer (`child.c:163`) leaves the services without a link and
  without a time for the next attempt: with `Race = TRUE` in `net.cfg`, TLC finds `Reconnects` violated.
- Floods: if a reload makes MessageFlood smaller than the messages a nick has in its window, and the
  window passes, `parseline.c:975` starts no new one, for it asks for a count within the limit; the count grows, the
  window stays over, and the nick is never ignored again. `FloodIsBounded` without its `~reread` fails, also with the
  larger of the two numbers.

Met while modelling; the modules have the behaviour unless an entry says otherwise, no run is spent on it.

Sessions, links and channels:

- FORCEAUTH logs a second nick in to an account that has one (`m_oper.c:516`; the feature `forceauth`).
- A connection that authenticated to one account through SASL is logged in to the account its nick name happens to
  name (`sasl.c:152`).
- An owner who leaves the own access list (`m_chan.c:414`) and gets flags again is saved as owner and as an
  ordinary access; the next load finds the access already there and refuses the database (`db.c:231`). The feature
  `ownerleaves` has it; with it `SavedDatabaseLoads` fails.
- A change of letter case takes a protected name off notice for good: m_nick deletes the
  guest entry (`parseline.c:822`) before it finds, at line 834, that the name is the same but for its case;
  nick.md:137 says that whoever does not identify will be renamed. The feature `caserename` has it; with it
  `ProtectionTakesEffect` fails.
- Two co-owners, one by flag and one by level: ACCESS ADD 9999 looks for a co-owner's level only
  (`m_chan.c:360`), while get_coowner looks at both and m_chan.c:361 says "There is already a co-owner".
- SECURE does not keep an unidentified user from being opped by AOP if the name is that of an account
  to which another nick is identified (`parseline.c:269` asks find_account, which falls back on the name);
  chan.md:266 says otherwise. By the same fallback, STRICTOP lets that user keep a status, a ban on an account
  kicks, and sync_cflag treats, whoever is called like it (`parseline.c:249`, `user.c:508`).
- Memory that may not be read, where `Members` sets `fault`: m_kick deletes from a wchan that kicking the
  kicker has freed (`parseline.c:326`); m_sjoin goes on with a wchan that sync_cflag has freed
  (`parseline.c:1371`); m_stopic takes a wchan to be there that the SJOIN before it has lost
  (`parseline.c:1223`, whose comment says "assuming not NULL"); acl_resync walks on from a freed member
  (`channel.c:675`); bot_tb reads the name of a freed wchan (`m_bot.c:901`); a MODE -o of the bot looks an account
  up through NULL (`parseline.c:718`).
- A user with the mode q who kicks the services' bot is not kicked back (`channel.c:393`), but m_kick deletes him from
  the wchan all the same (`parseline.c:326`): a member on the network, unknown to the services.
- The services may list a member who is not there: a KICK by a user that crosses the services' own
  KICK and a JOIN, or a nick listed twice of whom one record goes. An SJOIN that crosses the services' KILL of its only
  nick leaves a wchan without members.
- STRICTOP does not look at the statuses that SJOIN brings (`parseline.c:1375`), nor at those the services are told
  to give (TODO:14 plans that).
- A founder whose access is suspended is still opped when joining (`parseline.c:219`).
- NICK moves a session along a link of the old nick name, not of the account the nick is
  identified to (`parseline.c:840`, whose comment says the account).
- A nick that identified through SASL under another name and then takes its account's
  name is put on notice, cannot identify any more and is renamed (`parseline.c:848`).
- SASL, FORCEAUTH and LINK open sessions to suspended accounts (`sasl.c:167`); ChangeLog:42
  says that a suspended user is de-authed.
- SET MASTER leaves a stale key (`m_nick.c:655`), after which an account can have two
  masters, against `user.c:68`.
- LINK by a nick that is not called like its account links a name that may be no account
  (`m_nick.c:189`); load_one_link then refuses the database.
- IsFounder does not ask whether the access is suspended, so a suspended co-owner can
  still DROP the channel; a co-owner may edit and suspend the owner's access while
  AXXFLAGS is on; a suspended owner is restored by a restart.
- FLAGS -f leaves the level 9999, which is in force again once AXXFLAGS is turned off.
- A superadmin may set and remove flag F (`ownerflag`); chan.md:33 says that it can only be
  modified with SET FOUNDER.
- Somebody whose level is negative (automatic kick) may remove the own access.
- SET FOUNDER dereferences a NULL pointer if chan->owner is no account; in `Channels` it
  always is one under plain use (`DatabaseLoads`), so the guard of `GiveAway`'s callers
  costs nothing there.

Persistence:

- A fetch that breaks off is taken for the end of the table (`db.c:100`; no mysql_errno after the loop): the services run with the
  rows read so far, and the next save makes that the database.
- SIGINT is handled at any moment (`child.c:66`) and saves what is in memory: half the registries during a
  load, which replaces the other half in the database.
- A DELETE that fails is not noticed (`db.c:512`); the INSERTs behind it double the rows, and the next start refuses them.

`IntactSaveIsRestored` speaks of saves that none of these disturbed.

The link:

- `socket()` that fails makes net_connect return success (`net.c:94`): the loop believes in a link. Not in the model.
- poll that any signal interrupts is an error, and the link is given up (`child.c:186`).
- cleanup_reconnect detaches the tree of the uplink's old name (`mem.c:40`): one that comes back under another name leaves
  the former servers behind. In the model the uplink keeps its name.
- SIGUSR2 in the middle of a handler frees the nicks and channels the handler works with (`child.c:60`). Not in the model.
- Lines that are queued while there is no link are lost: the uplink does not read them before PASS and SERVER, or the
  disconnection discards them. `connect_retries` starts anew with every TCP connection, be it one that the uplink drops at once.

Limits and time bans:

- chandrop frees a channel that entries of `core->limits` and `core->timebans` point to (`channel.c:629`); `fault`.
- !tb that kicks everybody frees the wchan and then reads its name (`m_bot.c:901`); `fault`.
- No change of NOJOIN renews the limit (`m_chan.c:796`, `m_chan.c:800`, ASSIGN `m_chan.c:1364`): it is off by one (`channel.c:582`) until
  somebody comes or goes.
- CLEARMODES (`m_chan.c:1226`) and CLEARCHAN (`m_chan.c:1200`) take the limit away, a locked l (`m_chan.c:1055`) and a user's MODE l, which
  m_mode ignores (`parseline.c:702`, `parseline.c:791`), set another one; AUTOLIMIT does not answer before somebody comes or goes.
- UNBANALL and CLEARCHAN lift all bans of the network and leave the entries of time bans (`m_chan.c:1251`, `m_chan.c:1201`): whom one
  matches is banned again when he joins.
- SET AUTOLIMIT 0 leaves the limit that waits, which still sends a +l, with 0 to spare.
- CLEARBANS deletes the entries of time bans and leaves the network's bans, which nobody lifts then (`m_chan.c:1658`).
- A ban whose time is over while the link is down is forgotten, and the -b lost (`channel.c:645`); entries do not outlive
  the process either, nor do the bans m_join sets (`parseline.c:288`), which nobody lifts.
- !tb of a nick it may not ban leaves an entry without a ban (`m_bot.c:867`), by which others are kicked.
- A duration in weeks overflows (`m_bot.c:843`). Not in the model.

Connections and SecServ:

- SIGHUP and REHASH set the number of clones back to the configured one at any level of SecServ (`loadconf.c:31`).
- With SecServ in LoadMod before MaxClones, as docs/static/child.conf:36 has it, a reload puts the level back to 1 though an
  operator fixed it, leaves the channels restricted, and takes the limit of the level (1 or 2) for the configured one
  (`secserv.c:55`). At the start it takes the default, 5 (`child.c:292`), since MaxClones is not read yet; the model
  starts with the configured one.
- REHASH unloads the module whose function is running. Not in the model.
- Channels that are registered while SecServ restricts them are not; a dropped one stays so. A channel is not in the model.
- A KILL names a nick: if the name was taken anew meanwhile, it hits another connection. Excluded in the model.

## Not modelled

- Text, replies, logging, mail, help, HostServ and the configuration parser: no state that
  interacts.
- dlopen and the registries of commands, modules and hooks: filled at start.
- The MySQL client and the socket calls; their effects are modelled in `Persist` and `Net`.
- The bots' own joins and parts, the !commands that only print or set masses of modes; HostServ's requests.
- badwords: it matches text.

## Open ends

What the project does not have, in the order of what it would say:

1. `Members` with renames, as the composition with `Sessions`.
2. An abstract specification of the services' view of the network (what was sent and not taken back), which
   `Members`, `Watch` and `Net` implement; `KnownInv` of `MembersProofs` and
   `TimersProofs`, `QueueInv` of `WatchProofs` and `AgreeInv` of `NetProofs` already say what is under way.
3. The composition of `Links` and `Channels` in one instance of `Persist`, so that userdrop is one step of both tables. Each is shown
   to follow the commands of `Persist` with the other's tables empty.
4. `Hashmap` (`hashmap.c`): buckets, insertion, removal, resizing, safe iteration, refining a
   map for any hash function.

Runs are few by intent: each module gets one run for its invariants and its liveness where that allows
the same instance; a divergence without a run of its own is in the list above.
