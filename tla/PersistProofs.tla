---------------------------- MODULE PersistProofs ----------------------------
(***************************************************************************)
(* Proofs about Persist, for any names, channels, hosts and bots, any      *)
(* number of failures of any kind: the registries in memory never refer to *)
(* what is not there, although the database may, a save that nothing       *)
(* disturbed is restored as it was, and Persist implements Store.          *)
(***************************************************************************)
EXTENDS Persist, TLAPS

\* Which tables there are, and what their rows are.
LEMMA TheTables ==
  /\ Tables = {"users", "chans", "access", "trusts", "links", "bots", "chanbots"}
  /\ Rows["users"] = Names /\ Rows["chans"] = Chans \X Names /\ Rows["access"] = Chans \X Names
  /\ Rows["trusts"] = Hosts /\ Rows["links"] = Names \X Names
  /\ Rows["bots"] = Bots /\ Rows["chanbots"] = Chans \X Bots
  BY DEF Tables, Rows

\* The registries are tables of rows.
MemType == DOMAIN mem = Tables /\ \A t \in Tables : mem[t] \subseteq Rows[t]

\* What the process is doing is one of four things, and a save goes on to two of them.
ProcType ==
  /\ proc = [phase |-> proc.phase, at |-> proc.at, todo |-> proc.todo,
             clean |-> proc.clean, next |-> proc.next]
  /\ proc.phase \in Phases /\ proc.next \in {"down", "running"}

\* A process that is down has nothing in memory; one that loads has not filled the
\* tables that are still to come.
NotLoaded ==
  /\ proc.phase = "down" => mem = Empty
  /\ proc.phase = "loading" =>
       proc.at \in 1 .. 7 /\ \A i \in proc.at .. 7 : mem[LoadProgram[i]] = {}

\* The references of the tables, one table at a time.
ChansJoin(users, chans) ==
  /\ \A r \in chans : r[2] \in users
  /\ \A r, s \in chans : r[1] = s[1] => r = s

AccessJoins(users, chans, access) ==
  \A r \in access : r \notin chans /\ r[2] \in users /\ \E x \in chans : x[1] = r[1]

LinksJoin(users, links) ==
  /\ \A l \in links : l[1] \in users /\ l[2] \in users
  /\ \A l, k \in links : l[2] = k[2] => l = k

BotsJoin(chans, bots, chanbots) ==
  /\ \A r \in chanbots : r[2] \in bots /\ \E x \in chans : x[1] = r[1]
  /\ \A r, s \in chanbots : r[1] = s[1] => r = s

Joined ==
  /\ ChansJoin(mem.users, mem.chans) /\ AccessJoins(mem.users, mem.chans, mem.access)
  /\ LinksJoin(mem.users, mem.links) /\ BotsJoin(mem.chans, mem.bots, mem.chanbots)

PersistInv == MemType /\ ProcType /\ NotLoaded /\ Joined

\* The types of the tables by name.
MemTypes ==
  /\ mem.users \subseteq Names /\ mem.chans \subseteq Chans \X Names
  /\ mem.access \subseteq Chans \X Names /\ mem.trusts \subseteq Hosts
  /\ mem.links \subseteq Names \X Names /\ mem.bots \subseteq Bots
  /\ mem.chanbots \subseteq Chans \X Bots

LEMMA TypesByName == MemType => MemTypes
  BY TheTables DEF MemType, MemTypes

\* A channel's owner, where channels have one owner each.
LEMMA OneOwner ==
  ASSUME MemType, ChansJoin(mem.users, mem.chans), NEW c, NEW u
  PROVE  /\ Registered(mem, c) <=> \E x \in mem.chans : x[1] = c
         /\ u \in Owner(mem, c) <=> <<c, u>> \in mem.chans
         /\ Owner(mem, c) = {u} <=> <<c, u>> \in mem.chans
<1>1. mem.chans \subseteq Chans \X Names
  BY TypesByName DEF MemTypes
<1>2. \A v : v \in Owner(mem, c) <=> <<c, v>> \in mem.chans
  BY <1>1 DEF Owner
<1>3. Registered(mem, c) <=> \E x \in mem.chans : x[1] = c
  BY DEF Registered, Owner
<1>4. Owner(mem, c) = {u} <=> <<c, u>> \in mem.chans
  <2>1. ASSUME Owner(mem, c) = {u} PROVE <<c, u>> \in mem.chans
    BY <1>2, <2>1
  <2>2. ASSUME <<c, u>> \in mem.chans PROVE Owner(mem, c) = {u}
    <3>1. ASSUME NEW v, v \in Owner(mem, c) PROVE v = u
      <4>1. <<c, v>> \in mem.chans
        BY <1>2, <3>1
      <4>2. <<c, v>>[1] = <<c, u>>[1]
        OBVIOUS
      <4>3. <<c, v>> = <<c, u>>
        BY <2>2, <4>1, <4>2 DEF ChansJoin
      <4> QED BY <4>3
    <3> QED BY <1>2, <2>2, <3>1
  <2> QED BY <2>1, <2>2
<1> QED BY <1>2, <1>3, <1>4

\* What is proved is what the invariant of Persist says.
LEMMA JoinedResolves == MemType /\ Joined => ReferencesResolve
<1> SUFFICES ASSUME MemType, Joined PROVE ReferencesResolve
  OBVIOUS
<1>1. MemTypes
  BY TypesByName
<1>2. ASSUME NEW r \in mem.chans PROVE r[2] \in mem.users /\ Owner(mem, r[1]) = {r[2]}
  <2>1. <<r[1], r[2]>> \in mem.chans
    BY <1>1 DEF MemTypes
  <2> QED BY <2>1, OneOwner DEF Joined, ChansJoin
<1>3. ASSUME NEW r \in mem.access
      PROVE  Registered(mem, r[1]) /\ r[2] \in mem.users \ Owner(mem, r[1])
  <2>1. r = <<r[1], r[2]>> /\ r \notin mem.chans
    BY <1>1 DEF MemTypes, Joined, AccessJoins
  <2>2. r[2] \notin Owner(mem, r[1])
    BY <2>1, OneOwner DEF Joined
  <2> QED BY <2>2, OneOwner DEF Joined, AccessJoins
<1>4. ASSUME NEW r \in mem.chanbots PROVE Registered(mem, r[1]) /\ r[2] \in mem.bots
  BY OneOwner DEF Joined, BotsJoin
<1> QED BY <1>2, <1>3, <1>4 DEF ReferencesResolve, Joins, Joined, LinksJoin, BotsJoin

-----------------------------------------------------------------------------
(* Commands *)

\* The tables outside T stay.
Same(T) == \A t \in Tables \ T : mem'[t] = mem[t]

\* A command changes the tables it names.
LEMMA Changed ==
  ASSUME MemType, NEW new, Change(new), DOMAIN new \subseteq Tables,
         \A t \in DOMAIN new : new[t] \subseteq Rows[t]
  PROVE  MemType' /\ Same(DOMAIN new) /\ \A t \in DOMAIN new : mem'[t] = new[t]
<1>1. mem' = [t \in Tables |-> IF t \in DOMAIN new THEN new[t] ELSE mem[t]]
  BY DEF Change
<1> QED BY <1>1 DEF MemType, Same

\* An account comes.
LEMMA RegisterKeeps ==
  ASSUME PersistInv, NEW u \in Names, nick_register(u)
  PROVE  MemType' /\ Joined'
<1>1. PICK new : new = [users |-> mem.users \cup {u}]
  OBVIOUS
<1>2. Change(new) /\ DOMAIN new = {"users"} /\ new["users"] \subseteq Rows["users"]
  BY <1>1, TheTables, TypesByName DEF nick_register, PersistInv, MemTypes
<1>3. MemType' /\ Same({"users"}) /\ mem'.users = mem.users \cup {u}
  BY <1>1, <1>2, Changed, TheTables DEF PersistInv
<1>4. /\ mem'.chans = mem.chans /\ mem'.access = mem.access /\ mem'.links = mem.links
      /\ mem'.bots = mem.bots /\ mem'.chanbots = mem.chanbots
  BY <1>3, TheTables DEF Same
<1> QED BY <1>3, <1>4 DEF PersistInv, Joined, ChansJoin, AccessJoins, LinksJoin, BotsJoin

\* What userdrop leaves of the tables: the channels in owned go, but those in taken
\* to heir.
AfterDrop(u, owned, taken, heir) ==
  [users    |-> mem.users \ {u},
   links    |-> LinksWithout(u),
   chans    |-> Without(mem.chans, owned) \cup {<<c, heir[c]>> : c \in taken},
   access   |-> {r \in Without(mem.access, owned \ taken) :
                   r[2] # u /\ ~(r[1] \in taken /\ r[2] = heir[r[1]])},
   chanbots |-> Without(mem.chanbots, owned \ taken)]

MayInherit(u, taken, heir) ==
  \A c \in taken : heir[c] \in {r[2] : r \in {x \in mem.access : x[1] = c}} \ {u}

\* An account goes: its channels go to somebody with an access, or go too.
LEMMA DropKeeps ==
  ASSUME PersistInv, NEW u \in Names, userdrop(u)
  PROVE  MemType' /\ Joined'
<1>1. PICK owned : owned = {c \in Chans : Owner(mem, c) = {u}}
  OBVIOUS
<1>2. PICK taken \in SUBSET owned :
        \E heir \in [taken -> Names] :
          MayInherit(u, taken, heir) /\ Change(AfterDrop(u, owned, taken, heir))
  BY <1>1, Zenon DEF userdrop, MayInherit, AfterDrop
<1>3. PICK heir \in [taken -> Names] :
        MayInherit(u, taken, heir) /\ Change(AfterDrop(u, owned, taken, heir))
  BY <1>2, Zenon
<1>4. PICK gone, new : gone = owned \ taken /\ new = AfterDrop(u, owned, taken, heir)
  OBVIOUS
<1>5. MemTypes /\ MemType /\ taken \subseteq Chans
  BY <1>1, TypesByName DEF PersistInv
<1>6. /\ DOMAIN new = {"users", "links", "chans", "access", "chanbots"}
      /\ new["users"] = mem.users \ {u} /\ new["links"] = LinksWithout(u)
      /\ new["chans"] = Without(mem.chans, owned) \cup {<<c, heir[c]>> : c \in taken}
      /\ new["access"] = {r \in Without(mem.access, gone) :
                            r[2] # u /\ ~(r[1] \in taken /\ r[2] = heir[r[1]])}
      /\ new["chanbots"] = Without(mem.chanbots, gone)
  BY <1>4 DEF AfterDrop
<1>7. {<<c, heir[c]>> : c \in taken} \subseteq Chans \X Names
  BY <1>5
<1>8. /\ new["users"] \subseteq Rows["users"] /\ new["links"] \subseteq Rows["links"]
      /\ new["chans"] \subseteq Rows["chans"] /\ new["access"] \subseteq Rows["access"]
      /\ new["chanbots"] \subseteq Rows["chanbots"]
  BY <1>5, <1>6, <1>7, TheTables DEF MemTypes, Without, LinksWithout
<1>9. \A t \in DOMAIN new : t \in Tables /\ new[t] \subseteq Rows[t]
  BY <1>6, <1>8, TheTables
<1>10. MemType' /\ Same(DOMAIN new) /\ \A t \in DOMAIN new : mem'[t] = new[t]
  BY <1>3, <1>4, <1>5, <1>9, Changed
<1>11. /\ mem'.users = mem.users \ {u} /\ mem'.links = LinksWithout(u) /\ mem'.bots = mem.bots
       /\ mem'.chans = Without(mem.chans, owned) \cup {<<c, heir[c]>> : c \in taken}
       /\ mem'.access = {r \in Without(mem.access, gone) :
                           r[2] # u /\ ~(r[1] \in taken /\ r[2] = heir[r[1]])}
       /\ mem'.chanbots = Without(mem.chanbots, gone)
  BY <1>6, <1>10, TheTables DEF Same
<1>12. \A c \in Chans : c \in owned <=> <<c, u>> \in mem.chans
  BY <1>1, OneOwner DEF PersistInv, Joined
<1>13. \A c \in taken : <<c, heir[c]>> \in mem.access /\ heir[c] # u /\ heir[c] \in mem.users
  <2>1. ASSUME NEW c \in taken PROVE <<c, heir[c]>> \in mem.access /\ heir[c] # u
    <3>1. PICK r \in mem.access : r[1] = c /\ r[2] = heir[c]
      BY <1>3 DEF MayInherit
    <3>2. r = <<c, heir[c]>>
      BY <1>5, <3>1 DEF MemTypes
    <3> QED BY <1>3, <3>1, <3>2 DEF MayInherit
  <2> QED BY <2>1 DEF PersistInv, Joined, AccessJoins
<1>14. \A r \in mem.chans : r = <<r[1], r[2]>> /\ r[1] \in Chans
  BY <1>5 DEF MemTypes
<1>15. ChansJoin(mem'.users, mem'.chans)
  <2>1. \A r \in mem'.chans : (r \in mem.chans /\ r[1] \notin owned)
                             \/ (r[1] \in taken /\ r[2] = heir[r[1]])
    BY <1>11 DEF Without
  <2>2. \A r \in mem.chans : r[1] \notin owned => r[2] # u
    BY <1>12, <1>14
  <2>3. \A r \in mem'.chans : r[2] \in mem'.users
    BY <1>11, <1>13, <2>1, <2>2 DEF PersistInv, Joined, ChansJoin
  <2>4. \A r, s \in mem'.chans : r[1] = s[1] => r = s
    <3>1. \A r \in mem'.chans : r = <<r[1], r[2]>>
      BY <1>10, TypesByName, TheTables DEF MemType
    <3>2. ASSUME NEW r \in mem'.chans, NEW s \in mem'.chans, r[1] = s[1] PROVE r = s
      <4>1. CASE r[1] \in taken
        BY <2>1, <3>1, <3>2, <4>1
      <4>2. CASE r[1] \notin taken
        BY <2>1, <3>2, <4>2 DEF PersistInv, Joined, ChansJoin
      <4> QED BY <4>1, <4>2
    <3> QED BY <3>2
  <2> QED BY <2>3, <2>4 DEF ChansJoin
<1>16. \A c : c \notin gone /\ (\E x \in mem.chans : x[1] = c) => \E x \in mem'.chans : x[1] = c
  <2> SUFFICES ASSUME NEW c, c \notin gone, NEW x \in mem.chans, x[1] = c
               PROVE  \E y \in mem'.chans : y[1] = c
    OBVIOUS
  <2>1. CASE c \in taken
    <3>1. <<c, heir[c]>> \in mem'.chans /\ <<c, heir[c]>>[1] = c
      BY <1>11, <2>1
    <3> QED BY <3>1
  <2>2. CASE c \notin owned
    BY <1>11, <2>2 DEF Without
  <2> QED BY <1>4, <2>1, <2>2
<1>17. AccessJoins(mem'.users, mem'.chans, mem'.access)
  <2> SUFFICES ASSUME NEW r \in mem'.access
               PROVE  r \notin mem'.chans /\ r[2] \in mem'.users /\ \E x \in mem'.chans : x[1] = r[1]
    BY DEF AccessJoins
  <2>1. /\ r \in mem.access /\ r[1] \notin gone /\ r[2] # u
        /\ ~(r[1] \in taken /\ r[2] = heir[r[1]])
    BY <1>11 DEF Without
  <2>2. r \notin mem.chans /\ r[2] \in mem.users /\ \E x \in mem.chans : x[1] = r[1]
    BY <2>1 DEF PersistInv, Joined, AccessJoins
  <2>3. r \notin mem'.chans
    BY <1>11, <2>1, <2>2 DEF Without
  <2> QED BY <1>11, <1>16, <2>1, <2>2, <2>3
<1>18. LinksJoin(mem'.users, mem'.links)
  BY <1>11 DEF LinksJoin, LinksWithout, PersistInv, Joined
<1>19. BotsJoin(mem'.chans, mem'.bots, mem'.chanbots)
  BY <1>11, <1>16 DEF BotsJoin, Without, PersistInv, Joined
<1> QED BY <1>10, <1>15, <1>17, <1>18, <1>19 DEF Joined

\* A channel comes.
LEMMA ChanRegisterKeeps ==
  ASSUME PersistInv, NEW u \in Names, NEW c \in Chans, chan_register(u, c)
  PROVE  MemType' /\ Joined'
<1>1. PICK new : new = [chans |-> mem.chans \cup {<<c, u>>}]
  OBVIOUS
<1>2. /\ Change(new) /\ u \in mem.users /\ ~Registered(mem, c)
      /\ DOMAIN new = {"chans"} /\ new["chans"] = mem.chans \cup {<<c, u>>}
      /\ new["chans"] \subseteq Rows["chans"]
  BY <1>1, TheTables, TypesByName DEF chan_register, PersistInv, MemTypes
<1>3. MemType' /\ Same({"chans"}) /\ mem'.chans = mem.chans \cup {<<c, u>>}
  BY <1>2, Changed, TheTables DEF PersistInv
<1>4. /\ mem'.users = mem.users /\ mem'.access = mem.access /\ mem'.links = mem.links
      /\ mem'.bots = mem.bots /\ mem'.chanbots = mem.chanbots
  BY <1>3, TheTables DEF Same
<1>5. \A x \in mem.chans : x[1] # c
  BY <1>2, OneOwner DEF PersistInv, Joined
<1>6. ChansJoin(mem'.users, mem'.chans)
  <2>1. \A r \in mem'.chans : r \in mem.chans \/ (r[1] = c /\ r[2] = u /\ r = <<c, u>>)
    BY <1>3
  <2> QED BY <1>2, <1>4, <1>5, <2>1 DEF PersistInv, Joined, ChansJoin
<1>7. \A r \in mem.access : r # <<c, u>>
  BY <1>5 DEF PersistInv, Joined, AccessJoins
<1> QED BY <1>3, <1>4, <1>6, <1>7 DEF PersistInv, Joined, AccessJoins, LinksJoin, BotsJoin

\* A channel goes, with its accesses and its bot.
LEMMA ChanDropKeeps ==
  ASSUME PersistInv, NEW c \in Chans, chandrop(c)
  PROVE  MemType' /\ Joined'
<1>1. PICK new : new = [chans    |-> Without(mem.chans, {c}),
                        access   |-> Without(mem.access, {c}),
                        chanbots |-> Without(mem.chanbots, {c})]
  OBVIOUS
<1>2. /\ Change(new) /\ DOMAIN new = {"chans", "access", "chanbots"}
      /\ new["chans"] = Without(mem.chans, {c}) /\ new["access"] = Without(mem.access, {c})
      /\ new["chanbots"] = Without(mem.chanbots, {c})
  BY <1>1 DEF chandrop
<1>3. /\ new["chans"] \subseteq Rows["chans"] /\ new["access"] \subseteq Rows["access"]
      /\ new["chanbots"] \subseteq Rows["chanbots"]
  BY <1>2, TheTables, TypesByName DEF PersistInv, MemTypes, Without
<1>4. /\ MemType' /\ Same({"chans", "access", "chanbots"})
      /\ mem'.chans = Without(mem.chans, {c}) /\ mem'.access = Without(mem.access, {c})
      /\ mem'.chanbots = Without(mem.chanbots, {c})
  <2>1. DOMAIN new \subseteq Tables /\ \A t \in DOMAIN new : new[t] \subseteq Rows[t]
    BY <1>2, <1>3, TheTables
  <2>2. MemType' /\ Same(DOMAIN new) /\ \A t \in DOMAIN new : mem'[t] = new[t]
    BY <1>2, <2>1, Changed DEF PersistInv
  <2> QED BY <1>2, <2>2
<1>5. mem'.users = mem.users /\ mem'.links = mem.links /\ mem'.bots = mem.bots
  BY <1>4, TheTables DEF Same
<1>6. ChansJoin(mem'.users, mem'.chans)
  BY <1>4, <1>5 DEF PersistInv, Joined, ChansJoin, Without
<1>7. AccessJoins(mem'.users, mem'.chans, mem'.access)
  BY <1>4, <1>5 DEF PersistInv, Joined, AccessJoins, Without
<1>8. BotsJoin(mem'.chans, mem'.bots, mem'.chanbots)
  BY <1>4, <1>5 DEF PersistInv, Joined, BotsJoin, Without
<1> QED BY <1>4, <1>5, <1>6, <1>7, <1>8 DEF PersistInv, Joined

\* A channel goes to somebody else, whose access goes.
LEMMA FounderKeeps ==
  ASSUME PersistInv, NEW u \in Names, NEW c \in Chans, chan_set_founder(c, u)
  PROVE  MemType' /\ Joined'
<1>1. PICK new : new = [chans  |-> Without(mem.chans, {c}) \cup {<<c, u>>},
                        access |-> mem.access \ {<<c, u>>}]
  OBVIOUS
<1>2. /\ Change(new) /\ u \in mem.users /\ DOMAIN new = {"chans", "access"}
      /\ new["chans"] = Without(mem.chans, {c}) \cup {<<c, u>>}
      /\ new["access"] = mem.access \ {<<c, u>>}
  BY <1>1 DEF chan_set_founder
<1>3. new["chans"] \subseteq Rows["chans"] /\ new["access"] \subseteq Rows["access"]
  BY <1>2, TheTables, TypesByName DEF PersistInv, MemTypes, Without
<1>4. /\ MemType' /\ Same({"chans", "access"})
      /\ mem'.chans = Without(mem.chans, {c}) \cup {<<c, u>>} /\ mem'.access = mem.access \ {<<c, u>>}
  <2>1. \A t \in DOMAIN new : t \in Tables /\ new[t] \subseteq Rows[t]
    BY <1>2, <1>3, TheTables
  <2>2. MemType' /\ Same(DOMAIN new) /\ \A t \in DOMAIN new : mem'[t] = new[t]
    BY <1>2, <2>1, Changed DEF PersistInv
  <2> QED BY <1>2, <2>2
<1>5. /\ mem'.users = mem.users /\ mem'.links = mem.links /\ mem'.bots = mem.bots
      /\ mem'.chanbots = mem.chanbots
  BY <1>4, TheTables DEF Same
<1>6. ChansJoin(mem'.users, mem'.chans)
  <2>1. \A r \in mem'.chans : (r \in mem.chans /\ r[1] # c) \/ (r[1] = c /\ r[2] = u /\ r = <<c, u>>)
    BY <1>4 DEF Without
  <2> QED BY <1>2, <1>5, <2>1 DEF PersistInv, Joined, ChansJoin
<1>7. \A x \in mem.chans : \E y \in mem'.chans : y[1] = x[1]
  <2> SUFFICES ASSUME NEW x \in mem.chans PROVE \E y \in mem'.chans : y[1] = x[1]
    OBVIOUS
  <2>1. CASE x[1] = c
    <3>1. <<c, u>> \in mem'.chans /\ <<c, u>>[1] = c
      BY <1>4
    <3> QED BY <2>1, <3>1
  <2>2. CASE x[1] # c
    BY <1>4, <2>2 DEF Without
  <2> QED BY <2>1, <2>2
<1>8. AccessJoins(mem'.users, mem'.chans, mem'.access)
  <2>1. \A r \in mem'.access : r \in mem.access /\ r # <<c, u>>
    BY <1>4
  <2>2. \A r \in mem'.chans : r \in mem.chans \/ r = <<c, u>>
    BY <1>4 DEF Without
  <2> QED BY <1>5, <1>7, <2>1, <2>2 DEF PersistInv, Joined, AccessJoins
<1>9. BotsJoin(mem'.chans, mem'.bots, mem'.chanbots)
  BY <1>5, <1>7 DEF PersistInv, Joined, BotsJoin
<1> QED BY <1>4, <1>5, <1>6, <1>8, <1>9 DEF PersistInv, Joined

\* References of which some go stay good.
LEMMA SmallerKeeps ==
  ASSUME PersistInv, mem'.users = mem.users, mem'.chans = mem.chans,
         mem'.access \subseteq mem.access, mem'.links \subseteq mem.links,
         mem'.chanbots \subseteq mem.chanbots, mem.bots \subseteq mem'.bots
  PROVE  Joined'
<1>1. ChansJoin(mem'.users, mem'.chans) /\ AccessJoins(mem'.users, mem'.chans, mem'.access)
  BY DEF PersistInv, Joined, ChansJoin, AccessJoins
<1>2. LinksJoin(mem'.users, mem'.links)
  BY DEF PersistInv, Joined, LinksJoin
<1>3. BotsJoin(mem'.chans, mem'.bots, mem'.chanbots)
  BY DEF PersistInv, Joined, BotsJoin
<1> QED BY <1>1, <1>2, <1>3 DEF Joined

\* Accesses.
LEMMA AccessKeeps ==
  ASSUME PersistInv, NEW c \in Chans, NEW u \in Names, access_add(c, u) \/ access_del(c, u)
  PROVE  MemType' /\ Joined'
<1>1. CASE access_add(c, u)
  <2>1. PICK new : new = [access |-> mem.access \cup {<<c, u>>}]
    OBVIOUS
  <2>2. /\ Change(new) /\ u \in mem.users /\ Registered(mem, c) /\ Owner(mem, c) # {u}
        /\ DOMAIN new = {"access"} /\ new["access"] = mem.access \cup {<<c, u>>}
        /\ new["access"] \subseteq Rows["access"]
    BY <1>1, <2>1, TheTables, TypesByName DEF access_add, PersistInv, MemTypes
  <2>3. MemType' /\ Same({"access"}) /\ mem'.access = mem.access \cup {<<c, u>>}
    BY <2>2, Changed, TheTables DEF PersistInv
  <2>4. /\ mem'.users = mem.users /\ mem'.chans = mem.chans /\ mem'.links = mem.links
        /\ mem'.bots = mem.bots /\ mem'.chanbots = mem.chanbots
    BY <2>3, TheTables DEF Same
  <2>5. <<c, u>> \notin mem.chans /\ \E x \in mem.chans : x[1] = c
    BY <2>2, OneOwner DEF PersistInv, Joined
  <2>6. AccessJoins(mem'.users, mem'.chans, mem'.access)
    BY <2>2, <2>3, <2>4, <2>5 DEF PersistInv, Joined, AccessJoins
  <2> QED BY <2>3, <2>4, <2>6 DEF PersistInv, Joined
<1>2. CASE access_del(c, u)
  <2>1. PICK new : new = [access |-> mem.access \ {<<c, u>>}]
    OBVIOUS
  <2>2. /\ Change(new) /\ DOMAIN new = {"access"} /\ new["access"] = mem.access \ {<<c, u>>}
        /\ new["access"] \subseteq Rows["access"]
    BY <1>2, <2>1, TheTables, TypesByName DEF access_del, PersistInv, MemTypes
  <2>3. MemType' /\ Same({"access"}) /\ mem'.access \subseteq mem.access
    BY <2>2, Changed, TheTables DEF PersistInv
  <2> QED BY <2>3, SmallerKeeps, TheTables DEF Same
<1> QED BY <1>1, <1>2

\* Links.
LEMMA LinkKeeps ==
  ASSUME PersistInv, NEW u \in Names, NEW m \in Names, nick_link(u, m) \/ nick_unlink(u, m)
  PROVE  MemType' /\ Joined'
<1>1. CASE nick_link(u, m)
  <2>1. PICK new : new = [links |-> mem.links \cup {<<m, u>>}]
    OBVIOUS
  <2>2. /\ Change(new) /\ {u, m} \subseteq mem.users /\ \A l \in mem.links : l[2] # u
        /\ DOMAIN new = {"links"} /\ new["links"] = mem.links \cup {<<m, u>>}
        /\ new["links"] \subseteq Rows["links"]
    BY <1>1, <2>1, TheTables, TypesByName DEF nick_link, PersistInv, MemTypes
  <2>3. MemType' /\ Same({"links"}) /\ mem'.links = mem.links \cup {<<m, u>>}
    BY <2>2, Changed, TheTables DEF PersistInv
  <2>4. /\ mem'.users = mem.users /\ mem'.chans = mem.chans /\ mem'.access = mem.access
        /\ mem'.bots = mem.bots /\ mem'.chanbots = mem.chanbots
    BY <2>3, TheTables DEF Same
  <2>5. \A l \in mem'.links : l \in mem.links \/ (l[1] = m /\ l[2] = u /\ l = <<m, u>>)
    BY <2>3
  <2>6. LinksJoin(mem'.users, mem'.links)
    BY <2>2, <2>4, <2>5 DEF PersistInv, Joined, LinksJoin
  <2> QED BY <2>3, <2>4, <2>6 DEF PersistInv, Joined
<1>2. CASE nick_unlink(u, m)
  <2>1. PICK new : new = [links |-> mem.links \ {<<u, m>>}]
    OBVIOUS
  <2>2. /\ Change(new) /\ DOMAIN new = {"links"} /\ new["links"] = mem.links \ {<<u, m>>}
        /\ new["links"] \subseteq Rows["links"]
    BY <1>2, <2>1, TheTables, TypesByName DEF nick_unlink, PersistInv, MemTypes
  <2>3. MemType' /\ Same({"links"}) /\ mem'.links \subseteq mem.links
    BY <2>2, Changed, TheTables DEF PersistInv
  <2> QED BY <2>3, SmallerKeeps, TheTables DEF Same
<1> QED BY <1>1, <1>2

\* Trusts, which nothing refers to.
LEMMA TrustKeeps ==
  ASSUME PersistInv, NEW h \in Hosts, oper_trustadd(h) \/ oper_trustdel(h)
  PROVE  MemType' /\ Joined'
<1>1. PICK new : Change(new) /\ new \in {[trusts |-> mem.trusts \cup {h}], [trusts |-> mem.trusts \ {h}]}
  BY DEF oper_trustadd, oper_trustdel
<1>2. DOMAIN new = {"trusts"} /\ new["trusts"] \subseteq Rows["trusts"]
  BY <1>1, TheTables, TypesByName DEF PersistInv, MemTypes
<1>3. MemType' /\ Same({"trusts"})
  BY <1>1, <1>2, Changed, TheTables DEF PersistInv
<1> QED BY <1>3, SmallerKeeps, TheTables DEF Same

\* Bots and the channels they are in.
LEMMA BotKeeps ==
  ASSUME PersistInv, NEW b \in Bots, chan_addbot(b) \/ chan_delbot(b)
  PROVE  MemType' /\ Joined'
<1>1. CASE chan_addbot(b)
  <2>1. PICK new : new = [bots |-> mem.bots \cup {b}]
    OBVIOUS
  <2>2. /\ Change(new) /\ DOMAIN new = {"bots"} /\ new["bots"] = mem.bots \cup {b}
        /\ new["bots"] \subseteq Rows["bots"]
    BY <1>1, <2>1, TheTables, TypesByName DEF chan_addbot, PersistInv, MemTypes
  <2>3. MemType' /\ Same({"bots"}) /\ mem.bots \subseteq mem'.bots
    BY <2>2, Changed, TheTables DEF PersistInv
  <2> QED BY <2>3, SmallerKeeps, TheTables DEF Same
<1>2. CASE chan_delbot(b)
  <2>1. PICK new : new = [bots |-> mem.bots \ {b}, chanbots |-> BotlessRows(b)]
    OBVIOUS
  <2>2. /\ Change(new) /\ DOMAIN new = {"bots", "chanbots"}
        /\ new["bots"] = mem.bots \ {b} /\ new["chanbots"] = BotlessRows(b)
    BY <1>2, <2>1 DEF chan_delbot
  <2>3. new["bots"] \subseteq Rows["bots"] /\ new["chanbots"] \subseteq Rows["chanbots"]
    BY <2>2, TheTables, TypesByName DEF PersistInv, MemTypes, BotlessRows
  <2>4. /\ MemType' /\ Same({"bots", "chanbots"})
        /\ mem'.bots = mem.bots \ {b} /\ mem'.chanbots = BotlessRows(b)
    BY <2>2, <2>3, Changed, TheTables DEF PersistInv
  <2>5. /\ mem'.users = mem.users /\ mem'.chans = mem.chans /\ mem'.access = mem.access
        /\ mem'.links = mem.links
    BY <2>4, TheTables DEF Same
  <2>6. BotsJoin(mem'.chans, mem'.bots, mem'.chanbots)
    BY <2>4, <2>5 DEF PersistInv, Joined, BotsJoin, BotlessRows
  <2> QED BY <2>4, <2>5, <2>6 DEF PersistInv, Joined
<1> QED BY <1>1, <1>2

LEMMA AssignKeeps ==
  ASSUME PersistInv, NEW c \in Chans,
         chan_unassign(c) \/ \E b \in Bots : chan_assign(c, b)
  PROVE  MemType' /\ Joined'
<1>1. ASSUME NEW b \in Bots, chan_assign(c, b) PROVE MemType' /\ Joined'
  <2>1. PICK new : new = [chanbots |-> mem.chanbots \cup {<<c, b>>}]
    OBVIOUS
  <2>2. /\ Change(new) /\ Registered(mem, c) /\ b \in mem.bots /\ Botless(c)
        /\ DOMAIN new = {"chanbots"} /\ new["chanbots"] = mem.chanbots \cup {<<c, b>>}
        /\ new["chanbots"] \subseteq Rows["chanbots"]
    BY <1>1, <2>1, TheTables, TypesByName DEF chan_assign, PersistInv, MemTypes
  <2>3. MemType' /\ Same({"chanbots"}) /\ mem'.chanbots = mem.chanbots \cup {<<c, b>>}
    BY <2>2, Changed, TheTables DEF PersistInv
  <2>4. /\ mem'.users = mem.users /\ mem'.chans = mem.chans /\ mem'.access = mem.access
        /\ mem'.links = mem.links /\ mem'.bots = mem.bots
    BY <2>3, TheTables DEF Same
  <2>5. \E x \in mem.chans : x[1] = c
    BY <2>2, OneOwner DEF PersistInv, Joined
  <2>6. \A r \in mem'.chanbots : r \in mem.chanbots \/ (r[1] = c /\ r[2] = b /\ r = <<c, b>>)
    BY <2>3
  <2>7. BotsJoin(mem'.chans, mem'.bots, mem'.chanbots)
    BY <2>2, <2>4, <2>5, <2>6 DEF PersistInv, Joined, BotsJoin, Botless
  <2> QED BY <2>3, <2>4, <2>7 DEF PersistInv, Joined
<1>2. CASE chan_unassign(c)
  <2>1. PICK new : new = [chanbots |-> Without(mem.chanbots, {c})]
    OBVIOUS
  <2>2. /\ Change(new) /\ DOMAIN new = {"chanbots"}
        /\ new["chanbots"] \subseteq mem.chanbots /\ new["chanbots"] \subseteq Rows["chanbots"]
    BY <1>2, <2>1, TheTables, TypesByName DEF chan_unassign, PersistInv, MemTypes, Without
  <2>3. MemType' /\ Same({"chanbots"}) /\ mem'.chanbots \subseteq mem.chanbots
    BY <2>2, Changed, TheTables DEF PersistInv
  <2> QED BY <2>3, SmallerKeeps, TheTables DEF Same
<1> QED BY <1>1, <1>2

\* Every command keeps the invariant.
LEMMA CommandKeeps == PersistInv /\ Command => PersistInv'
<1> SUFFICES ASSUME PersistInv, Command PROVE PersistInv'
  OBVIOUS
<1>1. proc' = proc /\ proc.phase = "running"
  <2>1. \E new : Change(new)
    BY DEF Command, nick_register, userdrop, chan_register, chandrop, chan_set_founder, access_add,
           access_del, nick_link, nick_unlink, oper_trustadd, oper_trustdel, chan_addbot,
           chan_delbot, chan_assign, chan_unassign
  <2> QED BY <2>1 DEF Change, Running
<1>2. ProcType' /\ NotLoaded'
  BY <1>1 DEF PersistInv, ProcType, NotLoaded
<1>3. MemType' /\ Joined'
  <2>1. CASE \E u \in Names : nick_register(u) \/ userdrop(u)
    BY <2>1, RegisterKeeps, DropKeeps
  <2>2. CASE \E c \in Chans : chandrop(c) \/ chan_unassign(c)
    BY <2>2, ChanDropKeeps, AssignKeeps
  <2>3. CASE \E c \in Chans, u \in Names :
               \/ chan_register(u, c) \/ chan_set_founder(c, u)
               \/ access_add(c, u) \/ access_del(c, u)
    BY <2>3, ChanRegisterKeeps, FounderKeeps, AccessKeeps
  <2>4. CASE \E u, v \in Names : nick_link(u, v) \/ nick_unlink(u, v)
    BY <2>4, LinkKeeps
  <2>5. CASE \E h \in Hosts : oper_trustadd(h) \/ oper_trustdel(h)
    BY <2>5, TrustKeeps
  <2>6. CASE \E b \in Bots : chan_addbot(b) \/ chan_delbot(b)
    BY <2>6, BotKeeps
  <2>7. CASE \E c \in Chans, b \in Bots : chan_assign(c, b)
    BY <2>7, AssignKeeps
  <2> QED BY <2>1, <2>2, <2>3, <2>4, <2>5, <2>6, <2>7 DEF Command
<1> QED BY <1>2, <1>3 DEF PersistInv

-----------------------------------------------------------------------------
(* Saving, loading, stopping *)

\* Nothing in memory refers to nothing.
LEMMA EmptyKeeps ==
  ASSUME mem' = Empty PROVE MemType' /\ Joined'
<1>1. \A t \in Tables : mem'[t] = {}
  BY DEF Empty
<1>2. /\ mem'.users = {} /\ mem'.chans = {} /\ mem'.access = {} /\ mem'.links = {}
      /\ mem'.bots = {} /\ mem'.chanbots = {}
  BY <1>1, TheTables
<1>3. MemType'
  BY <1>1 DEF MemType, Empty
<1> QED BY <1>2, <1>3 DEF Joined, ChansJoin, AccessJoins, LinksJoin, BotsJoin

\* A step of a save goes on, or ends as the save was to end.
LEMMA GotoKeeps ==
  ASSUME PersistInv, proc.phase = "saving", NEW j, NEW clean, Goto(j, clean)
  PROVE  PersistInv'
<1>1. CASE j < End
  <2>1. /\ mem' = mem
        /\ proc' = [proc EXCEPT !.at = j, !.clean = clean,
                      !.todo = IF SaveProgram[j][1] = "insert"
                               THEN RowsToWrite(SaveProgram[j][2]) ELSE {}]
    BY <1>1, Zenon DEF Goto
  <2>2. PICK todo : todo = IF SaveProgram[j][1] = "insert"
                           THEN RowsToWrite(SaveProgram[j][2]) ELSE {}
    OBVIOUS
  <2>3. proc' = [proc EXCEPT !.at = j, !.clean = clean, !.todo = todo]
    BY <2>1, <2>2, Zenon
  <2>4. proc' = [phase |-> proc.phase, at |-> j, todo |-> todo, clean |-> clean, next |-> proc.next]
    BY <2>3 DEF PersistInv, ProcType
  <2>5. ProcType' /\ NotLoaded'
    BY <2>4 DEF PersistInv, ProcType, NotLoaded, Phases
  <2> QED BY <2>1, <2>5 DEF PersistInv, MemType, Joined
<1>2. CASE ~(j < End)
  <2>1. proc' = Idle(proc.next) /\ mem' = IF proc.next = "down" THEN Empty ELSE mem
    BY <1>2 DEF Goto
  <2>2. proc.next \in {"down", "running"}
    BY DEF PersistInv, ProcType
  <2>3. ProcType' /\ proc'.phase = proc.next
    BY <2>1, <2>2 DEF Idle, ProcType, Phases
  <2>4. NotLoaded'
    BY <2>1, <2>2, <2>3 DEF NotLoaded
  <2>5. MemType' /\ Joined'
    BY <2>1, EmptyKeeps DEF PersistInv, MemType, Joined
  <2> QED BY <2>3, <2>4, <2>5 DEF PersistInv
<1> QED BY <1>1, <1>2

\* The process ends.
LEMMA StoppedKeeps == PersistInv /\ Stopped => PersistInv'
<1> SUFFICES ASSUME PersistInv, Stopped PROVE PersistInv'
  OBVIOUS
<1>1. mem' = Empty /\ proc' = Idle("down")
  BY DEF Stopped
<1>2. ProcType' /\ NotLoaded'
  BY <1>1 DEF ProcType, NotLoaded, Idle, Phases
<1> QED BY <1>1, <1>2, EmptyKeeps DEF PersistInv

\* A save begins.
LEMMA BeginSaveKeeps ==
  ASSUME PersistInv, NEW next \in {"down", "running"}, BeginSave(next)
  PROVE  PersistInv'
<1>1. mem' = mem /\ proc' = [Idle("saving") EXCEPT !.at = 1, !.next = next]
  BY DEF BeginSave
<1>2. proc' = [phase |-> "saving", at |-> 1, todo |-> {}, clean |-> TRUE, next |-> next]
  BY <1>1 DEF Idle
<1>3. ProcType' /\ NotLoaded'
  BY <1>2 DEF ProcType, NotLoaded, Phases
<1> QED BY <1>1, <1>3 DEF PersistInv, MemType, Joined

\* One step of a save.
LEMMA SaveKeeps == PersistInv /\ (SaveOpen \/ SaveDelete \/ SaveInsert) => PersistInv'
<1> SUFFICES ASSUME PersistInv, SaveOpen \/ SaveDelete \/ SaveInsert PROVE PersistInv'
  OBVIOUS
<1>1. proc.phase = "saving"
  BY DEF SaveOpen, SaveDelete, SaveInsert, At
<1>2. CASE SaveOpen
  BY <1>1, <1>2, GotoKeeps DEF SaveOpen
<1>3. CASE SaveDelete
  BY <1>1, <1>3, GotoKeeps DEF SaveDelete
<1>4. CASE SaveInsert
  <2>1. PICK rest, clean :
          \/ \E j : Goto(j, clean)
          \/ proc' = [proc EXCEPT !.todo = rest, !.clean = clean] /\ mem' = mem
    BY <1>4 DEF SaveInsert
  <2>2. CASE proc' = [proc EXCEPT !.todo = rest, !.clean = clean] /\ mem' = mem
    <3>1. proc' = [phase |-> proc.phase, at |-> proc.at, todo |-> rest, clean |-> clean,
                   next |-> proc.next]
      BY <2>2 DEF PersistInv, ProcType
    <3>2. ProcType' /\ NotLoaded'
      BY <1>1, <3>1 DEF PersistInv, ProcType, NotLoaded
    <3> QED BY <2>2, <3>2 DEF PersistInv, MemType, Joined
  <2> QED BY <1>1, <2>1, <2>2, GotoKeeps
<1> QED BY <1>2, <1>3, <1>4

\* A start.
LEMMA MainKeeps == PersistInv /\ main => PersistInv'
<1> SUFFICES ASSUME PersistInv, main PROVE PersistInv'
  OBVIOUS
<1>1. mem' = mem /\ mem = Empty /\ proc' = [Idle("loading") EXCEPT !.at = 1]
  BY DEF main, PersistInv, NotLoaded
<1>2. proc' = [phase |-> "loading", at |-> 1, todo |-> {}, clean |-> TRUE, next |-> "down"]
  BY <1>1 DEF Idle
<1>3. \A i \in 1 .. 7 : LoadProgram[i] \in Tables
  BY TheTables DEF LoadProgram
<1>4. ProcType' /\ NotLoaded'
  BY <1>1, <1>2, <1>3 DEF ProcType, NotLoaded, Phases, Empty
<1> QED BY <1>1, <1>4 DEF PersistInv, MemType, Joined

\* The order of the tables.
LEMMA LoadOrder ==
  /\ Len(LoadProgram) = 7 /\ \A i \in 1 .. 7 : LoadProgram[i] \in Tables
  /\ LoadProgram[1] = "users" /\ LoadProgram[2] = "links" /\ LoadProgram[3] = "trusts"
  /\ LoadProgram[4] = "chans" /\ LoadProgram[5] = "access" /\ LoadProgram[6] = "bots"
  /\ LoadProgram[7] = "chanbots"
  BY TheTables DEF LoadProgram

\* Table t, the next one, is accepted with the rows read.
Accepted(t, read) ==
  /\ t = LoadProgram[proc.at] /\ read \subseteq Rows[t]
  /\ \A r \in read : Resolves(mem, t, r)
  /\ \A r, s \in read : Key(t, r) = Key(t, s) => r = s
  /\ mem' = [mem EXCEPT ![t] = read]

\* A table that was accepted refers to what was loaded before it, and nothing that
\* was loaded before refers to it.
LEMMA LoadedJoins ==
  ASSUME PersistInv, proc.phase = "loading", NEW t, NEW read, Accepted(t, read)
  PROVE  MemType' /\ Joined'
<1>0. /\ t = LoadProgram[proc.at] /\ read \subseteq Rows[t]
      /\ \A r \in read : Resolves(mem, t, r)
      /\ \A r, s \in read : Key(t, r) = Key(t, s) => r = s
      /\ mem' = [mem EXCEPT ![t] = read]
  BY Zenon DEF Accepted
<1>1. t \in Tables /\ proc.at \in 1 .. 7
  BY <1>0, LoadOrder DEF PersistInv, NotLoaded
<1>2. MemType'
  BY <1>0, <1>1 DEF PersistInv, MemType
<1>3. \A x \in Tables : mem'[x] = IF x = t THEN read ELSE mem[x]
  BY <1>0, <1>1 DEF PersistInv, MemType
<1>4. \A i \in proc.at .. 7 : mem[LoadProgram[i]] = {}
  BY DEF PersistInv, NotLoaded
<1>5. MemTypes
  BY TypesByName DEF PersistInv
<1>6. CASE proc.at = 1
  <2>1. t = "users"
    BY <1>0, <1>6, LoadOrder
  <2>2. mem.links = {} /\ mem.chans = {} /\ mem.access = {} /\ mem.chanbots = {}
    BY <1>4, <1>6, LoadOrder
  <2>3. mem'.links = {} /\ mem'.chans = {} /\ mem'.access = {} /\ mem'.chanbots = {}
    BY <1>3, <2>1, <2>2, TheTables
  <2> QED BY <1>2, <2>3 DEF Joined, ChansJoin, AccessJoins, LinksJoin, BotsJoin
<1>7. CASE proc.at = 2
  <2>1. t = "links"
    BY <1>0, <1>7, LoadOrder
  <2>2. /\ mem'.links = read /\ mem'.users = mem.users /\ mem'.chans = mem.chans
        /\ mem'.access = mem.access /\ mem'.bots = mem.bots /\ mem'.chanbots = mem.chanbots
    BY <1>3, <2>1, TheTables
  <2>3. LinksJoin(mem'.users, mem'.links)
    BY <1>0, <2>1, <2>2 DEF LinksJoin, Resolves, Key
  <2> QED BY <1>2, <2>2, <2>3 DEF PersistInv, Joined
<1>8. CASE proc.at = 3
  <2>1. t = "trusts"
    BY <1>0, <1>8, LoadOrder
  <2>2. /\ mem'.links = mem.links /\ mem'.users = mem.users /\ mem'.chans = mem.chans
        /\ mem'.access = mem.access /\ mem'.bots = mem.bots /\ mem'.chanbots = mem.chanbots
    BY <1>3, <2>1, TheTables
  <2> QED BY <1>2, <2>2 DEF PersistInv, Joined
<1>9. CASE proc.at = 4
  <2>1. t = "chans"
    BY <1>0, <1>9, LoadOrder
  <2>2. mem.access = {} /\ mem.chanbots = {}
    BY <1>4, <1>9, LoadOrder
  <2>3. /\ mem'.chans = read /\ mem'.users = mem.users /\ mem'.links = mem.links
        /\ mem'.access = {} /\ mem'.chanbots = {}
    BY <1>3, <2>1, <2>2, TheTables
  <2>4. ChansJoin(mem'.users, mem'.chans)
    BY <1>0, <2>1, <2>3 DEF ChansJoin, Resolves, Key
  <2> QED BY <1>2, <2>3, <2>4 DEF PersistInv, Joined, AccessJoins, BotsJoin
<1>10. CASE proc.at = 5
  <2>1. t = "access"
    BY <1>0, <1>10, LoadOrder
  <2>2. /\ mem'.access = read /\ mem'.users = mem.users /\ mem'.chans = mem.chans
        /\ mem'.links = mem.links /\ mem'.bots = mem.bots /\ mem'.chanbots = mem.chanbots
    BY <1>3, <2>1, TheTables
  <2>3. ASSUME NEW r \in read
        PROVE  r \notin mem.chans /\ r[2] \in mem.users /\ \E x \in mem.chans : x[1] = r[1]
    <3>1. Registered(mem, r[1]) /\ r[2] \in mem.users \ Owner(mem, r[1])
      BY <1>0, <2>1 DEF Resolves
    <3>2. r = <<r[1], r[2]>>
      BY <1>0, <2>1, TheTables
    <3> QED BY <3>1, <3>2, OneOwner DEF PersistInv, Joined
  <2>4. AccessJoins(mem'.users, mem'.chans, mem'.access)
    BY <2>2, <2>3 DEF AccessJoins
  <2> QED BY <1>2, <2>2, <2>4 DEF PersistInv, Joined
<1>11. CASE proc.at = 6
  <2>1. t = "bots"
    BY <1>0, <1>11, LoadOrder
  <2>2. mem.chanbots = {}
    BY <1>4, <1>11, LoadOrder
  <2>3. /\ mem'.chans = mem.chans /\ mem'.users = mem.users /\ mem'.links = mem.links
        /\ mem'.access = mem.access /\ mem'.chanbots = {}
    BY <1>3, <2>1, <2>2, TheTables
  <2> QED BY <1>2, <2>3 DEF PersistInv, Joined, BotsJoin
<1>12. CASE proc.at = 7
  <2>1. t = "chanbots"
    BY <1>0, <1>12, LoadOrder
  <2>2. /\ mem'.chanbots = read /\ mem'.users = mem.users /\ mem'.chans = mem.chans
        /\ mem'.links = mem.links /\ mem'.bots = mem.bots /\ mem'.access = mem.access
    BY <1>3, <2>1, TheTables
  <2>3. \A r \in read : r[2] \in mem.bots /\ \E x \in mem.chans : x[1] = r[1]
    BY <1>0, <2>1, OneOwner DEF Resolves, PersistInv, Joined
  <2>4. BotsJoin(mem'.chans, mem'.bots, mem'.chanbots)
    BY <1>0, <2>1, <2>2, <2>3 DEF BotsJoin, Key
  <2> QED BY <1>2, <2>2, <2>4 DEF PersistInv, Joined
<1> QED BY <1>1, <1>6, <1>7, <1>8, <1>9, <1>10, <1>11, <1>12

\* A table is loaded, or the process ends.
LEMMA LoadKeeps == PersistInv /\ load_all_db => PersistInv'
<1> SUFFICES ASSUME PersistInv, load_all_db PROVE PersistInv'
  OBVIOUS
<1>1. PICK t, b : t = LoadProgram[proc.at] /\ LoadAs(t, b)
  BY DEF load_all_db
<1>2. proc.phase = "loading" /\ proc.at \in 1 .. 7 /\ t \in Tables
  BY <1>1, LoadOrder DEF load_all_db, PersistInv, NotLoaded
<1>3. CASE ~Loads(mem, t, b)
  <2>1. mem' = Empty /\ proc' = Idle("down")
    BY <1>1, <1>3 DEF LoadAs
  <2>2. ProcType' /\ NotLoaded'
    BY <2>1 DEF ProcType, NotLoaded, Idle, Phases
  <2> QED BY <2>1, <2>2, EmptyKeeps DEF PersistInv
<1>4. CASE Loads(mem, t, b)
  <2>1. PICK read : read = {r \in Rows[t] : b[r] > 0}
    OBVIOUS
  <2>2. /\ mem' = [mem EXCEPT ![t] = read]
        /\ proc' = IF proc.at = Len(LoadProgram) THEN Idle("running") ELSE [proc EXCEPT !.at = @ + 1]
    BY <1>1, <1>4, <2>1, Zenon DEF LoadAs
  <2>3. /\ \A r \in read : Resolves(mem, t, r)
        /\ \A r, s \in read : Key(t, r) = Key(t, s) => r = s
    BY <1>4, <2>1, Zenon DEF Loads
  <2>4. read \subseteq Rows[t]
    BY <2>1
  <2>5. MemType' /\ Joined'
    <3>1. Accepted(t, read)
      BY <1>1, <2>2, <2>3, <2>4, Zenon DEF Accepted
    <3> QED BY <1>2, <3>1, LoadedJoins, Zenon
  <2>6. CASE proc.at = 7
    <3>1. proc' = Idle("running")
      BY <2>2, <2>6, LoadOrder
    <3>2. ProcType' /\ NotLoaded'
      BY <3>1 DEF ProcType, NotLoaded, Idle, Phases
    <3> QED BY <2>5, <3>2 DEF PersistInv
  <2>7. CASE proc.at # 7
    <3>1. proc' = [proc EXCEPT !.at = @ + 1]
      BY <2>2, <2>7, LoadOrder
    <3>2. proc' = [phase |-> proc.phase, at |-> proc.at + 1, todo |-> proc.todo,
                   clean |-> proc.clean, next |-> proc.next]
      BY <3>1 DEF PersistInv, ProcType
    <3>3. ProcType'
      BY <3>2 DEF PersistInv, ProcType
    <3>4. \A i \in proc.at + 1 .. 7 : LoadProgram[i] # t /\ LoadProgram[i] \in Tables
      <4>1. \A i, k \in 1 .. 7 : i # k => LoadProgram[i] # LoadProgram[k]
        BY DEF LoadProgram
      <4> QED BY <1>1, <1>2, <4>1, LoadOrder
    <3>5. \A i \in proc.at + 1 .. 7 : mem'[LoadProgram[i]] = {}
      BY <1>2, <2>2, <3>4 DEF PersistInv, MemType, NotLoaded
    <3>6. NotLoaded'
      BY <1>2, <2>7, <3>2, <3>5 DEF NotLoaded
    <3> QED BY <2>5, <3>3, <3>6 DEF PersistInv
  <2> QED BY <2>6, <2>7
<1> QED BY <1>3, <1>4

\* A process that is down keeps it.
LEMMA PersistInit == Init => PersistInv
<1> SUFFICES ASSUME Init PROVE PersistInv
  OBVIOUS
<1>1. mem = Empty /\ proc = Idle("down")
  BY DEF Init
<1>2. ProcType /\ NotLoaded
  BY <1>1 DEF ProcType, NotLoaded, Idle, Phases
<1>3. \A t \in Tables : mem[t] = {}
  BY <1>1 DEF Empty
<1>4. MemType
  BY <1>1, <1>3 DEF MemType, Empty
<1>5. /\ mem.users = {} /\ mem.chans = {} /\ mem.access = {} /\ mem.links = {}
      /\ mem.bots = {} /\ mem.chanbots = {}
  BY <1>3, TheTables
<1> QED BY <1>2, <1>4, <1>5 DEF PersistInv, Joined, ChansJoin, AccessJoins, LinksJoin, BotsJoin

\* Every step keeps it, whatever is in the database.
LEMMA PersistKept == PersistInv /\ [Next]_vars => PersistInv'
<1> SUFFICES ASSUME PersistInv, [Next]_vars PROVE PersistInv'
  OBVIOUS
<1>1. CASE savealldb \/ Sigint
  <2>1. Stopped \/ \E next \in {"down", "running"} : BeginSave(next)
    BY <1>1 DEF savealldb, Sigint
  <2> QED BY <2>1, StoppedKeeps, BeginSaveKeeps
<1>2. CASE Stop \/ Crash
  BY <1>2, StoppedKeeps DEF Stop, Crash
<1>3. CASE UNCHANGED vars
  BY <1>3 DEF vars, PersistInv, MemType, ProcType, NotLoaded, Joined
<1> QED BY <1>1, <1>2, <1>3, CommandKeeps, SaveKeeps, MainKeeps, LoadKeeps DEF Next

\* However saves are torn, queries lost and accounts, channels and bots dropped, the
\* registries in memory refer to what is there: the load checks keep out what the
\* database does not hold together, and the commands keep it so (load_all_db,
\* userdrop, chandrop, chan_delbot).
THEOREM ReferencesCorrect == Spec => []ReferencesResolve
<1>1. PersistInv => ReferencesResolve
  BY JoinedResolves DEF PersistInv
<1> QED BY <1>1, PersistInit, PersistKept, PTL DEF Spec

-----------------------------------------------------------------------------
(* Types *)

\* The database, the rows still to insert, the last save and the counters.
DiskType == DOMAIN disk = Tables /\ \A t \in Tables : disk[t] \in [Rows[t] -> 0 .. 2]
TodoType == \A w \in proc.todo : w[1] \in Tables /\ w[2] \in Rows[w[1]]
SnapshotType ==
  snapshot = NoSave \/ (DOMAIN snapshot = Tables /\ \A t \in Tables : snapshot[t] \subseteq Rows[t])
CountType == proc.at \in 0 .. 16 /\ proc.clean \in BOOLEAN /\ faults \in 0 .. MaxFaults

RestInv == DiskType /\ TodoType /\ SnapshotType /\ CountType

\* A set of small numbers has a least one.
LEMMA Least ==
  ASSUME NEW S \in SUBSET (1 .. 14), 14 \in S
  PROVE  Min(S) \in S /\ \A y \in S : Min(S) <= y
<1>1. \E x \in S : \A y \in S : x <= y
  <2> SUFFICES ASSUME \A x \in S : \E y \in S : y < x PROVE FALSE
    OBVIOUS
  <2>1. 1 \notin S /\ 2 \notin S /\ 3 \notin S /\ 4 \notin S
    OBVIOUS
  <2>2. 5 \notin S /\ 6 \notin S /\ 7 \notin S /\ 8 \notin S
    BY <2>1
  <2>3. 9 \notin S /\ 10 \notin S /\ 11 \notin S /\ 12 \notin S
    BY <2>1, <2>2
  <2> QED BY <2>1, <2>2, <2>3
<1> QED BY <1>1 DEF Min

\* The length of the program of a save, and its tables.
LEMMA SaveSteps ==
  /\ Len(SaveProgram) = 13 /\ End = 14
  /\ \A i \in 1 .. 13 : SaveProgram[i][2] \in Tables
  BY TheTables DEF SaveProgram, End

\* The step that follows another is one, or the end, and only inserts without rows
\* are left out where nothing failed.
LEMMA NextStep ==
  ASSUME NEW i \in Nat, NEW skip \in BOOLEAN
  PROVE  /\ StepAfter(i, skip) \in 1 .. 14
         /\ i < 14 => i < StepAfter(i, skip)
         /\ ~skip => \A k \in i + 1 .. 13 : k < StepAfter(i, skip) =>
              SaveProgram[k][1] = "insert" /\ RowsToWrite(SaveProgram[k][2]) = {}
<1>1. PICK S : S = {End} \cup {j \in i + 1 .. Len(SaveProgram) :
                      /\ SaveProgram[j][1] = "insert" => RowsToWrite(SaveProgram[j][2]) # {}
                      /\ skip => SaveProgram[j][1] = "open"}
  OBVIOUS
<1>2. S \in SUBSET (1 .. 14) /\ 14 \in S
  BY <1>1, SaveSteps
<1>3. PICK j : j = StepAfter(i, skip)
  OBVIOUS
<1>4. j = Min(S)
  BY <1>1, <1>3, Zenon DEF StepAfter
<1>5. j \in S /\ \A y \in S : j <= y
  BY <1>2, <1>4, Least
<1>6. \A k \in i + 1 .. 13 : k < j /\ ~skip =>
        SaveProgram[k][1] = "insert" /\ RowsToWrite(SaveProgram[k][2]) = {}
  <2> SUFFICES ASSUME NEW k \in i + 1 .. 13, k < j, ~skip
               PROVE  SaveProgram[k][1] = "insert" /\ RowsToWrite(SaveProgram[k][2]) = {}
    OBVIOUS
  <2>1. k \notin S
    BY <1>2, <1>5
  <2> QED BY <1>1, <2>1, SaveSteps
<1>7. j \in 1 .. 14 /\ (i < 14 => i < j)
  BY <1>1, <1>2, <1>5, SaveSteps
<1> QED BY <1>3, <1>6, <1>7, Zenon

\* The same where nothing failed.
LEMMA NextStepPlain ==
  ASSUME NEW i \in 1 .. 13
  PROVE  /\ StepAfter(i, FALSE) \in 1 .. 14 /\ i < StepAfter(i, FALSE)
         /\ \A k \in i + 1 .. 13 : k < StepAfter(i, FALSE) =>
              SaveProgram[k][1] = "insert" /\ RowsToWrite(SaveProgram[k][2]) = {}
<1>1. i \in Nat /\ i < 14
  OBVIOUS
<1>2. PICK skip \in BOOLEAN : skip = FALSE
  OBVIOUS
<1>3. /\ StepAfter(i, skip) \in 1 .. 14
      /\ i < 14 => i < StepAfter(i, skip)
      /\ ~skip => \A k \in i + 1 .. 13 : k < StepAfter(i, skip) =>
           SaveProgram[k][1] = "insert" /\ RowsToWrite(SaveProgram[k][2]) = {}
  BY <1>1, <1>2, NextStep, Zenon
<1> QED BY <1>1, <1>2, <1>3, Zenon

\* The rows to write are rows of the registries.
LEMMA WrittenRows ==
  ASSUME MemType, NEW t \in Tables
  PROVE  \A w \in RowsToWrite(t) : w[1] \in Tables /\ w[2] \in Rows[w[1]]
<1>1. \A w \in RowsToWrite(t) :
        \/ w[1] = t /\ w[2] \in mem[t]
        \/ w[1] = "access" /\ w[2] \in mem.access
  BY DEF RowsToWrite
<1> QED BY <1>1, TheTables DEF MemType

\* Going on with a save keeps the types.
LEMMA GotoTypes ==
  ASSUME PersistInv, RestInv, NEW j \in 1 .. 14, NEW clean \in BOOLEAN, Goto(j, clean)
  PROVE  TodoType' /\ SnapshotType' /\ proc'.at \in 0 .. 16 /\ proc'.clean \in BOOLEAN
<1>1. CASE j < End
  <2>1. PICK todo : todo = IF SaveProgram[j][1] = "insert"
                           THEN RowsToWrite(SaveProgram[j][2]) ELSE {}
    OBVIOUS
  <2>2. /\ snapshot' = snapshot
        /\ proc' = [proc EXCEPT !.at = j, !.clean = clean, !.todo = todo]
    BY <1>1, <2>1, Zenon DEF Goto
  <2>3. proc' = [phase |-> proc.phase, at |-> j, todo |-> todo, clean |-> clean, next |-> proc.next]
    BY <2>2 DEF PersistInv, ProcType
  <2>4. \A w \in todo : w[1] \in Tables /\ w[2] \in Rows[w[1]]
    <3>1. SaveProgram[j][2] \in Tables
      BY <1>1, SaveSteps
    <3> QED BY <2>1, <3>1, WrittenRows DEF PersistInv
  <2> QED BY <2>2, <2>3, <2>4 DEF RestInv, TodoType, SnapshotType
<1>2. CASE ~(j < End)
  <2>1. proc' = Idle(proc.next) /\ snapshot' = IF clean THEN mem ELSE NoSave
    BY <1>2 DEF Goto
  <2>2. SnapshotType'
    BY <2>1 DEF SnapshotType, PersistInv, MemType
  <2> QED BY <2>1, <2>2 DEF TodoType, Idle
<1> QED BY <1>1, <1>2

\* A step of a save keeps the types.
LEMMA SaveTypes ==
  PersistInv /\ RestInv /\ (SaveOpen \/ SaveDelete \/ SaveInsert) => RestInv'
<1> SUFFICES ASSUME PersistInv, RestInv, SaveOpen \/ SaveDelete \/ SaveInsert PROVE RestInv'
  OBVIOUS
<1>1. proc.at \in Nat /\ proc.clean \in BOOLEAN /\ faults \in 0 .. MaxFaults /\ MaxFaults \in Nat
  BY PersistBound DEF RestInv, CountType
<1>2. /\ StepAfter(proc.at, FALSE) \in 1 .. 14
      /\ \A skip \in BOOLEAN : StepAfter(proc.at, skip) \in 1 .. 14
  BY <1>1, NextStep
<1>3. Lost => faults' \in 0 .. MaxFaults
  BY <1>1 DEF Lost, Fails
<1>4. \A j : Done(j) => faults' \in 0 .. MaxFaults
  BY <1>1 DEF Done
<1>5. \A t : DOMAIN Deleted(t) = Tables /\ \A x \in Tables : Deleted(t)[x] \in [Rows[x] -> 0 .. 2]
  BY DEF Deleted, RestInv, DiskType
<1>6. CASE SaveOpen
  <2>1. PICK j \in 1 .. 14, clean \in BOOLEAN : Goto(j, clean)
    BY <1>1, <1>2, <1>6 DEF SaveOpen
  <2>2. DiskType' /\ faults' \in 0 .. MaxFaults
    BY <1>3, <1>4, <1>5, <1>6 DEF SaveOpen, DiskType, RestInv
  <2> QED BY <2>1, <2>2, GotoTypes DEF RestInv, CountType
<1>7. CASE SaveDelete
  <2>1. PICK j \in 1 .. 14, clean \in BOOLEAN : Goto(j, clean)
    BY <1>1, <1>2, <1>7 DEF SaveDelete
  <2>2. DiskType' /\ faults' \in 0 .. MaxFaults
    BY <1>3, <1>4, <1>5, <1>7 DEF SaveDelete, DiskType, RestInv
  <2> QED BY <2>1, <2>2, GotoTypes DEF RestInv, CountType
<1>8. CASE SaveInsert
  <2>1. PICK w \in proc.todo, lost \in BOOLEAN :
          LET rest == proc.todo \ {w}
              j    == StepAfter(proc.at, FALSE)
              clean == proc.clean /\ ~lost
          IN /\ IF lost THEN Lost /\ UNCHANGED disk
                ELSE disk' = Inserted(w) /\ IF rest = {} THEN Done(j) ELSE UNCHANGED faults
             /\ IF rest = {} THEN Goto(j, clean)
                ELSE /\ proc' = [proc EXCEPT !.todo = rest, !.clean = clean]
                     /\ UNCHANGED <<mem, snapshot>>
    BY <1>8 DEF SaveInsert
  <2>2. PICK rest, clean : rest = proc.todo \ {w} /\ clean = (proc.clean /\ ~lost)
    OBVIOUS
  <2>3. w[1] \in Tables /\ w[2] \in Rows[w[1]] /\ clean \in BOOLEAN
    BY <2>2 DEF RestInv, TodoType
  <2>4. DOMAIN Inserted(w) = Tables /\ \A x \in Tables : Inserted(w)[x] \in [Rows[x] -> 0 .. 2]
    <3>1. \A i \in 0 .. 2 : Min({i + 1, 2}) \in 0 .. 2
      <4>1. Min({1, 2}) = 1 /\ Min({2, 2}) = 2 /\ Min({3, 2}) = 2
        BY DEF Min
      <4> QED BY <4>1
    <3>2. disk[w[1]] \in [Rows[w[1]] -> 0 .. 2]
      BY <2>3 DEF RestInv, DiskType
    <3>3. [disk[w[1]] EXCEPT ![w[2]] = Min({@ + 1, 2})] \in [Rows[w[1]] -> 0 .. 2]
      BY <2>3, <3>1, <3>2
    <3> QED BY <2>3, <3>3 DEF Inserted, RestInv, DiskType
  <2>5. DiskType' /\ faults' \in 0 .. MaxFaults
    <3>1. (Lost /\ UNCHANGED disk) \/ (disk' = Inserted(w) /\ faults' \in 0 .. MaxFaults)
      BY <1>1, <1>4, <2>1, Zenon
    <3> QED BY <1>3, <2>4, <3>1 DEF DiskType, RestInv
  <2>6. CASE rest = {}
    <3>1. Goto(StepAfter(proc.at, FALSE), clean)
      BY <2>1, <2>2, <2>6, Zenon
    <3> QED BY <1>2, <2>3, <2>5, <3>1, GotoTypes DEF RestInv, CountType
  <2>7. CASE rest # {}
    <3>1. proc' = [proc EXCEPT !.todo = rest, !.clean = clean] /\ UNCHANGED snapshot
      BY <2>1, <2>2, <2>7, Zenon
    <3>2. proc' = [phase |-> proc.phase, at |-> proc.at, todo |-> rest, clean |-> clean,
                   next |-> proc.next]
      BY <3>1 DEF PersistInv, ProcType
    <3> QED BY <2>2, <2>3, <2>5, <3>1, <3>2 DEF RestInv, TodoType, SnapshotType, CountType
  <2> QED BY <2>6, <2>7
<1> QED BY <1>6, <1>7, <1>8

\* The initial registries have their types, and every step keeps them.
LEMMA RestInit == Init => RestInv
  BY PersistBound DEF Init, Idle, RestInv, DiskType, TodoType, SnapshotType, CountType

LEMMA RestKept == PersistInv /\ RestInv /\ [Next]_vars => RestInv'
<1> SUFFICES ASSUME PersistInv, RestInv, [Next]_vars PROVE RestInv'
  OBVIOUS
<1>1. ASSUME Stopped PROVE RestInv'
  BY <1>1 DEF Stopped, Idle, RestInv, DiskType, TodoType, SnapshotType, CountType
<1>2. ASSUME NEW next, BeginSave(next) PROVE RestInv'
  <2>1. proc' = [phase |-> "saving", at |-> 1, todo |-> {}, clean |-> TRUE, next |-> next]
    BY <1>2 DEF BeginSave, Idle
  <2>2. TodoType' /\ proc'.at \in 0 .. 16 /\ proc'.clean \in BOOLEAN
    BY <2>1 DEF TodoType
  <2> QED BY <1>2, <2>2 DEF BeginSave, RestInv, DiskType, SnapshotType, CountType
<1>3. CASE savealldb \/ Sigint \/ Stop \/ Crash
  BY <1>1, <1>2, <1>3 DEF savealldb, Sigint, Stop, Crash
<1>4. CASE SaveOpen \/ SaveDelete \/ SaveInsert
  BY <1>4, SaveTypes
<1>5. CASE main
  <2>1. proc' = [phase |-> "loading", at |-> 1, todo |-> {}, clean |-> TRUE, next |-> "down"]
    BY <1>5 DEF main, Idle
  <2>2. TodoType' /\ proc'.at \in 0 .. 16 /\ proc'.clean \in BOOLEAN
    BY <2>1 DEF TodoType
  <2> QED BY <1>5, <2>2 DEF main, RestInv, DiskType, SnapshotType, CountType
<1>6. CASE load_all_db
  <2>1. UNCHANGED <<disk, snapshot>> /\ faults' \in 0 .. MaxFaults
    BY <1>6, PersistBound DEF load_all_db, Fails, RestInv, CountType
  <2>2. proc.at \in 1 .. 7 /\ proc = [phase |-> proc.phase, at |-> proc.at, todo |-> proc.todo,
                                      clean |-> proc.clean, next |-> proc.next]
    BY <1>6 DEF load_all_db, PersistInv, ProcType, NotLoaded
  <2>3. proc' \in {Idle("running"), Idle("down"), [proc EXCEPT !.at = @ + 1]}
    BY <1>6 DEF load_all_db, LoadAs
  <2>4. TodoType' /\ proc'.at \in 0 .. 16 /\ proc'.clean \in BOOLEAN
    <3>1. CASE proc' = [proc EXCEPT !.at = @ + 1]
      <4>1. proc' = [phase |-> proc.phase, at |-> proc.at + 1, todo |-> proc.todo,
                     clean |-> proc.clean, next |-> proc.next]
        BY <2>2, <3>1
      <4>2. proc'.at = proc.at + 1 /\ proc'.todo = proc.todo
        BY <4>1
      <4>3. proc'.clean = proc.clean
        BY <4>1, Zenon
      <4>4. TodoType' /\ proc'.at \in 0 .. 16
        BY <2>2, <4>2 DEF RestInv, TodoType
      <4>5. proc'.clean \in BOOLEAN
        BY <4>3, Zenon DEF RestInv, CountType
      <4> QED BY <4>4, <4>5
    <3>2. ASSUME NEW x, proc' = Idle(x)
          PROVE  TodoType' /\ proc'.at \in 0 .. 16 /\ proc'.clean \in BOOLEAN
      <4>1. proc'.at = 0 /\ proc'.todo = {}
        BY <3>2 DEF Idle
      <4>2. proc'.clean = TRUE
        BY <3>2 DEF Idle
      <4>3. TodoType' /\ proc'.at \in 0 .. 16
        BY <4>1 DEF TodoType
      <4> QED BY <4>2, <4>3, Zenon
    <3> QED BY <2>3, <3>1, <3>2
  <2> QED BY <2>1, <2>4 DEF RestInv, DiskType, SnapshotType, CountType
<1>7. CASE Command
  <2>1. \E new : Change(new)
    BY <1>7 DEF Command, nick_register, userdrop, chan_register, chandrop, chan_set_founder,
           access_add, access_del, nick_link, nick_unlink, oper_trustadd, oper_trustdel,
           chan_addbot, chan_delbot, chan_assign, chan_unassign
  <2> QED BY <2>1 DEF Change, RestInv, DiskType, TodoType, SnapshotType, CountType
<1>8. CASE UNCHANGED vars
  BY <1>8 DEF vars, RestInv, DiskType, TodoType, SnapshotType, CountType
<1> QED BY <1>3, <1>4, <1>5, <1>6, <1>7, <1>8 DEF Next

\* Every variable keeps its type: no row appears in a table that is not one of it,
\* whatever is torn, doubled or lost (savealldb, load_all_db).
THEOREM TypeCorrect == Spec => []TypeOK
<1>1. PersistInv /\ RestInv => TypeOK
  BY DEF PersistInv, MemType, ProcType, RestInv, DiskType, TodoType, SnapshotType, CountType, TypeOK
<1> QED BY <1>1, RestInit, RestKept, PersistInit, PersistKept, PTL DEF Spec

-----------------------------------------------------------------------------
(* What a save has written *)

\* The steps of a save that delete a table and that insert its rows.
DeletedAt ==
  [users |-> 1, chans |-> 3, access |-> 4, trusts |-> 6, links |-> 8, bots |-> 10, chanbots |-> 12]

InsertedAt ==
  [users |-> 2, chans |-> 5, access |-> 5, trusts |-> 7, links |-> 9, bots |-> 11, chanbots |-> 13]

LEMMA StepsOfTables ==
  /\ \A t \in Tables : /\ DeletedAt[t] \in 1 .. 13 /\ InsertedAt[t] \in 1 .. 13
                       /\ DeletedAt[t] < InsertedAt[t]
                       /\ SaveProgram[DeletedAt[t]][1] # "insert"
                       /\ SaveProgram[DeletedAt[t]][2] = t
                       /\ SaveProgram[InsertedAt[t]][1] = "insert"
  /\ \A i \in 1 .. 13 : SaveProgram[i][1] # "insert" => DeletedAt[SaveProgram[i][2]] = i
<1>1. \A t \in Tables : /\ DeletedAt[t] \in 1 .. 13 /\ InsertedAt[t] \in 1 .. 13
                        /\ DeletedAt[t] < InsertedAt[t]
  BY TheTables DEF DeletedAt, InsertedAt
<1>2. \A t \in Tables : /\ SaveProgram[DeletedAt[t]][1] # "insert"
                        /\ SaveProgram[DeletedAt[t]][2] = t
                        /\ SaveProgram[InsertedAt[t]][1] = "insert"
  BY TheTables DEF DeletedAt, InsertedAt, SaveProgram
<1>3. \A i \in 1 .. 13 : SaveProgram[i][1] # "insert" => DeletedAt[SaveProgram[i][2]] = i
  BY DEF DeletedAt, SaveProgram
<1> QED BY <1>1, <1>2, <1>3

\* An insert step writes the tables that are inserted there.
LEMMA RowsOfSteps ==
  /\ \A t \in Tables : \A r \in mem[t] : <<t, r>> \in RowsToWrite(SaveProgram[InsertedAt[t]][2])
  /\ \A i \in 1 .. 13 : SaveProgram[i][1] = "insert" =>
       \A w \in RowsToWrite(SaveProgram[i][2]) :
         w = <<w[1], w[2]>> /\ w[1] \in Tables /\ w[2] \in mem[w[1]] /\ InsertedAt[w[1]] = i
<1>1. ASSUME NEW t \in Tables, NEW r \in mem[t]
      PROVE  <<t, r>> \in RowsToWrite(SaveProgram[InsertedAt[t]][2])
  <2>1. \/ SaveProgram[InsertedAt[t]][2] = t
        \/ SaveProgram[InsertedAt[t]][2] = "chans" /\ t = "access"
    BY TheTables DEF InsertedAt, SaveProgram
  <2> QED BY <2>1 DEF RowsToWrite
<1>2. ASSUME NEW i \in 1 .. 13, SaveProgram[i][1] = "insert", NEW w \in RowsToWrite(SaveProgram[i][2])
      PROVE  w = <<w[1], w[2]>> /\ w[1] \in Tables /\ w[2] \in mem[w[1]] /\ InsertedAt[w[1]] = i
  <2>1. PICK t : t = SaveProgram[i][2]
    OBVIOUS
  <2>2. t \in Tables /\ InsertedAt[t] = i /\ (t = "chans" => InsertedAt["access"] = i)
    BY <1>2, <2>1, TheTables DEF InsertedAt, SaveProgram
  <2>3. \/ \E r \in mem[t] : w = <<t, r>>
        \/ t = "chans" /\ \E r \in mem.access : w = <<"access", r>>
    BY <2>1 DEF RowsToWrite
  <2> QED BY <2>2, <2>3, TheTables
<1> QED BY <1>1, <1>2

\* At step i, with the rows in todo still to write, table t holds row r.
Written(i, todo, t, r) ==
  r \in mem[t] /\ (i > InsertedAt[t] \/ (i = InsertedAt[t] /\ <<t, r>> \notin todo))

\* Database d is that of a save that came to step i without being disturbed.
SavedTo(d, i, todo) ==
  \A t \in Tables : i > DeletedAt[t] =>
    \A r \in Rows[t] : d[t][r] = IF Written(i, todo, t, r) THEN 1 ELSE 0

\* ... and has done step i.
Completed(d, i) ==
  \A t \in Tables : i >= DeletedAt[t] =>
    \A r \in Rows[t] : d[t][r] = IF r \in mem[t] /\ i >= InsertedAt[t] THEN 1 ELSE 0

\* From one step to the next.
LEMMA Advance ==
  ASSUME PersistInv, NEW d, NEW i \in 1 .. 13, Completed(d, i), NEW todo,
         StepAfter(i, FALSE) < 14 /\ SaveProgram[StepAfter(i, FALSE)][1] = "insert" =>
           todo = RowsToWrite(SaveProgram[StepAfter(i, FALSE)][2])
  PROVE  SavedTo(d, StepAfter(i, FALSE), todo)
<1>1. PICK j : j = StepAfter(i, FALSE)
  OBVIOUS
<1>2. /\ j \in 1 .. 14 /\ i < j
      /\ \A k \in i + 1 .. 13 : k < j =>
           SaveProgram[k][1] = "insert" /\ RowsToWrite(SaveProgram[k][2]) = {}
  BY <1>1, NextStepPlain
<1>3. ASSUME NEW t \in Tables, j > DeletedAt[t], NEW r \in Rows[t]
      PROVE  d[t][r] = IF Written(j, todo, t, r) THEN 1 ELSE 0
  <2>1. i >= DeletedAt[t]
    BY <1>2, <1>3, StepsOfTables
  <2>2. d[t][r] = IF r \in mem[t] /\ i >= InsertedAt[t] THEN 1 ELSE 0
    BY <2>1 DEF Completed
  <2>3. InsertedAt[t] \in 1 .. 13
    BY StepsOfTables
  <2>4. CASE i >= InsertedAt[t]
    BY <1>2, <2>2, <2>3, <2>4 DEF Written
  <2>5. CASE i < InsertedAt[t] /\ InsertedAt[t] < j
    <3>1. PICK k : k = InsertedAt[t]
      OBVIOUS
    <3>2. k \in i + 1 .. 13 /\ k < j
      BY <2>3, <2>5, <3>1
    <3>3. RowsToWrite(SaveProgram[k][2]) = {}
      BY <1>2, <3>2
    <3>4. r \notin mem[t]
      BY <3>1, <3>3, RowsOfSteps
    <3> QED BY <2>2, <2>5, <2>3, <3>4 DEF Written
  <2>6. CASE InsertedAt[t] = j
    <3>1. j < 14 /\ SaveProgram[j][1] = "insert"
      BY <2>3, <2>6, StepsOfTables
    <3>2. todo = RowsToWrite(SaveProgram[j][2])
      BY <1>1, <3>1
    <3>3. ~Written(j, todo, t, r)
      BY <1>2, <2>6, <3>2, RowsOfSteps DEF Written
    <3> QED BY <1>2, <2>2, <2>6, <3>3
  <2>7. CASE InsertedAt[t] > j
    BY <1>2, <2>2, <2>3, <2>7 DEF Written
  <2> QED BY <1>2, <2>3, <2>4, <2>5, <2>6, <2>7
<1> QED BY <1>1, <1>3 DEF SavedTo

\* A DELETE is done.
LEMMA DeleteDone ==
  ASSUME RestInv, NEW i \in 1 .. 13, SaveProgram[i][1] # "insert", NEW todo, SavedTo(disk, i, todo)
  PROVE  Completed(Deleted(SaveProgram[i][2]), i)
<1>1. PICK s : s = SaveProgram[i][2]
  OBVIOUS
<1>2. s \in Tables /\ DeletedAt[s] = i
  BY <1>1, SaveSteps, StepsOfTables
<1>3. ASSUME NEW t \in Tables, i >= DeletedAt[t], NEW r \in Rows[t]
      PROVE  Deleted(s)[t][r] = IF r \in mem[t] /\ i >= InsertedAt[t] THEN 1 ELSE 0
  <2>1. InsertedAt[t] \in 1 .. 13 /\ DeletedAt[t] \in 1 .. 13 /\ DeletedAt[t] < InsertedAt[t]
    BY StepsOfTables
  <2>2. CASE t = s
    <3>1. Deleted(s)[t][r] = 0
      BY <1>2, <2>2 DEF Deleted, RestInv, DiskType
    <3> QED BY <1>2, <2>1, <2>2, <3>1
  <2>3. CASE t # s
    <3>1. Deleted(s)[t][r] = disk[t][r]
      BY <1>2, <2>3 DEF Deleted, RestInv, DiskType
    <3>2. i # DeletedAt[t] /\ i # InsertedAt[t]
      BY <1>1, <2>3, StepsOfTables
    <3>3. disk[t][r] = IF Written(i, todo, t, r) THEN 1 ELSE 0
      BY <1>3, <2>1, <3>2 DEF SavedTo
    <3> QED BY <2>1, <3>1, <3>2, <3>3 DEF Written
  <2> QED BY <2>2, <2>3
<1> QED BY <1>1, <1>3 DEF Completed

\* One INSERT is done, of several or the last.
LEMMA InsertDone ==
  ASSUME PersistInv, RestInv, NEW i \in 1 .. 13, SaveProgram[i][1] = "insert", NEW todo,
         todo \subseteq RowsToWrite(SaveProgram[i][2]), SavedTo(disk, i, todo), NEW w \in todo
  PROVE  SavedTo(Inserted(w), i, todo \ {w})
         /\ (todo \ {w} = {} => Completed(Inserted(w), i))
<1>1. w = <<w[1], w[2]>> /\ w[1] \in Tables /\ w[2] \in mem[w[1]] /\ InsertedAt[w[1]] = i
  BY RowsOfSteps
<1>2. w[2] \in Rows[w[1]]
  BY <1>1 DEF PersistInv, MemType
<1>3. disk[w[1]][w[2]] = 0
  <2>1. i > DeletedAt[w[1]] /\ DeletedAt[w[1]] \in 1 .. 13
    BY <1>1, StepsOfTables
  <2>2. ~Written(i, todo, w[1], w[2])
    BY <1>1 DEF Written
  <2> QED BY <1>1, <1>2, <2>1, <2>2 DEF SavedTo
<1>4. Min({0 + 1, 2}) = 1
  BY DEF Min
<1>5. \A t \in Tables : \A r \in Rows[t] :
        Inserted(w)[t][r] = IF t = w[1] /\ r = w[2] THEN 1 ELSE disk[t][r]
  <2>1. Inserted(w) = [disk EXCEPT ![w[1]] = [disk[w[1]] EXCEPT ![w[2]] = Min({disk[w[1]][w[2]] + 1, 2})]]
    BY <1>1, <1>2 DEF Inserted, RestInv, DiskType
  <2>2. Inserted(w) = [disk EXCEPT ![w[1]] = [disk[w[1]] EXCEPT ![w[2]] = 1]]
    BY <1>3, <1>4, <2>1, Zenon
  <2> QED BY <1>1, <1>2, <2>2 DEF RestInv, DiskType
<1>6. SavedTo(Inserted(w), i, todo \ {w})
  <2> SUFFICES ASSUME NEW t \in Tables, i > DeletedAt[t], NEW r \in Rows[t]
               PROVE  Inserted(w)[t][r] = IF Written(i, todo \ {w}, t, r) THEN 1 ELSE 0
    BY DEF SavedTo
  <2>1. disk[t][r] = IF Written(i, todo, t, r) THEN 1 ELSE 0
    BY DEF SavedTo
  <2>2. CASE t = w[1] /\ r = w[2]
    BY <1>1, <1>5, <2>2 DEF Written
  <2>3. CASE ~(t = w[1] /\ r = w[2])
    <3>1. <<t, r>> # w
      BY <1>1, <2>3
    <3>2. Written(i, todo \ {w}, t, r) <=> Written(i, todo, t, r)
      BY <3>1 DEF Written
    <3> QED BY <1>5, <2>1, <2>3, <3>2
  <2> QED BY <2>2, <2>3
<1>7. ASSUME todo \ {w} = {} PROVE Completed(Inserted(w), i)
  <2> SUFFICES ASSUME NEW t \in Tables, i >= DeletedAt[t], NEW r \in Rows[t]
               PROVE  Inserted(w)[t][r] = IF r \in mem[t] /\ i >= InsertedAt[t] THEN 1 ELSE 0
    BY DEF Completed
  <2>1. i > DeletedAt[t] /\ InsertedAt[t] \in 1 .. 13
    BY StepsOfTables
  <2>2. Written(i, {}, t, r) <=> r \in mem[t] /\ i >= InsertedAt[t]
    BY <2>1 DEF Written
  <2> QED BY <1>6, <1>7, <2>1, <2>2 DEF SavedTo
<1> QED BY <1>6, <1>7

\* The database that is the image of the registries is accepted, table by table.
LEMMA ImageLoads ==
  ASSUME MemType, Joined, NEW t \in Tables, NEW b,
         \A r \in Rows[t] : b[r] = IF r \in mem[t] THEN 1 ELSE 0
  PROVE  Loads(mem, t, b)
<1>1. MemTypes
  BY TypesByName
<1>2. {r \in Rows[t] : b[r] > 0} = mem[t]
  BY DEF MemType
<1>3. \A r \in mem[t] : b[r] = 1
  BY DEF MemType
<1>4. ReferencesResolve
  BY JoinedResolves
<1>5. ASSUME NEW r \in mem[t] PROVE Resolves(mem, t, r)
  BY <1>4, TheTables DEF Resolves, ReferencesResolve, Joins
<1>6. ASSUME NEW r \in mem[t], NEW s \in mem[t], Key(t, r) = Key(t, s) PROVE r = s
  BY <1>6, TheTables DEF Key, Joined, ChansJoin, LinksJoin, BotsJoin
<1> QED BY <1>2, <1>3, <1>5, <1>6 DEF Loads

\* A save that is under way and was not disturbed has done all of its work so far.
Saving(at, todo) ==
  /\ at \in 1 .. 13
  /\ SaveProgram[at][1] = "insert" => todo \subseteq RowsToWrite(SaveProgram[at][2])
  /\ SavedTo(disk, at, todo)

SaveInv ==
  /\ proc.phase = "saving" => snapshot = NoSave /\ (proc.clean => Saving(proc.at, proc.todo))
  /\ IntactSaveIsRestored

\* The save goes on with what it has to do at step j, or is over.
LEMMA GotoSaves ==
  ASSUME PersistInv, RestInv', proc.phase = "saving", snapshot = NoSave,
         NEW j \in 1 .. 14, NEW clean \in BOOLEAN, Goto(j, clean),
         clean => \A todo : (j < 14 /\ SaveProgram[j][1] = "insert" =>
                               todo = RowsToWrite(SaveProgram[j][2])) => SavedTo(disk', j, todo)
  PROVE  SaveInv'
<1>1. CASE j < 14
  <2>1. PICK todo : todo = IF SaveProgram[j][1] = "insert"
                           THEN RowsToWrite(SaveProgram[j][2]) ELSE {}
    OBVIOUS
  <2>2. UNCHANGED <<mem, snapshot>> /\ proc' = [proc EXCEPT !.at = j, !.clean = clean, !.todo = todo]
    <3>1. j < End
      BY <1>1, SaveSteps
    <3> QED BY <2>1, <3>1, Zenon DEF Goto
  <2>3. proc' = [phase |-> proc.phase, at |-> j, todo |-> todo, clean |-> clean, next |-> proc.next]
    BY <2>2 DEF PersistInv, ProcType
  <2>4. proc'.at = j /\ proc'.todo = todo /\ snapshot' = NoSave
    BY <2>2, <2>3
  <2>5. proc'.clean = clean
    BY <2>3, Zenon
  <2>6. ASSUME clean PROVE Saving(j, todo)'
    <3>1. SavedTo(disk', j, todo)
      BY <2>1, <2>6
    <3>2. SavedTo(disk, j, todo)'
      BY <2>2, <3>1 DEF SavedTo, Written
    <3>3. SaveProgram[j][1] = "insert" => todo \subseteq RowsToWrite(SaveProgram[j][2])'
      BY <2>1, <2>2 DEF RowsToWrite
    <3> QED BY <1>1, <3>2, <3>3 DEF Saving
  <2>7. proc'.clean => Saving(proc.at, proc.todo)'
    BY <2>4, <2>5, <2>6, Zenon
  <2> QED BY <2>4, <2>7 DEF SaveInv, IntactSaveIsRestored
<1>2. CASE j = 14
  <2>1. proc' = Idle(proc.next) /\ snapshot' = IF clean THEN mem ELSE NoSave
    BY <1>2, SaveSteps DEF Goto
  <2>2. proc'.phase # "saving"
    BY <2>1 DEF Idle, PersistInv, ProcType
  <2>3. CASE ~clean
    BY <2>1, <2>2, <2>3 DEF SaveInv, IntactSaveIsRestored
  <2>4. CASE clean
    <3>1. SavedTo(disk', 14, {})
      BY <1>2, <2>4
    <3>2. \A t \in Tables : \A r \in Rows[t] : disk'[t][r] = IF r \in mem[t] THEN 1 ELSE 0
      BY <3>1, StepsOfTables DEF SavedTo, Written
    <3>3. \A t \in Tables : disk'[t] = [r \in Rows[t] |-> IF r \in mem[t] THEN 1 ELSE 0]
      BY <3>2 DEF RestInv, DiskType
    <3>4. \A t \in Tables : Loads(mem, t, disk'[t])
      BY <3>2, ImageLoads DEF PersistInv
    <3>5. snapshot' = mem
      BY <2>1, <2>4
    <3> QED BY <2>2, <3>3, <3>4, <3>5 DEF SaveInv, IntactSaveIsRestored
  <2> QED BY <2>3, <2>4
<1> QED BY <1>1, <1>2

\* One step of a save.
LEMMA SaveSaves ==
  ASSUME PersistInv, RestInv, RestInv', SaveInv, SaveOpen \/ SaveDelete \/ SaveInsert
  PROVE  SaveInv'
<1>1. proc.phase = "saving" /\ snapshot = NoSave
  BY DEF SaveOpen, SaveDelete, SaveInsert, At, SaveInv
<1>2. PICK i, todo : i = proc.at /\ todo = proc.todo
  OBVIOUS
<1>3. PICK clean \in BOOLEAN : clean = proc.clean
  BY DEF RestInv, CountType
<1>4. clean => Saving(i, todo)
  BY <1>1, <1>2, <1>3, Zenon DEF SaveInv
<1>5. \A skip \in BOOLEAN : StepAfter(i, skip) \in 1 .. 14
  BY <1>2, NextStep DEF RestInv, CountType
<1>6. ASSUME NEW skip \in BOOLEAN, Goto(StepAfter(i, skip), FALSE) PROVE SaveInv'
  BY <1>1, <1>5, <1>6, GotoSaves
<1>7. ASSUME NEW well \in BOOLEAN, Goto(StepAfter(i, FALSE), well),
             well => i \in 1 .. 13 /\ Completed(disk', i)
      PROVE  SaveInv'
  <2>1. StepAfter(i, FALSE) \in 1 .. 14
    BY <1>5
  <2>2. PICK j : j = StepAfter(i, FALSE)
    OBVIOUS
  <2>3. well => \A rows : (j < 14 /\ SaveProgram[j][1] = "insert" =>
                              rows = RowsToWrite(SaveProgram[j][2])) => SavedTo(disk', j, rows)
    BY <1>7, <2>2, Advance
  <2>4. Goto(j, well) /\ j \in 1 .. 14
    BY <1>7, <2>1, <2>2, Zenon
  <2> QED BY <1>1, <2>3, <2>4, GotoSaves
<1>8. CASE SaveOpen \/ SaveDelete
  <2>1. \/ \E skip \in BOOLEAN : Goto(StepAfter(i, skip), FALSE)
        \/ disk' = Deleted(SaveProgram[i][2]) /\ Goto(StepAfter(i, FALSE), clean)
    BY <1>2, <1>3, <1>8, Zenon DEF SaveOpen, SaveDelete
  <2>2. SaveProgram[i][1] # "insert"
    BY <1>2, <1>8 DEF SaveOpen, SaveDelete, At
  <2>3. CASE disk' = Deleted(SaveProgram[i][2]) /\ Goto(StepAfter(i, FALSE), clean)
    <3>1. clean => i \in 1 .. 13 /\ Completed(disk', i)
      BY <1>4, <2>2, <2>3, DeleteDone DEF Saving
    <3> QED BY <1>7, <2>3, <3>1
  <2> QED BY <1>6, <2>1, <2>3
<1>9. CASE SaveInsert
  <2>1. SaveProgram[i][1] = "insert"
    BY <1>2, <1>9 DEF SaveInsert, At
  <2>2. PICK w \in todo, lost \in BOOLEAN :
          LET rest == todo \ {w}
              j    == StepAfter(i, FALSE)
              well == proc.clean /\ ~lost
          IN /\ IF lost THEN Lost /\ UNCHANGED disk
                ELSE disk' = Inserted(w) /\ IF rest = {} THEN Done(j) ELSE UNCHANGED faults
             /\ IF rest = {} THEN Goto(j, well)
                ELSE /\ proc' = [proc EXCEPT !.todo = rest, !.clean = well]
                     /\ UNCHANGED <<mem, snapshot>>
    BY <1>2, <1>9 DEF SaveInsert
  <2>3. PICK rest, well : rest = todo \ {w} /\ well = (proc.clean /\ ~lost)
    OBVIOUS
  <2>4. well \in BOOLEAN /\ (well => clean /\ ~lost)
    BY <1>3, <2>3
  <2>5. well => disk' = Inserted(w)
    BY <2>2, <2>4, Zenon
  <2>6. well => i \in 1 .. 13 /\ SavedTo(disk', i, rest) /\ rest \subseteq RowsToWrite(SaveProgram[i][2])
               /\ (rest = {} => Completed(disk', i))
    BY <1>4, <2>1, <2>3, <2>4, <2>5, InsertDone DEF Saving
  <2>7. CASE rest = {}
    <3>1. Goto(StepAfter(i, FALSE), well)
      BY <2>2, <2>3, <2>7, Zenon
    <3> QED BY <1>7, <2>4, <2>6, <2>7, <3>1
  <2>8. CASE rest # {}
    <3>1. proc' = [proc EXCEPT !.todo = rest, !.clean = well] /\ UNCHANGED <<mem, snapshot>>
      BY <2>2, <2>3, <2>8, Zenon
    <3>2. proc' = [phase |-> proc.phase, at |-> i, todo |-> rest, clean |-> well, next |-> proc.next]
      BY <1>2, <3>1 DEF PersistInv, ProcType
    <3>3. proc'.at = i /\ proc'.todo = rest /\ snapshot' = NoSave
      <4>1. proc'.at = i /\ proc'.todo = rest
        BY <3>2
      <4>2. snapshot' = NoSave
        BY <1>1, <3>1, Zenon
      <4> QED BY <4>1, <4>2
    <3>4. proc'.clean = well
      BY <3>2, Zenon
    <3>5. ASSUME well PROVE Saving(i, rest)'
      <4>1. SavedTo(disk, i, rest)'
        BY <2>6, <3>1, <3>5 DEF SavedTo, Written
      <4>2. rest \subseteq RowsToWrite(SaveProgram[i][2])'
        BY <2>6, <3>1, <3>5 DEF RowsToWrite
      <4> QED BY <2>6, <3>5, <4>1, <4>2 DEF Saving
    <3>6. proc'.clean => Saving(proc.at, proc.todo)'
      BY <3>3, <3>4, <3>5, Zenon
    <3> QED BY <3>3, <3>6 DEF SaveInv, IntactSaveIsRestored
  <2> QED BY <2>7, <2>8
<1> QED BY <1>8, <1>9

\* A save begins with nothing written.
LEMMA BeginSaves ==
  ASSUME NEW next, BeginSave(next) PROVE SaveInv'
<1>1. snapshot' = NoSave /\ proc' = [Idle("saving") EXCEPT !.at = 1, !.next = next]
  BY DEF BeginSave
<1>2. proc' = [phase |-> "saving", at |-> 1, todo |-> {}, clean |-> TRUE, next |-> next]
  BY <1>1 DEF Idle
<1>3. Saving(1, {})'
  BY StepsOfTables DEF Saving, SavedTo, SaveProgram
<1>4. proc'.at = 1 /\ proc'.todo = {}
  BY <1>2
<1> QED BY <1>1, <1>3, <1>4 DEF SaveInv, IntactSaveIsRestored

\* Every step keeps it.
LEMMA SaveKept == PersistInv /\ RestInv /\ RestInv' /\ SaveInv /\ [Next]_vars => SaveInv'
<1> SUFFICES ASSUME PersistInv, RestInv, RestInv', SaveInv, [Next]_vars PROVE SaveInv'
  OBVIOUS
<1>1. ASSUME proc'.phase # "saving", UNCHANGED <<disk, snapshot>> PROVE SaveInv'
  BY <1>1 DEF SaveInv, IntactSaveIsRestored
<1>2. ASSUME Stopped PROVE SaveInv'
  BY <1>1, <1>2 DEF Stopped, Idle
<1>3. CASE savealldb \/ Sigint \/ Stop \/ Crash
  BY <1>2, <1>3, BeginSaves DEF savealldb, Sigint, Stop, Crash
<1>4. CASE SaveOpen \/ SaveDelete \/ SaveInsert
  BY <1>4, SaveSaves
<1>5. CASE main
  <2>1. proc' = [Idle("loading") EXCEPT !.at = 1] /\ UNCHANGED <<disk, snapshot>>
    BY <1>5 DEF main
  <2>2. proc'.phase = "loading"
    BY <2>1 DEF Idle
  <2> QED BY <1>1, <2>1, <2>2
<1>6. CASE load_all_db
  <2>1. UNCHANGED <<disk, snapshot>> /\ proc.phase = "loading"
        /\ proc' \in {Idle("running"), Idle("down"), [proc EXCEPT !.at = @ + 1]}
    BY <1>6 DEF load_all_db, LoadAs
  <2>2. proc'.phase # "saving"
    BY <2>1 DEF Idle, PersistInv, ProcType
  <2> QED BY <1>1, <2>1, <2>2
<1>7. CASE Command
  <2>1. \E new : Change(new)
    BY <1>7 DEF Command, nick_register, userdrop, chan_register, chandrop, chan_set_founder,
           access_add, access_del, nick_link, nick_unlink, oper_trustadd, oper_trustdel,
           chan_addbot, chan_delbot, chan_assign, chan_unassign
  <2> QED BY <1>1, <2>1 DEF Change, Running
<1>8. CASE UNCHANGED vars
  BY <1>8 DEF vars, SaveInv, IntactSaveIsRestored, Saving, SavedTo, Written, RowsToWrite
<1> QED BY <1>3, <1>4, <1>5, <1>6, <1>7, <1>8 DEF Next

\* A save that nothing disturbed left the registries in the database row by row, and
\* the next start accepts every row of it: what earlier torn saves left is gone, and
\* no reference is to a table that was loaded without it (savealldb, load_all_db).
THEOREM SavesRestore == Spec => []IntactSaveIsRestored
<1>1. Init => SaveInv
  BY DEF Init, Idle, SaveInv, IntactSaveIsRestored
<1>2. SaveInv => IntactSaveIsRestored
  BY DEF SaveInv
<1> QED BY <1>1, <1>2, SaveKept, RestInit, RestKept, PersistInit, PersistKept, PTL DEF Spec
-----------------------------------------------------------------------------
(* Saves and starts as single steps *)

\* What a start has read so far is part of the last save, and all of it unless a
\* read was cut short.
LoadInv ==
  /\ mem = [t \in Tables |-> mem[t]]
  /\ snapshot # NoSave => snapshot = [t \in Tables |-> snapshot[t]]
  /\ proc.phase = "loading" /\ snapshot # NoSave =>
       /\ \A t \in Tables : mem[t] \subseteq snapshot[t]
       /\ faults = 0 =>
            \A i \in 1 .. 7 : i < proc.at => mem[LoadProgram[i]] = snapshot[LoadProgram[i]]

\* The next table is refused, or accepted with rows of the last save, all of them if
\* no read was cut short.
Reads(t, read) ==
  /\ t = LoadProgram[proc.at] /\ read \subseteq Rows[t]
  /\ mem' = [mem EXCEPT ![t] = read]
  /\ proc' = IF proc.at = 7 THEN Idle("running") ELSE [proc EXCEPT !.at = @ + 1]
  /\ faults' = 0 => faults = 0
  /\ snapshot # NoSave =>
       read \subseteq snapshot[t] /\ (faults' = 0 => read = snapshot[t])

LEMMA TableRead ==
  ASSUME PersistInv, RestInv, SaveInv, load_all_db
  PROVE  /\ UNCHANGED <<disk, snapshot>> /\ (faults' = 0 => faults = 0)
         /\ \/ mem' = Empty /\ proc' = Idle("down")
            \/ \E t, read : Reads(t, read)
<1>1. PICK t : t = LoadProgram[proc.at]
  OBVIOUS
<1>2. /\ UNCHANGED <<disk, snapshot>> /\ proc.phase = "loading"
      /\ \/ LoadAs(t, disk[t]) /\ UNCHANGED faults
         \/ /\ faults' = faults + 1
            /\ \E b : (\A r \in Rows[t] : b[r] <= disk[t][r]) /\ LoadAs(t, b)
                      /\ b \in [Rows[t] -> 0 .. 2]
  BY <1>1 DEF load_all_db, Fails
<1>3. t \in Tables /\ proc.at \in 1 .. 7 /\ faults \in Nat
  BY <1>1, <1>2, LoadOrder DEF PersistInv, NotLoaded, RestInv, CountType
<1>4. PICK b : /\ LoadAs(t, b) /\ b \in [Rows[t] -> 0 .. 2]
               /\ \A r \in Rows[t] : b[r] <= disk[t][r]
               /\ faults' = 0 => faults = 0 /\ b = disk[t]
  <2>1. disk[t] \in [Rows[t] -> 0 .. 2]
    BY <1>3 DEF RestInv, DiskType
  <2>2. CASE LoadAs(t, disk[t]) /\ UNCHANGED faults
    BY <2>1, <2>2
  <2>3. CASE faults' = faults + 1
    BY <1>2, <1>3, <2>1, <2>3
  <2> QED BY <1>2, <2>2, <2>3
<1>5. CASE ~Loads(mem, t, b)
  BY <1>2, <1>4, <1>5 DEF LoadAs
<1>6. CASE Loads(mem, t, b)
  <2>1. PICK read : read = {r \in Rows[t] : b[r] > 0}
    OBVIOUS
  <2>2. /\ mem' = [mem EXCEPT ![t] = read]
        /\ proc' = IF proc.at = 7 THEN Idle("running") ELSE [proc EXCEPT !.at = @ + 1]
    BY <1>4, <1>6, <2>1, LoadOrder, Zenon DEF LoadAs
  <2>3. ASSUME snapshot # NoSave
        PROVE  read \subseteq snapshot[t] /\ (faults' = 0 => read = snapshot[t])
    <3>1. disk[t] = [r \in Rows[t] |-> IF r \in snapshot[t] THEN 1 ELSE 0]
      BY <1>3, <2>3 DEF SaveInv, IntactSaveIsRestored
    <3>2. snapshot[t] \subseteq Rows[t]
      BY <1>3, <2>3 DEF RestInv, SnapshotType
    <3>3. \A r \in Rows[t] : b[r] \in 0 .. 2
      BY <1>4
    <3>4. read \subseteq snapshot[t]
      <4> SUFFICES ASSUME NEW r \in Rows[t], b[r] > 0, r \notin snapshot[t] PROVE FALSE
        BY <2>1
      <4>1. disk[t][r] = 0 /\ b[r] <= disk[t][r] /\ b[r] \in 0 .. 2
        BY <1>4, <3>1, <3>3
      <4> QED BY <4>1
    <3>5. ASSUME faults' = 0 PROVE snapshot[t] \subseteq read
      <4> SUFFICES ASSUME NEW r \in snapshot[t] PROVE r \in Rows[t] /\ b[r] > 0
        BY <2>1
      <4>1. r \in Rows[t] /\ b[r] = 1
        BY <1>4, <3>1, <3>2, <3>5
      <4> QED BY <4>1
    <3> QED BY <3>4, <3>5
  <2>4. read \subseteq Rows[t]
    BY <2>1
  <2>5. Reads(t, read)
    BY <1>1, <1>4, <2>2, <2>3, <2>4, Zenon DEF Reads
  <2> QED BY <1>2, <1>4, <2>5, Zenon
<1> QED BY <1>5, <1>6

\* A table that was read stays as it is while the next ones are read.
LEMMA ReadKeeps ==
  ASSUME PersistInv, RestInv, LoadInv, proc.phase = "loading", NEW t, NEW read, Reads(t, read),
         UNCHANGED snapshot
  PROVE  LoadInv'
<1>1. t \in Tables /\ proc.at \in 1 .. 7 /\ t = LoadProgram[proc.at]
  BY LoadOrder DEF PersistInv, NotLoaded, Reads
<1>2. \A x \in Tables : mem'[x] = IF x = t THEN read ELSE mem[x]
  BY <1>1 DEF Reads, PersistInv, MemType
<1>3. mem' = [x \in Tables |-> mem'[x]]
  BY <1>1 DEF Reads, PersistInv, MemType
<1>4. CASE snapshot = NoSave
  BY <1>3, <1>4 DEF LoadInv
<1>5. CASE snapshot # NoSave
  <2>1. \A x \in Tables : mem'[x] \subseteq snapshot[x]
    BY <1>2, <1>5 DEF LoadInv, Reads
  <2>2. CASE proc.at = 7
    <3>1. proc'.phase = "running"
      BY <2>2 DEF Reads, Idle
    <3> QED BY <1>3, <1>5, <3>1 DEF LoadInv
  <2>3. CASE proc.at # 7
    <3>1. proc' = [proc EXCEPT !.at = @ + 1]
      BY <2>3 DEF Reads
    <3>2. proc'.at = proc.at + 1
      BY <3>1 DEF PersistInv, ProcType
    <3>3. ASSUME faults' = 0, NEW i \in 1 .. 7, i < proc.at + 1
          PROVE  mem'[LoadProgram[i]] = snapshot[LoadProgram[i]]
      <4>1. faults = 0 /\ read = snapshot[t] /\ LoadProgram[i] \in Tables
        BY <1>5, <3>3, LoadOrder DEF Reads
      <4>2. CASE i = proc.at
        BY <1>1, <1>2, <4>1, <4>2
      <4>3. CASE i < proc.at
        <5>1. mem[LoadProgram[i]] = snapshot[LoadProgram[i]]
          BY <1>5, <4>1, <4>3 DEF LoadInv
        <5>2. LoadProgram[i] # t
          <6>1. \A j, k \in 1 .. 7 : j # k => LoadProgram[j] # LoadProgram[k]
            BY DEF LoadProgram
          <6> QED BY <1>1, <4>3, <6>1
        <5> QED BY <1>2, <4>1, <5>1, <5>2
      <4> QED BY <1>1, <3>3, <4>2, <4>3
    <3> QED BY <1>3, <1>5, <2>1, <3>2, <3>3 DEF LoadInv
  <2> QED BY <2>2, <2>3
<1> QED BY <1>4, <1>5

\* Every step keeps it.
LEMMA LoadKept == PersistInv /\ RestInv /\ SaveInv /\ LoadInv /\ [Next]_vars => LoadInv'
<1> SUFFICES ASSUME PersistInv, RestInv, SaveInv, LoadInv, [Next]_vars PROVE LoadInv'
  OBVIOUS
<1>1. ASSUME proc'.phase # "loading", mem' = mem \/ mem' = [t \in Tables |-> mem'[t]],
             snapshot' \in {snapshot, NoSave, mem}
      PROVE  LoadInv'
  BY <1>1 DEF LoadInv
<1>2. Empty = [t \in Tables |-> Empty[t]]
  BY DEF Empty
<1>3. ASSUME mem' = Empty, proc' = Idle("down"), UNCHANGED snapshot PROVE LoadInv'
  BY <1>1, <1>2, <1>3 DEF Idle
<1>4. ASSUME NEW next, BeginSave(next) PROVE LoadInv'
  <2>1. proc' = [Idle("saving") EXCEPT !.at = 1, !.next = next]
    BY <1>4 DEF BeginSave
  <2>2. proc'.phase = "saving"
    BY <2>1 DEF Idle
  <2> QED BY <1>1, <1>4, <2>2 DEF BeginSave
<1>5. CASE savealldb \/ Sigint \/ Stop \/ Crash
  BY <1>3, <1>4, <1>5 DEF savealldb, Sigint, Stop, Crash, Stopped
<1>6. ASSUME NEW j, NEW clean, Goto(j, clean), proc.phase = "saving" PROVE LoadInv'
  <2>1. CASE j < End
    <3>1. proc'.phase = "saving" /\ UNCHANGED <<mem, snapshot>>
      BY <1>6, <2>1 DEF Goto, PersistInv, ProcType
    <3> QED BY <1>1, <3>1
  <2>2. CASE ~(j < End)
    <3>1. /\ proc' = Idle(proc.next) /\ mem' = IF proc.next = "down" THEN Empty ELSE mem
          /\ snapshot' = IF clean THEN mem ELSE NoSave
      BY <1>6, <2>2 DEF Goto
    <3>2. proc'.phase # "loading"
      BY <3>1 DEF Idle, PersistInv, ProcType
    <3> QED BY <1>1, <1>2, <3>1, <3>2
  <2> QED BY <2>1, <2>2
<1>7. CASE SaveOpen \/ SaveDelete
  BY <1>6, <1>7 DEF SaveOpen, SaveDelete, At
<1>8. CASE SaveInsert
  <2>1. PICK rest, clean :
          \/ \E j : Goto(j, clean)
          \/ proc' = [proc EXCEPT !.todo = rest, !.clean = clean] /\ UNCHANGED <<mem, snapshot>>
    BY <1>8 DEF SaveInsert
  <2>2. proc.phase = "saving"
    BY <1>8 DEF SaveInsert, At
  <2>3. CASE proc' = [proc EXCEPT !.todo = rest, !.clean = clean] /\ UNCHANGED <<mem, snapshot>>
    <3>1. proc'.phase = "saving"
      BY <2>2, <2>3 DEF PersistInv, ProcType
    <3> QED BY <1>1, <2>3, <3>1
  <2> QED BY <1>6, <2>1, <2>2, <2>3
<1>9. CASE main
  <2>1. proc' = [Idle("loading") EXCEPT !.at = 1] /\ UNCHANGED <<mem, snapshot, faults>>
    BY <1>9 DEF main
  <2>2. proc'.at = 1
    BY <2>1 DEF Idle
  <2>3. \A t \in Tables : mem[t] = {}
    BY <1>9 DEF main, PersistInv, NotLoaded, Empty
  <2> QED BY <2>1, <2>2, <2>3 DEF LoadInv
<1>10. CASE load_all_db
  <2>1. proc.phase = "loading"
    BY <1>10 DEF load_all_db
  <2> QED BY <1>3, <1>10, <2>1, TableRead, ReadKeeps
<1>11. CASE Command
  <2>1. \E new : Change(new)
    BY <1>11 DEF Command, nick_register, userdrop, chan_register, chandrop, chan_set_founder,
           access_add, access_del, nick_link, nick_unlink, oper_trustadd, oper_trustdel,
           chan_addbot, chan_delbot, chan_assign, chan_unassign
  <2>2. /\ \E new : mem' = [t \in Tables |-> IF t \in DOMAIN new THEN new[t] ELSE mem[t]]
        /\ proc'.phase = "running" /\ snapshot' = snapshot
    BY <2>1 DEF Change, Running
  <2>3. mem' = [t \in Tables |-> mem'[t]]
    BY <2>2
  <2> QED BY <1>1, <2>2, <2>3
<1>12. CASE UNCHANGED vars
  BY <1>12 DEF vars, LoadInv
<1> QED BY <1>5, <1>7, <1>8, <1>9, <1>10, <1>11, <1>12 DEF Next

LEMMA LoadInit == Init => LoadInv
  BY DEF Init, LoadInv, Empty, Idle

\* The rows of the next table find what they name in the tables already read.
LEMMA NoRefusal == PersistInv /\ RestInv /\ SaveInv /\ LoadInv => NoTableIsRefused
<1> SUFFICES ASSUME PersistInv, RestInv, SaveInv, LoadInv,
                    proc.phase = "loading", snapshot # NoSave, faults = 0
             PROVE  Loads(mem, LoadProgram[proc.at], disk[LoadProgram[proc.at]])
  BY DEF NoTableIsRefused
<1>1. PICK t, i : t = LoadProgram[i] /\ i = proc.at
  OBVIOUS
<1>2. t \in Tables /\ i \in 1 .. 7
  BY <1>1, LoadOrder DEF PersistInv, NotLoaded
<1>3. \A k \in 1 .. 7 : k < i => mem[LoadProgram[k]] = snapshot[LoadProgram[k]]
  BY <1>1 DEF LoadInv
<1>4. Loads(snapshot, t, disk[t])
  BY <1>2 DEF SaveInv, IntactSaveIsRestored
<1>5. /\ t \in {"links", "chans", "access", "chanbots"} => mem.users = snapshot.users
      /\ t \in {"access", "chanbots"} => mem.chans = snapshot.chans
      /\ t = "chanbots" => mem.bots = snapshot.bots
  BY <1>1, <1>2, <1>3, LoadOrder
<1>6. ASSUME NEW r, Resolves(snapshot, t, r) PROVE Resolves(mem, t, r)
  BY <1>2, <1>5, <1>6, TheTables DEF Resolves, Registered, Owner
<1> QED BY <1>1, <1>4, <1>6 DEF Loads

StoreInv == PersistInv /\ RestInv /\ SaveInv /\ LoadInv

LEMMA StoreInvInit == Init => StoreInv
<1>1. Init => SaveInv
  BY DEF Init, Idle, SaveInv, IntactSaveIsRestored
<1> QED BY <1>1, PersistInit, RestInit, LoadInit DEF StoreInv

LEMMA StoreInvKept == StoreInv /\ [Next]_vars => StoreInv'
  BY PersistKept, RestKept, SaveKept, LoadKept DEF StoreInv

\* A start after an undisturbed save gets through, and no table of it is refused: the
\* order of load_all_db is one in which every reference resolves (main, load_all_db).
THEOREM StartsGetThrough == Spec => []NoTableIsRefused
  BY NoRefusal, StoreInvInit, StoreInvKept, PTL DEF Spec, StoreInv

\* What is in memory is what a store may hold, at any time.
LEMMA HoldsAnImage ==
  ASSUME MemType, Joined, mem = [t \in Tables |-> mem[t]]
  PROVE  mem \in Images
<1>1. \A t \in Tables : mem[t] \in SUBSET UNION {Rows[x] : x \in Tables}
  BY DEF MemType
<1>2. mem \in [Tables -> SUBSET UNION {Rows[t] : t \in Tables}]
  BY <1>1
<1>3. Joins(mem)
  BY JoinedResolves DEF ReferencesResolve
<1> QED BY <1>2, <1>3 DEF Images, MemType

LEMMA StoreHolds == StoreInv => mem \in Images
  BY HoldsAnImage DEF StoreInv, PersistInv, LoadInv

LEMMA StoreWillHold == StoreInv' => (mem \in Images)'
  BY StoreHolds, PTL

\* The next step of a save begins nothing new, and its end keeps all or nothing.
LEMMA GotoStores ==
  ASSUME StoreInv, proc.phase = "saving", NEW j, NEW clean \in BOOLEAN, Goto(j, clean),
         clean /\ ~(j < End) => faults' = 0,
         faults' = 0 => faults = 0 \/ (clean /\ ~(j < End))
  PROVE  [Vault!StoreNext]_(Vault!svars)
<1>1. snapshot = NoSave /\ Serving /\ Held = mem
  BY DEF StoreInv, SaveInv, Serving, Held
<1>2. CASE j < End
  <2>1. UNCHANGED <<mem, snapshot>> /\ proc'.phase = "saving"
    BY <1>2 DEF Goto, StoreInv, PersistInv, ProcType
  <2>2. Serving' /\ Held' = Held /\ snapshot' = snapshot
    BY <1>1, <2>1 DEF Serving, Held
  <2>3. faults' = 0 => faults = 0
    BY <1>2
  <2>4. Vault!Fail \/ UNCHANGED Vault!svars
    BY <1>1, <2>2, <2>3 DEF Vault!Fail, Vault!svars, Intact, Serving
  <2> QED BY <2>4 DEF Vault!StoreNext
<1>3. CASE ~(j < End)
  <2>1. /\ proc' = Idle(proc.next) /\ mem' = IF proc.next = "down" THEN Empty ELSE mem
        /\ snapshot' = IF clean THEN mem ELSE NoSave
    BY <1>3 DEF Goto
  <2>2. proc'.phase = proc.next /\ proc.next \in {"down", "running"}
    BY <2>1 DEF Idle, StoreInv, PersistInv, ProcType
  <2>3. PICK over \in BOOLEAN : over <=> proc.next = "down"
    OBVIOUS
  <2>4. Vault!LeaveIf(over)
    BY <1>1, <2>1, <2>2, <2>3 DEF Vault!LeaveIf, Serving, Held
  <2>5. CASE clean
    <3>1. Vault!Saved
      BY <1>1, <1>3, <2>1, <2>4, <2>5 DEF Vault!Saved, Intact
    <3> QED BY <3>1 DEF Vault!StoreNext
  <2>6. CASE ~clean
    <3>1. snapshot' = snapshot /\ (faults' = 0 => faults = 0)
      BY <1>1, <2>1, <2>6
    <3>2. CASE over
      <4>1. Vault!Stop
        BY <1>1, <2>4, <3>1, <3>2 DEF Vault!Stop, Vault!Failures, Vault!LeaveIf, Intact
      <4> QED BY <4>1 DEF Vault!StoreNext
    <3>3. CASE ~over
      <4>1. UNCHANGED <<Serving, Held>>
        BY <2>4, <3>3 DEF Vault!LeaveIf
      <4>2. Vault!Fail \/ UNCHANGED Vault!svars
        BY <1>1, <3>1, <4>1 DEF Vault!Fail, Vault!svars, Intact
      <4> QED BY <4>2 DEF Vault!StoreNext
    <3> QED BY <3>2, <3>3
  <2> QED BY <2>5, <2>6
<1> QED BY <1>2, <1>3

\* A query of a save.
LEMMA SaveStores ==
  ASSUME StoreInv, SaveOpen \/ SaveDelete \/ SaveInsert
  PROVE  [Vault!StoreNext]_(Vault!svars)
<1>1. proc.phase = "saving" /\ faults \in Nat /\ proc.at \in Nat
  <2>1. proc.phase = "saving"
    BY DEF SaveOpen, SaveDelete, SaveInsert, At
  <2> QED BY <2>1, PersistBound DEF StoreInv, RestInv, CountType
<1>2. PICK well \in BOOLEAN : well = proc.clean
  BY DEF StoreInv, RestInv, CountType
<1>3. Lost => faults' = faults + 1
  BY DEF Lost
<1>4. \A skip \in BOOLEAN : StepAfter(proc.at, skip) \in 1 .. 14
  BY <1>1, NextStep
<1>5. ASSUME NEW j, Goto(j, FALSE), Lost PROVE [Vault!StoreNext]_(Vault!svars)
  <2>1. faults' # 0
    BY <1>1, <1>3, <1>5
  <2> QED BY <1>1, <1>5, <2>1, GotoStores
<1>6. ASSUME NEW j \in 1 .. 14, Goto(j, well), Done(j) PROVE [Vault!StoreNext]_(Vault!svars)
  <2>1. faults' = IF j = End /\ well THEN 0 ELSE faults
    BY <1>2, <1>6 DEF Done
  <2>2. ~(j < End) => j = End
    BY SaveSteps
  <2> QED BY <1>1, <1>6, <2>1, <2>2, GotoStores
<1>7. CASE SaveOpen \/ SaveDelete
  <2>1. PICK j : j = StepAfter(proc.at, FALSE)
    OBVIOUS
  <2>2. \/ \E skip \in BOOLEAN : Lost /\ Goto(StepAfter(proc.at, skip), FALSE)
        \/ Done(j) /\ Goto(j, well)
    BY <1>2, <1>7, <2>1, Zenon DEF SaveOpen, SaveDelete
  <2>3. j \in 1 .. 14
    BY <1>4, <2>1
  <2> QED BY <1>5, <1>6, <2>2, <2>3
<1>8. CASE SaveInsert
  <2>1. PICK w \in proc.todo, lost \in BOOLEAN :
          LET rest == proc.todo \ {w}
              j    == StepAfter(proc.at, FALSE)
              clean == proc.clean /\ ~lost
          IN /\ IF lost THEN Lost /\ UNCHANGED disk
                ELSE disk' = Inserted(w) /\ IF rest = {} THEN Done(j) ELSE UNCHANGED faults
             /\ IF rest = {} THEN Goto(j, clean)
                ELSE /\ proc' = [proc EXCEPT !.todo = rest, !.clean = clean]
                     /\ UNCHANGED <<mem, snapshot>>
    BY <1>8 DEF SaveInsert
  <2>2. PICK rest, j : rest = proc.todo \ {w} /\ j = StepAfter(proc.at, FALSE)
    OBVIOUS
  <2>3. j \in 1 .. 14
    BY <1>4, <2>2
  <2>4. CASE rest = {}
    <3>1. CASE lost
      <4>1. (proc.clean /\ ~lost) = FALSE
        BY <3>1, Zenon
      <4>2. Lost /\ Goto(j, FALSE)
        BY <2>1, <2>2, <2>4, <3>1, <4>1, Zenon
      <4> QED BY <1>5, <4>2
    <3>2. CASE ~lost
      <4>1. (proc.clean /\ ~lost) = well
        BY <1>2, <3>2, Zenon
      <4>2. Done(j) /\ Goto(j, well)
        BY <2>1, <2>2, <2>4, <3>2, <4>1, Zenon
      <4> QED BY <1>6, <2>3, <4>2
    <3> QED BY <3>1, <3>2
  <2>5. CASE rest # {}
    <3>1. PICK clean : proc' = [proc EXCEPT !.todo = rest, !.clean = clean] /\ UNCHANGED <<mem, snapshot>>
      BY <2>1, <2>2, <2>5, Zenon
    <3>2. proc'.phase = "saving"
      BY <1>1, <3>1 DEF StoreInv, PersistInv, ProcType
    <3>3. Lost \/ UNCHANGED faults
      BY <2>1, <2>2, <2>5, Zenon
    <3>4. faults' = 0 => faults = 0
      BY <1>1, <1>3, <3>3
    <3>5. snapshot = NoSave /\ snapshot' = snapshot /\ Serving /\ Serving' /\ Held' = Held
      BY <1>1, <3>1, <3>2 DEF StoreInv, SaveInv, Serving, Held
    <3>6. Vault!Fail \/ UNCHANGED Vault!svars
      BY <3>4, <3>5 DEF Vault!Fail, Vault!svars, Intact, Serving
    <3> QED BY <3>6 DEF Vault!StoreNext
  <2> QED BY <2>4, <2>5
<1> QED BY <1>7, <1>8

\* A table of a start.
LEMMA LoadStores ==
  ASSUME StoreInv, StoreInv', load_all_db
  PROVE  [Vault!StoreNext]_(Vault!svars)
<1>1. proc.phase = "loading" /\ UNCHANGED snapshot /\ (faults' = 0 => faults = 0)
  BY TableRead DEF load_all_db, StoreInv
<1>2. ~Serving /\ Held = Empty
  BY <1>1 DEF Serving, Held
<1>3. ASSUME ~Serving', Held' = Empty PROVE [Vault!StoreNext]_(Vault!svars)
  <2>1. Vault!Fail \/ UNCHANGED Vault!svars
    BY <1>1, <1>2, <1>3 DEF Vault!Fail, Vault!svars, Intact, Serving
  <2> QED BY <2>1 DEF Vault!StoreNext
<1>4. CASE mem' = Empty /\ proc' = Idle("down")
  BY <1>3, <1>4 DEF Serving, Held, Idle
<1>5. ASSUME NEW t, NEW read, Reads(t, read) PROVE [Vault!StoreNext]_(Vault!svars)
  <2>1. CASE proc.at # 7
    <3>1. proc' = [proc EXCEPT !.at = @ + 1]
      BY <1>5, <2>1 DEF Reads
    <3>2. proc'.phase = "loading"
      BY <1>1, <3>1 DEF StoreInv, PersistInv, ProcType
    <3> QED BY <1>3, <3>2 DEF Serving, Held
  <2>2. CASE proc.at = 7
    <3>1. proc'.phase = "running" /\ mem' = [mem EXCEPT ![t] = read] /\ t = LoadProgram[7]
      BY <1>5, <2>2 DEF Reads, Idle
    <3>2. Serving' /\ Held' = mem'
      BY <3>1 DEF Serving, Held
    <3>3. mem' \in Images
      BY StoreWillHold
    <3>4. \A x \in Tables : mem'[x] = IF x = t THEN read ELSE mem[x]
      BY <3>1, LoadOrder DEF StoreInv, PersistInv, MemType
    <3>5. ASSUME snapshot # NoSave
          PROVE  /\ \A x \in Tables : mem'[x] \subseteq snapshot[x]
                 /\ faults' = 0 => mem' = snapshot
      <4>1. \A x \in Tables : mem[x] \subseteq snapshot[x]
        BY <1>1, <3>5 DEF StoreInv, LoadInv
      <4>2. \A x \in Tables : mem'[x] \subseteq snapshot[x]
        BY <1>5, <3>4, <3>5, <4>1 DEF Reads
      <4>3. ASSUME faults' = 0 PROVE mem' = snapshot
        <5>1. \A i \in 1 .. 6 : mem[LoadProgram[i]] = snapshot[LoadProgram[i]]
          BY <1>1, <2>2, <3>5, <4>3 DEF StoreInv, LoadInv
        <5>2. read = snapshot[t]
          BY <1>5, <3>5, <4>3 DEF Reads
        <5>3. \A x \in Tables : x # t => mem[x] = snapshot[x]
          BY <3>1, <5>1, LoadOrder, TheTables
        <5>4. \A x \in Tables : mem'[x] = snapshot[x]
          BY <3>4, <5>2, <5>3
        <5>5. mem' = [x \in Tables |-> mem'[x]] /\ snapshot = [x \in Tables |-> snapshot[x]]
          BY <3>5 DEF StoreInv, LoadInv
        <5> QED BY <5>4, <5>5
      <4> QED BY <4>2, <4>3
    <3>6. Vault!Start
      BY <1>1, <1>2, <3>2, <3>3, <3>5 DEF Vault!Start, Vault!Failures, Vault!PartOf, Intact
    <3> QED BY <3>6 DEF Vault!StoreNext
  <2> QED BY <2>1, <2>2
<1> QED BY <1>4, <1>5, TableRead DEF StoreInv

\* The process ends, from whatever it does.
LEMMA StoppedStores ==
  ASSUME StoreInv, Stopped
  PROVE  [Vault!StoreNext]_(Vault!svars)
<1>1. ~Serving' /\ Held' = Empty /\ UNCHANGED <<snapshot, faults>>
  BY DEF Stopped, Idle, Serving, Held
<1>2. CASE Serving
  <2>1. Vault!Stop
    BY <1>1, <1>2 DEF Vault!Stop, Vault!LeaveIf, Vault!Failures, Intact
  <2> QED BY <2>1 DEF Vault!StoreNext
<1>3. CASE ~Serving
  <2>1. Held = Empty
    BY <1>3 DEF Serving, Held, StoreInv, PersistInv, ProcType, NotLoaded, Phases
  <2>2. Serving' = Serving
    BY <1>1, <1>3 DEF Serving
  <2> QED BY <1>1, <2>1, <2>2 DEF Vault!svars, Intact
<1> QED BY <1>2, <1>3

\* A save begins, of the registries that serve or of what a start has read so far.
LEMMA BeginStores ==
  ASSUME StoreInv, proc.phase # "down", NEW next, BeginSave(next)
  PROVE  [Vault!StoreNext]_(Vault!svars)
<1>1. proc' = [Idle("saving") EXCEPT !.at = 1, !.next = next] /\ UNCHANGED <<mem, faults>>
      /\ snapshot' = NoSave
  BY DEF BeginSave
<1>2. Serving' /\ Held' = mem
  BY <1>1 DEF Idle, Serving, Held
<1>3. CASE Serving
  <2>1. Vault!Begin
    BY <1>1, <1>2, <1>3 DEF Vault!Begin, Serving, Held, Intact
  <2> QED BY <2>1 DEF Vault!StoreNext
<1>4. CASE ~Serving
  <2>1. proc.phase = "loading"
    BY <1>4 DEF Serving, StoreInv, PersistInv, ProcType, Phases
  <2>2. mem \in Images
    BY StoreHolds
  <2>3. snapshot # NoSave => \A t \in Tables : mem[t] \subseteq snapshot[t]
    BY <2>1 DEF StoreInv, LoadInv
  <2>4. Vault!Cut
    BY <1>1, <1>2, <1>4, <2>2, <2>3 DEF Vault!Cut, Vault!PartOf, Intact
  <2> QED BY <2>4 DEF Vault!StoreNext
<1> QED BY <1>3, <1>4

\* Every step is one of the store, or none that it can see.
LEMMA StepStores ==
  ASSUME StoreInv, StoreInv', [Next]_vars
  PROVE  [Vault!StoreNext]_(Vault!svars)
<1>1. CASE savealldb \/ Sigint \/ Stop \/ Crash
  <2>1. Stopped \/ (proc.phase # "down" /\ \E next : BeginSave(next))
    BY <1>1 DEF savealldb, Sigint, Stop, Crash, Running
  <2> QED BY <2>1, StoppedStores, BeginStores
<1>2. CASE SaveOpen \/ SaveDelete \/ SaveInsert
  BY <1>2, SaveStores
<1>3. CASE load_all_db
  BY <1>3, LoadStores
<1>4. CASE main
  <2>1. proc' = [Idle("loading") EXCEPT !.at = 1] /\ proc.phase = "down"
        /\ UNCHANGED <<mem, snapshot, faults>>
    BY <1>4 DEF main
  <2>2. proc'.phase = "loading" /\ mem = Empty
    BY <2>1 DEF Idle, StoreInv, PersistInv, NotLoaded
  <2>3. Held' = Held /\ Serving' = Serving
    BY <2>1, <2>2 DEF Held, Serving
  <2> QED BY <2>1, <2>3 DEF Vault!svars, Intact
<1>5. CASE Command
  <2>1. \E new : Change(new)
    BY <1>5 DEF Command, nick_register, userdrop, chan_register, chandrop, chan_set_founder,
           access_add, access_del, nick_link, nick_unlink, oper_trustadd, oper_trustdel,
           chan_addbot, chan_delbot, chan_assign, chan_unassign
  <2>2. proc.phase = "running" /\ UNCHANGED <<proc, snapshot, faults>>
    BY <2>1 DEF Change, Running
  <2>3. mem' \in Images
    BY StoreWillHold
  <2>4. Vault!Work
    BY <2>2, <2>3 DEF Vault!Work, Serving, Held, Intact
  <2> QED BY <2>4 DEF Vault!StoreNext
<1>6. CASE UNCHANGED vars
  BY <1>6 DEF vars, Vault!svars, Serving, Held, Intact
<1> QED BY <1>1, <1>2, <1>3, <1>4, <1>5, <1>6 DEF Next

\* Saves and starts are single steps of Store, for any tables' contents and any number
\* of failures: no interleaving of queries, crashes, SIGINT and failed reads shows more
\* of the database than a save kept, or less than all of it where nothing failed
\* (savealldb, load_all_db, main).
THEOREM SavesAreSteps == Spec => SavesAreAtomic
<1>1. Init => Vault!StoreInit
  BY DEF Init, Idle, Vault!StoreInit, Serving, Held, Intact
<1>2. StoreInv /\ StoreInv' /\ [Next]_vars => [Vault!StoreNext]_(Vault!svars)
  BY StepStores
<1> QED BY <1>1, <1>2, StoreInvInit, StoreInvKept, PTL
        DEF Spec, SavesAreAtomic, Vault!StoreSpec
=============================================================================
