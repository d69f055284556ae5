------------------------------ MODULE Persist ------------------------------
(***************************************************************************)
(* The registries and their copy in the database.  savealldb writes table  *)
(* by table, a DELETE and then one INSERT for every row, without a         *)
(* transaction and without looking at what a query returned; the services  *)
(* may stop or lose a query between any two of them.  load_all_db reads    *)
(* the tables in an order of its own, refuses a row whose references it    *)
(* cannot resolve, and with the row the whole database.                    *)
(*                                                                         *)
(* Operators ending in _slip are faulty variants, used by no specification *)
(* (README, "What the properties can see").                                *)
(***************************************************************************)
EXTENDS Naturals, FiniteSets, FiniteSetsExt, Sequences

CONSTANTS
  Names,      \* account names
  Chans,      \* channel names
  Hosts,      \* hosts that may have a trust
  Bots,       \* names of BotServ's bots
  NoSave,     \* no save is known to be in the database as it was made
  MaxFaults,  \* bound: failed queries since the last undisturbed save
  Faults      \* what may go wrong

\* "crash": the services die; "query": a ping or query of a save fails; "fetch":
\* the connection breaks while a table is read; "sigint": SIGINT at any moment.
ASSUME PersistFaults == Faults \subseteq {"crash", "query", "fetch", "sigint"}
ASSUME PersistBound == MaxFaults \in Nat

VARIABLES
  mem,       \* the registries of the running process: table -> set of rows
  disk,      \* the database: table -> how often it has a row, 2 for more than once
  proc,      \* what the process is doing
  snapshot,  \* the registries at the last save that nothing disturbed, or NoSave
  faults     \* failures since then

vars == <<mem, disk, proc, snapshot, faults>>

\* The rows of each table: <<channel, owner>>, <<channel, account>>,
\* <<master, slave>>, <<channel, bot>>.
Rows ==
  [users |-> Names, chans |-> Chans \X Names, access |-> Chans \X Names,
   trusts |-> Hosts, links |-> Names \X Names, bots |-> Bots,
   chanbots |-> Chans \X Bots]

Tables == DOMAIN Rows

Empty == [t \in Tables |-> {}]

Owner(m, c) == {r[2] : r \in {x \in m.chans : x[1] = c}}
Registered(m, c) == Owner(m, c) # {}

\* proc: at is the number of the table to load or of the step of the save, todo
\* the rows still to insert, clean whether every query of the save succeeded,
\* next what follows it.
Idle(phase) == [phase |-> phase, at |-> 0, todo |-> {}, clean |-> TRUE, next |-> "down"]

Phases == {"down", "loading", "running", "saving"}

TypeOK ==
  /\ DOMAIN mem = Tables /\ DOMAIN disk = Tables
  /\ \A t \in Tables : mem[t] \subseteq Rows[t] /\ disk[t] \in [Rows[t] -> 0 .. 2]
  /\ proc.phase \in Phases /\ proc.at \in 0 .. 16
  /\ \A w \in proc.todo : w[1] \in Tables /\ w[2] \in Rows[w[1]]
  /\ proc.clean \in BOOLEAN /\ proc.next \in {"down", "running"}
  /\ \/ snapshot = NoSave
     \/ DOMAIN snapshot = Tables /\ \A t \in Tables : snapshot[t] \subseteq Rows[t]
  /\ faults \in 0 .. MaxFaults

Fails(kind) == kind \in Faults /\ faults < MaxFaults

-----------------------------------------------------------------------------
(* Commands, on the registries of a running process *)

Running == proc.phase = "running"

\* The tables in new (a record) replace those of the registries.
Change(new) ==
  /\ Running
  /\ mem' = [t \in Tables |-> IF t \in DOMAIN new THEN new[t] ELSE mem[t]]
  /\ UNCHANGED <<disk, proc, snapshot, faults>>

nick_register(u) == u \notin mem.users /\ Change([users |-> mem.users \cup {u}])

Without(rows, cs) == {r \in rows : r[1] \notin cs}

LinksWithout(u) == {l \in mem.links : u \notin {l[1], l[2]}}

\* Each channel of the account goes to heir[c], one of those with an access to
\* it, or is dropped; which heir is the co-owner is in Channels.
userdrop(u) ==
  LET owned == {c \in Chans : Owner(mem, c) = {u}}
      heirs(c) == {r[2] : r \in {x \in mem.access : x[1] = c}} \ {u}
  IN /\ u \in mem.users
     /\ \E taken \in SUBSET owned :
        \E heir \in [taken -> Names] :
          LET gone == owned \ taken
          IN /\ \A c \in taken : heir[c] \in heirs(c)
             /\ Change([users    |-> mem.users \ {u},
                        links    |-> LinksWithout(u),
                        chans    |-> Without(mem.chans, owned) \cup {<<c, heir[c]>> : c \in taken},
                        access   |-> {r \in Without(mem.access, gone) :
                                        r[2] # u /\ ~(r[1] \in taken /\ r[2] = heir[r[1]])},
                        chanbots |-> Without(mem.chanbots, gone)])

chan_register(u, c) ==
  /\ u \in mem.users
  /\ ~Registered(mem, c)
  /\ Change([chans |-> mem.chans \cup {<<c, u>>}])

chandrop(c) ==
  /\ Registered(mem, c)
  /\ Change([chans    |-> Without(mem.chans, {c}),
             access   |-> Without(mem.access, {c}),
             chanbots |-> Without(mem.chanbots, {c})])

chan_set_founder(c, u) ==
  /\ Registered(mem, c) /\ u \in mem.users
  /\ Change([chans  |-> Without(mem.chans, {c}) \cup {<<c, u>>},
             access |-> mem.access \ {<<c, u>>}])

access_add(c, u) ==
  /\ Registered(mem, c) /\ u \in mem.users
  /\ Owner(mem, c) # {u}
  /\ <<c, u>> \notin mem.access
  /\ Change([access |-> mem.access \cup {<<c, u>>}])

access_del(c, u) ==
  /\ <<c, u>> \in mem.access
  /\ Change([access |-> mem.access \ {<<c, u>>}])

\* u, called like its account, takes m for its master.
nick_link(u, m) ==
  /\ {u, m} \subseteq mem.users /\ u # m
  /\ \A l \in mem.links : l[2] # u
  /\ <<u, m>> \notin mem.links
  /\ Change([links |-> mem.links \cup {<<m, u>>}])

nick_unlink(m, s) ==
  /\ <<m, s>> \in mem.links
  /\ Change([links |-> mem.links \ {<<m, s>>}])

oper_trustadd(h) ==
  /\ mem.users # {} /\ h \notin mem.trusts
  /\ Change([trusts |-> mem.trusts \cup {h}])

oper_trustdel(h) ==
  /\ mem.users # {} /\ h \in mem.trusts
  /\ Change([trusts |-> mem.trusts \ {h}])

chan_addbot(b) ==
  /\ mem.users # {} /\ b \notin mem.bots
  /\ Change([bots |-> mem.bots \cup {b}])

\* The assignments that remain when bot b goes.
BotlessRows(b) == {r \in mem.chanbots : r[2] # b}

chan_delbot(b) ==
  /\ mem.users # {} /\ b \in mem.bots
  /\ Change([bots |-> mem.bots \ {b}, chanbots |-> BotlessRows(b)])

Botless(c) == \A r \in mem.chanbots : r[1] # c

chan_assign(c, b) ==
  /\ Registered(mem, c) /\ b \in mem.bots
  /\ Botless(c)
  /\ Change([chanbots |-> mem.chanbots \cup {<<c, b>>}])

chan_unassign(c) ==
  /\ ~Botless(c)
  /\ Change([chanbots |-> Without(mem.chanbots, {c})])

Command ==
  \/ \E u \in Names : nick_register(u) \/ userdrop(u)
  \/ \E c \in Chans : chandrop(c) \/ chan_unassign(c)
  \/ \E c \in Chans, u \in Names :
       \/ chan_register(u, c) \/ chan_set_founder(c, u)
       \/ access_add(c, u) \/ access_del(c, u)
  \/ \E u, v \in Names : nick_link(u, v) \/ nick_unlink(u, v)
  \/ \E h \in Hosts : oper_trustadd(h) \/ oper_trustdel(h)
  \/ \E b \in Bots : chan_addbot(b) \/ chan_delbot(b)
  \/ \E c \in Chans, b \in Bots : chan_assign(c, b)

-----------------------------------------------------------------------------
(* Saving *)

\* "open" is mysql_ping and the DELETE that follows it; a step belongs to the
\* section that the last "open" started.
SaveProgram ==
  << <<"open", "users">>, <<"insert", "users">>,
     <<"open", "chans">>, <<"delete", "access">>, <<"insert", "chans">>,
     <<"open", "trusts">>, <<"insert", "trusts">>,
     <<"open", "links">>, <<"insert", "links">>,
     <<"open", "bots">>, <<"insert", "bots">>,
     <<"delete", "chanbots">>, <<"insert", "chanbots">> >>

End == Len(SaveProgram) + 1

\* The accesses of a channel are written after its own row.
RowsToWrite(t) ==
  {<<t, r>> : r \in mem[t]} \cup IF t = "chans" THEN {<<"access", r>> : r \in mem.access} ELSE {}

\* The step after i: an insert without rows is none, and a section whose ping
\* failed is left out.
StepAfter(i, skip) ==
  Min({End} \cup {j \in i + 1 .. Len(SaveProgram) :
         /\ SaveProgram[j][1] = "insert" => RowsToWrite(SaveProgram[j][2]) # {}
         /\ skip => SaveProgram[j][1] = "open"})

\* The save goes on at step j, or is over.
Goto(j, clean) ==
  IF j < End
  THEN /\ proc' = [proc EXCEPT !.at = j, !.clean = clean,
                     !.todo = IF SaveProgram[j][1] = "insert"
                              THEN RowsToWrite(SaveProgram[j][2]) ELSE {}]
       /\ UNCHANGED <<mem, snapshot>>
  ELSE /\ proc' = Idle(proc.next)
       /\ mem' = IF proc.next = "down" THEN Empty ELSE mem
       /\ snapshot' = IF clean THEN mem ELSE NoSave

\* A query of step i succeeds, or is lost and nobody notices.
Lost == Fails("query") /\ faults' = faults + 1
\* After the last one of an undisturbed save the failures no longer count.
Done(j) == faults' = IF j = End /\ proc.clean THEN 0 ELSE faults

Deleted(t) == [disk EXCEPT ![t] = [r \in Rows[t] |-> 0]]

At(op) == proc.phase = "saving" /\ SaveProgram[proc.at][1] = op

SaveOpen ==
  LET t == SaveProgram[proc.at][2]
  IN /\ At("open")
     /\ \/ /\ disk' = Deleted(t)
           /\ Done(StepAfter(proc.at, FALSE))
           /\ Goto(StepAfter(proc.at, FALSE), proc.clean)
        \/ /\ Lost /\ UNCHANGED disk
           /\ \E skip \in BOOLEAN : Goto(StepAfter(proc.at, skip), FALSE)

SaveDelete_slip ==   \* accesses and assignments are added to those of the last save
  /\ At("delete") /\ UNCHANGED <<disk, faults>>
  /\ Goto(StepAfter(proc.at, FALSE), proc.clean)

SaveDelete ==
  LET t == SaveProgram[proc.at][2]
      j == StepAfter(proc.at, FALSE)
  IN /\ At("delete")
     /\ \/ disk' = Deleted(t) /\ Done(j) /\ Goto(j, proc.clean)
        \/ Lost /\ UNCHANGED disk /\ Goto(j, FALSE)

\* A channel, then its accesses, then the next channel.
Writable(w) ==
  LET started(x) == x[1] = "access" /\ \A y \in proc.todo : ~(y[1] = "chans" /\ y[2][1] = x[2][1])
  IN IF w[1] = "access" THEN started(w) ELSE \A x \in proc.todo : ~started(x)

Inserted(w) == [disk EXCEPT ![w[1]][w[2]] = Min({@ + 1, 2})]

SaveInsert ==
  /\ At("insert")
  /\ \E w \in {x \in proc.todo : Writable(x)} :
       LET rest == proc.todo \ {w}
           j    == StepAfter(proc.at, FALSE)
       IN \E lost \in BOOLEAN :
            LET clean == proc.clean /\ ~lost
            IN /\ IF lost THEN Lost /\ UNCHANGED disk
                  ELSE disk' = Inserted(w) /\ IF rest = {} THEN Done(j) ELSE UNCHANGED faults
               /\ IF rest = {} THEN Goto(j, clean)
                  ELSE /\ proc' = [proc EXCEPT !.todo = rest, !.clean = clean]
                       /\ UNCHANGED <<mem, snapshot>>

\* savealldb, unless its own ping fails: the periodic save and OPER SAVEDB go
\* on, DIE, RESTART, SIGINT and the last failed reconnection end the process.
BeginSave(next) ==
  /\ proc' = [Idle("saving") EXCEPT !.at = 1, !.next = next]
  /\ snapshot' = NoSave
  /\ UNCHANGED <<mem, disk, faults>>

savealldb == Running /\ \E next \in {"running", "down"} : BeginSave(next)

Stopped ==
  /\ mem' = Empty
  /\ proc' = Idle("down")
  /\ UNCHANGED <<disk, snapshot, faults>>

\* The process ends without saving: a crash, DIE 0, RESTART 0, a failed ping in
\* savealldb, no uplink at the start.
Stop == Running /\ Stopped

Crash == "crash" \in Faults /\ proc.phase \in {"loading", "saving"} /\ Stopped

\* SIGINT saves and exits, from inside whatever runs: the tables that are loaded
\* so far, or all of them again in the middle of a save.  While a query is under
\* way the handle refuses the ping, and the process only exits.
Sigint ==
  /\ "sigint" \in Faults
  /\ proc.phase \in {"loading", "saving"}
  /\ Stopped \/ BeginSave("down")

-----------------------------------------------------------------------------
(* Loading *)

LoadProgram_slip ==   \* the assignments of the bots before the bots
  <<"users", "links", "trusts", "chans", "access", "chanbots", "bots">>

LoadProgram == <<"users", "links", "trusts", "chans", "access", "bots", "chanbots">>

\* What may be in a table once only.
Key(t, r) ==
  CASE t \in {"chans", "chanbots"} -> r[1]
    [] t = "links" -> r[2]
    [] OTHER -> r

\* Do the references of row r resolve in what is loaded so far?
Resolves_slip(m, t, r) ==   \* the bot of a channel is not looked up
  CASE t = "chans"    -> r[2] \in m.users
    [] t = "access"   -> Registered(m, r[1]) /\ r[2] \in m.users \ Owner(m, r[1])
    [] t = "links"    -> r[1] \in m.users /\ r[2] \in m.users
    [] t = "chanbots" -> Registered(m, r[1])
    [] OTHER          -> TRUE

Resolves(m, t, r) ==
  CASE t = "chans"    -> r[2] \in m.users
    [] t = "access"   -> Registered(m, r[1]) /\ r[2] \in m.users \ Owner(m, r[1])
    [] t = "links"    -> r[1] \in m.users /\ r[2] \in m.users
    [] t = "chanbots" -> r[2] \in m.bots /\ Registered(m, r[1])
    [] OTHER          -> TRUE

\* The table, read as the bag of rows b, is accepted.
Loads(m, t, b) ==
  LET read == {r \in Rows[t] : b[r] > 0}
  IN /\ \A r \in read : b[r] = 1 /\ Resolves(m, t, r)
     /\ \A r, s \in read : Key(t, r) = Key(t, s) => r = s

main ==
  /\ proc.phase = "down"
  /\ proc' = [Idle("loading") EXCEPT !.at = 1]
  /\ UNCHANGED <<mem, disk, snapshot, faults>>

LoadAs_slip(t, b) ==   \* the services are up before the last table is read
  IF Loads(mem, t, b)
  THEN /\ mem' = [mem EXCEPT ![t] = {r \in Rows[t] : b[r] > 0}]
       /\ proc' = IF proc.at = Len(LoadProgram) - 1 THEN Idle("running")
                  ELSE [proc EXCEPT !.at = @ + 1]
  ELSE /\ mem' = Empty
       /\ proc' = Idle("down")

\* A table is loaded, or refused and the process exits.
LoadAs(t, b) ==
  IF Loads(mem, t, b)
  THEN /\ mem' = [mem EXCEPT ![t] = {r \in Rows[t] : b[r] > 0}]
       /\ proc' = IF proc.at = Len(LoadProgram) THEN Idle("running")
                  ELSE [proc EXCEPT !.at = @ + 1]
  ELSE /\ mem' = Empty
       /\ proc' = Idle("down")

\* mysql_fetch_row returns NULL at the end of the table and when the connection
\* breaks: the rows read until then are taken for all of them.
load_all_db ==
  LET t == LoadProgram[proc.at]
  IN /\ proc.phase = "loading"
     /\ \/ LoadAs(t, disk[t]) /\ UNCHANGED faults
        \/ /\ Fails("fetch") /\ faults' = faults + 1
           /\ \E b \in [Rows[t] -> 0 .. 2] :
                /\ b # disk[t] /\ \A r \in Rows[t] : b[r] <= disk[t][r]
                /\ LoadAs(t, b)
     /\ UNCHANGED <<disk, snapshot>>

-----------------------------------------------------------------------------

Init ==
  /\ mem = Empty
  /\ disk = [t \in Tables |-> [r \in Rows[t] |-> 0]]
  /\ proc = Idle("down")
  /\ snapshot = NoSave
  /\ faults = 0

Next ==
  \/ Command \/ savealldb \/ Stop \/ Crash \/ Sigint
  \/ SaveOpen \/ SaveDelete \/ SaveInsert
  \/ main \/ load_all_db

Spec == Init /\ [][Next]_vars

-----------------------------------------------------------------------------
(* Properties *)

\* References join, and what may be once is once.
Joins(m) ==
  /\ \A r \in m.chans : r[2] \in m.users /\ Owner(m, r[1]) = {r[2]}
  /\ \A r \in m.access : Registered(m, r[1]) /\ r[2] \in m.users \ Owner(m, r[1])
  /\ \A l \in m.links : {l[1], l[2]} \subseteq m.users
  /\ \A l, k \in m.links : l[2] = k[2] => l = k
  /\ \A r \in m.chanbots : Registered(m, r[1]) /\ r[2] \in m.bots
  /\ \A r, s \in m.chanbots : r[1] = s[1] => r = s

\* Whatever saves were torn, whatever queries lost and whichever accounts,
\* channels and bots went: the registries in memory refer to accounts, channels
\* and bots that exist, and no owner has an ordinary access (the load checks of
\* db.c, userdrop, chandrop, chan_delbot).
ReferencesResolve == Joins(mem)

\* After a save that nothing disturbed the next start finds the registries as
\* they were, row by row, and refuses none of them, whatever was in the database
\* before: nothing of a torn save survives the next whole one (savealldb, load_all_db).
IntactSaveIsRestored ==
  snapshot # NoSave =>
    \A t \in Tables :
      /\ disk[t] = [r \in Rows[t] |-> IF r \in snapshot[t] THEN 1 ELSE 0]
      /\ Loads(snapshot, t, disk[t])

\* The next start after such a save refuses none of its tables either: each row
\* finds the accounts, channels and bots it names in the tables that load_all_db
\* has read before, unless a read was cut short.
NoTableIsRefused ==
  proc.phase = "loading" /\ snapshot # NoSave /\ faults = 0 =>
    Loads(mem, LoadProgram[proc.at], disk[LoadProgram[proc.at]])

\* Seen from outside, saves and starts are single steps of Store: thirteen
\* queries and more that may be lost, seven loads, and crashes, SIGINT and failed
\* reads at any point keep everything or nothing that is trusted, and what comes
\* back is what was kept (savealldb, load_all_db, main).
Images ==
  {m \in [Tables -> SUBSET UNION {Rows[t] : t \in Tables}] :
     (\A t \in Tables : m[t] \subseteq Rows[t]) /\ Joins(m)}
Serving == proc.phase \in {"running", "saving"}
Held == IF proc.phase = "loading" THEN Empty ELSE mem
Intact == faults = 0
Vault == INSTANCE Store WITH on <- Serving, held <- Held, kept <- snapshot, whole <- Intact,
                             Nothing <- Empty, Unknown <- NoSave
SavesAreAtomic == Vault!StoreSpec
=============================================================================
