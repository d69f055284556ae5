------------------------------- MODULE Links -------------------------------
(***************************************************************************)
(* The table of linked accounts (core->links).  A record says that slave   *)
(* shares the channel accesses of master; the hash table finds it under    *)
(* the name that was its slave when it was inserted, which SET MASTER does *)
(* not change.  GetFlag and find_cflag_recursive follow the links from     *)
(* slave to master with no bound on the length of the chain.               *)
(*                                                                         *)
(* Operators ending in _slip are faulty variants, used by no specification *)
(* (README, "What the properties can see").                                *)
(***************************************************************************)
EXTENDS Integers, FiniteSets, SequencesExt

CONSTANTS
  Names,     \* nick names and account names
  NoLink,    \* an empty slot of the table
  Features   \* which deviations from plain use the users allow themselves

ASSUME LinkNames == IsFiniteSet(Names)

\* "setmaster": NICK SET MASTER; "othername": LINK and UNLINK by a nick that is
\* not called like the account it is identified to.
ASSUME LinkFeatures == Features \subseteq {"setmaster", "othername"}

VARIABLES
  users,   \* the registered accounts
  links,   \* the table: key -> record
  features \* those of this run

vars == <<users, links, features>>

Record == [slave : Names, master : Names]

ASSUME LinkNone == NoLink \notin Record

TypeOK ==
  /\ users \subseteq Names /\ links \in [Names -> Record \cup {NoLink}]
  /\ features \subseteq Features

Records == {links[k] : k \in Names} \ {NoLink}

find_link(n) == links[n]

find_link2_slip(m, s) == [slave |-> m, master |-> s] \in Records

find_link2(m, s) == [slave |-> s, master |-> m] \in Records

AddLink_slip(m, s) == [links EXCEPT ![m] = [slave |-> s, master |-> m]]

AddLink(m, s) == [links EXCEPT ![s] = [slave |-> s, master |-> m]]

DeleteLink(t, s) == [t EXCEPT ![s] = NoLink]

Mentions_slip(r, n) == r # NoLink /\ r.slave = n

Mentions(r, n) == r # NoLink /\ n \in {r.slave, r.master}

\* DeleteLinks visits the table in some order.  After SET MASTER a visit may
\* erase the entry to be visited next, a use of freed memory; here the entry is
\* skipped, the mildest outcome.
Visit(t, k, n) == IF Mentions(t[k], n) THEN DeleteLink(t, t[k].slave) ELSE t

DeleteLinks(n, order) ==
  LET after[i \in 0 .. Len(order)] == IF i = 0 THEN links ELSE Visit(after[i - 1], order[i], n)
  IN  after[Len(order)]

Orders == SetToSeqs(Names)

-----------------------------------------------------------------------------
\* Who can give a command as nick n: somebody identified to account n, or, with
\* another name, to any account.
MayCommandAs(n) == n \in users \/ ("othername" \in features /\ users # {})

nick_register(n) ==
  /\ n \notin users
  /\ users' = users \cup {n}
  /\ UNCHANGED <<links, features>>

nick_link(n, m) ==
  /\ MayCommandAs(n)
  /\ m # n
  /\ m \in users
  /\ find_link(n) = NoLink
  /\ ~find_link2(n, m)
  /\ links' = AddLink(m, n)
  /\ UNCHANGED <<users, features>>

\* The record found is deleted through its slave's key.
nick_unlink(n, m) ==
  /\ MayCommandAs(n)
  /\ m # n
  /\ m \in users
  /\ \/ find_link2(n, m) /\ links' = DeleteLink(links, m)
     \/ ~find_link2(n, m) /\ find_link2(m, n) /\ links' = DeleteLink(links, n)
  /\ UNCHANGED <<users, features>>

\* Any link to the caller is taken for the one to m.
nick_set_master_slip(n, m) ==
  /\ "setmaster" \in features
  /\ MayCommandAs(n)
  /\ \E k \in Names :
       /\ links[k] # NoLink
       /\ IF m = n THEN k = n ELSE links[k].master = n
       /\ links' = [links EXCEPT ![k] = [slave |-> links[k].master, master |-> m]]
  /\ UNCHANGED <<users, features>>

\* The two names of a record are exchanged in place; m = n names the caller.
nick_set_master(n, m) ==
  /\ "setmaster" \in features
  /\ MayCommandAs(n)
  /\ \E k \in Names :
       /\ links[k] # NoLink
       /\ IF m = n THEN k = n ELSE links[k] = [slave |-> m, master |-> n]
       /\ links' = [links EXCEPT ![k] = [slave |-> links[k].master, master |-> m]]
  /\ UNCHANGED <<users, features>>

userdrop(n) ==
  /\ n \in users
  /\ users' = users \ {n}
  /\ \E order \in Orders : links' = DeleteLinks(n, order)
  /\ UNCHANGED features

Init ==
  /\ users \in SUBSET Names
  /\ links = [n \in Names |-> NoLink]
  /\ features \in SUBSET Features

Next ==
  \/ \E n \in Names : nick_register(n) \/ userdrop(n)
  \/ \E n, m \in Names : nick_link(n, m) \/ nick_unlink(n, m) \/ nick_set_master(n, m)

Spec == Init /\ [][Next]_vars

-----------------------------------------------------------------------------
(* Properties *)

\* In plain use the table finds every record under its slave, so that the account
\* that has a master reaches it ("Set the nick whose access list is shared when
\* several accounts are linked", commands/nick.md).
KeyedBySlave == features = {} => \A k \in Names : links[k] # NoLink => links[k].slave = k

\* Whatever SET MASTER did before, find_link never answers with a link between
\* two other accounts: a record stays under the name of one of its ends, so that
\* a stale key misleads the two linked accounts and nobody else.
FoundLinkIsOwn ==
  \A k \in Names : links[k] # NoLink => k \in {links[k].slave, links[k].master}

\* In plain use two accounts are never each other's master, or GetFlag would never
\* return.
NoMutualLinks ==
  features = {} => \A n, m \in Names : ~(find_link2(n, m) /\ find_link2(m, n))

\* In plain use links join registered accounts ("Link your account to another
\* account", commands/nick.md): load_one_link refuses any other, and with it the
\* database.
LinksJoinAccounts ==
  features = {} => \A r \in Records : r.slave \in users /\ r.master \in users

\* The account GetFlag asks after n, NoLink when the search is over.
MasterOf(n) ==
  IF n = NoLink THEN NoLink
  ELSE IF links[n] # NoLink /\ links[n].master \in users THEN links[n].master
  ELSE NoLink

\* A search for accesses ends: it never comes back to an account ("Impossible
\* recursive link", channel.c).
ChainsEnd ==
  \A n \in users :
    LET visit[i \in 0..Cardinality(Names)] ==
          IF i = 0 THEN n ELSE MasterOf(visit[i - 1])
    IN  visit[Cardinality(Names)] = NoLink

\* What a save would write of the accounts and links, as Persist has it: the key
\* of an entry is not saved.
Registries ==
  [users |-> users, chans |-> {}, access |-> {}, trusts |-> {},
   links |-> {<<r.master, r.slave>> : r \in Records}, bots |-> {}, chanbots |-> {}]

Database == INSTANCE Persist WITH
  Chans <- {}, Hosts <- {}, Bots <- {}, NoSave <- NoLink, MaxFaults <- 0, Faults <- {},
  mem <- Registries, disk <- <<>>, proc <- [phase |-> "running"], snapshot <- NoLink, faults <- 0

\* In plain use what the table does to the links is what Persist takes its commands
\* to do: LINK and UNLINK change one row, and the drop of an account takes every
\* link of it and no other, whichever hash entry it visits first ("Link your account
\* to another account", "Drop your account", commands/nick.md).
LinksFollowCommands == [][features = {} => Database!Command]_Registries
=============================================================================
