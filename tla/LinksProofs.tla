---------------------------- MODULE LinksProofs -----------------------------
(***************************************************************************)
(* Proofs about Links, for any finite set of names: the table keeps its    *)
(* shape in every use, and in plain use its links join registered accounts,*)
(* are found under their slave, and change as Persist's commands say.      *)
(***************************************************************************)
EXTENDS Links, FiniteSetTheorems, WellFoundedInduction, TLAPS

-----------------------------------------------------------------------------
(* Induction over the visits of a loop *)

LEMMA Least ==
  ASSUME NEW T \in SUBSET Nat, T # {}
  PROVE  \E x \in T : \A y \in T : x <= y
<1>1. PICK R : R = OpToRel(<, Nat)
  OBVIOUS
<1>2. IsWellFoundedOn(R, Nat)
  BY <1>1, NatLessThanWellFounded
<1>3. PICK x \in T : \A y \in T : ~(<<y, x>> \in R)
  BY <1>2, WFMin
<1>4. \A y \in T : <<y, x>> \in R <=> y < x
  BY <1>1 DEF OpToRel
<1>5. \A y \in T : y \in Nat /\ x \in Nat /\ ~(y < x)
  BY <1>3, <1>4
<1> QED BY <1>5

\* A set of numbers that has 0 and with a number the next has them all.
LEMMA Counting ==
  ASSUME NEW S, 0 \in S, \A n \in Nat : n \in S => n + 1 \in S
  PROVE  Nat \subseteq S
<1> SUFFICES ASSUME Nat \ S # {} PROVE FALSE
  OBVIOUS
<1>1. PICK x \in Nat \ S : \A y \in Nat \ S : x <= y
  BY Least
<1>2. x - 1 \in Nat /\ x - 1 \in S /\ x = (x - 1) + 1
  BY <1>1
<1> QED BY <1>1, <1>2

-----------------------------------------------------------------------------
(* DeleteLinks *)

\* The table after each visit.
Deleting(f, n, order) ==
  f = [i \in 0 .. Len(order) |-> IF i = 0 THEN links ELSE Visit(f[i - 1], order[i], n)]

LEMMA DeletingExists ==
  ASSUME NEW n, NEW order, Len(order) \in Nat
  PROVE  \E f : Deleting(f, n, order)
<1>1. PICK S : S = {m \in Nat : \E f : f = [i \in 0 .. m |-> IF i = 0 THEN links ELSE Visit(f[i - 1], order[i], n)]}
  OBVIOUS
<1>2. 0 \in S
  <2>1. PICK f : f = [i \in 0 .. 0 |-> links]
    OBVIOUS
  <2>2. \A i \in 0 .. 0 : i = 0
    OBVIOUS
  <2>3. f = [i \in 0 .. 0 |-> IF i = 0 THEN links ELSE Visit(f[i - 1], order[i], n)]
    BY <2>1, <2>2
  <2> QED BY <1>1, <2>3
<1>3. ASSUME NEW m \in Nat, m \in S PROVE m + 1 \in S
  <2>1. PICK f : f = [i \in 0 .. m |-> IF i = 0 THEN links ELSE Visit(f[i - 1], order[i], n)]
    BY <1>1, <1>3
  <2>2. PICK g : g = [i \in 0 .. m + 1 |-> IF i = m + 1 THEN Visit(f[m], order[m + 1], n) ELSE f[i]]
    OBVIOUS
  <2>3. ASSUME NEW i \in 0 .. m + 1
        PROVE  g[i] = IF i = 0 THEN links ELSE Visit(g[i - 1], order[i], n)
    <3>1. CASE i = m + 1
      <4>1. i # 0 /\ i - 1 = m /\ m \in 0 .. m + 1 /\ m # m + 1
        BY <3>1
      <4>2. g[m] = f[m] /\ g[i] = Visit(f[m], order[m + 1], n)
        BY <2>2, <3>1, <4>1
      <4> QED BY <3>1, <4>1, <4>2
    <3>2. CASE i # m + 1
      <4>1. i \in 0 .. m /\ (i = 0 \/ (i - 1 \in 0 .. m + 1 /\ i - 1 # m + 1 /\ i - 1 \in 0 .. m))
        BY <3>2
      <4>2. g[i] = f[i] /\ (i = 0 \/ g[i - 1] = f[i - 1])
        BY <2>2, <3>2, <4>1
      <4>3. f[i] = IF i = 0 THEN links ELSE Visit(f[i - 1], order[i], n)
        BY <2>1, <4>1
      <4> QED BY <4>2, <4>3
    <3> QED BY <3>1, <3>2
  <2>4. g = [i \in 0 .. m + 1 |-> IF i = 0 THEN links ELSE Visit(g[i - 1], order[i], n)]
    BY <2>2, <2>3
  <2> QED BY <1>1, <2>4
<1>4. Len(order) \in S
  BY <1>2, <1>3, Counting
<1> QED BY <1>1, <1>4 DEF Deleting

LEMMA DeletingSteps ==
  ASSUME NEW n, NEW order, Len(order) \in Nat
  PROVE  \E f : Deleting(f, n, order) /\ DeleteLinks(n, order) = f[Len(order)]
<1>1. PICK g : g = CHOOSE f : Deleting(f, n, order)
  OBVIOUS
<1>2. Deleting(g, n, order)
  BY <1>1, DeletingExists
<1>3. DeleteLinks(n, order) = g[Len(order)]
  BY <1>1 DEF DeleteLinks, Deleting
<1> QED BY <1>2, <1>3

\* What DeleteLinks leaves was there before; and where every record is under its slave,
\* nothing is left of the name and nothing else is gone.
LEMMA DeletingLeaves ==
  ASSUME links \in [Names -> Record \cup {NoLink}], NEW n, NEW order \in Seq(Names)
  PROVE  /\ DeleteLinks(n, order) \in [Names -> Record \cup {NoLink}]
         /\ \A k \in Names : DeleteLinks(n, order)[k] \in {links[k], NoLink}
         /\ (\A k \in Names : links[k] # NoLink => links[k].slave = k) =>
              /\ \A i \in 1 .. Len(order) : ~Mentions(DeleteLinks(n, order)[order[i]], n)
              /\ \A k \in Names : ~Mentions(links[k], n) => DeleteLinks(n, order)[k] = links[k]
<1>1. PICK len : len = Len(order) /\ len \in Nat
  OBVIOUS
<1>2. PICK f : Deleting(f, n, order) /\ DeleteLinks(n, order) = f[Len(order)]
  BY <1>1, DeletingSteps
<1>3. PICK keyed : keyed = \A k \in Names : links[k] # NoLink => links[k].slave = k
  OBVIOUS
<1>4. PICK S : S = {m \in Nat : m \in 0 .. len =>
        /\ f[m] \in [Names -> Record \cup {NoLink}]
        /\ \A k \in Names : f[m][k] \in {links[k], NoLink}
        /\ keyed => \A i \in 1 .. m : ~Mentions(f[m][order[i]], n)
        /\ keyed => \A k \in Names : ~Mentions(links[k], n) => f[m][k] = links[k]}
  OBVIOUS
<1>5. f[0] = links /\ \A m \in 1 .. len : f[m] = Visit(f[m - 1], order[m], n)
  BY <1>1, <1>2 DEF Deleting
<1>6. 0 \in S
  BY <1>4, <1>5
<1>7. ASSUME NEW m \in Nat, m \in S, m + 1 \in 0 .. len PROVE m + 1 \in S
  <2>1. m \in 0 .. len /\ m + 1 \in 1 .. len /\ (m + 1) - 1 = m /\ m + 1 \in Nat
    BY <1>1, <1>7
  <2>2. /\ f[m] \in [Names -> Record \cup {NoLink}]
        /\ \A k \in Names : f[m][k] \in {links[k], NoLink}
        /\ keyed => \A i \in 1 .. m : ~Mentions(f[m][order[i]], n)
        /\ keyed => \A k \in Names : ~Mentions(links[k], n) => f[m][k] = links[k]
    BY <1>4, <1>7, <2>1
  <2>3. f[m + 1] = Visit(f[m], order[m + 1], n) /\ order[m + 1] \in Names
    BY <1>1, <1>5, <2>1
  <2>4. PICK s : f[m + 1] = f[m] \/ (f[m + 1] = [f[m] EXCEPT ![s] = NoLink])
    BY <2>3 DEF Visit, DeleteLink
  <2>5. f[m + 1] \in [Names -> Record \cup {NoLink}] /\ \A k \in Names : f[m + 1][k] \in {f[m][k], NoLink}
    BY <2>2, <2>4
  <2>6. ASSUME keyed
        PROVE  /\ ~Mentions(f[m + 1][order[m + 1]], n)
               /\ \A k \in Names : ~Mentions(links[k], n) => f[m + 1][k] = links[k]
    <3>1. CASE Mentions(f[m][order[m + 1]], n)
      <4>1. f[m][order[m + 1]] = links[order[m + 1]] /\ links[order[m + 1]] # NoLink
        BY <2>2, <2>3, <3>1 DEF Mentions
      <4>2. f[m][order[m + 1]].slave = order[m + 1]
        BY <1>3, <2>3, <2>6, <4>1
      <4>3. f[m + 1] = [f[m] EXCEPT ![order[m + 1]] = NoLink]
        BY <2>3, <3>1, <4>2 DEF Visit, DeleteLink
      <4>4. ~Mentions(f[m + 1][order[m + 1]], n)
        BY <2>2, <2>3, <4>3 DEF Mentions
      <4>5. Mentions(links[order[m + 1]], n)
        BY <3>1, <4>1
      <4>6. ASSUME NEW k \in Names, ~Mentions(links[k], n) PROVE f[m + 1][k] = links[k]
        BY <2>2, <2>6, <4>3, <4>5, <4>6
      <4> QED BY <4>4, <4>6
    <3>2. CASE ~Mentions(f[m][order[m + 1]], n)
      <4>1. f[m + 1] = f[m]
        BY <2>3, <3>2 DEF Visit
      <4> QED BY <2>2, <2>6, <3>2, <4>1
    <3> QED BY <3>1, <3>2
  <2>7. ASSUME keyed, NEW i \in 1 .. m PROVE ~Mentions(f[m + 1][order[i]], n)
    <3>1. order[i] \in Names
      BY <1>1, <2>1
    <3> QED BY <2>2, <2>5, <2>7, <3>1 DEF Mentions
  <2>8. \A i \in 1 .. m + 1 : i = m + 1 \/ i \in 1 .. m
    BY <2>1
  <2> QED BY <1>4, <2>1, <2>2, <2>5, <2>6, <2>7, <2>8
<1>8. ASSUME NEW m \in Nat, m \in S PROVE m + 1 \in S
  <2>1. CASE m + 1 \in 0 .. len
    BY <1>7, <1>8, <2>1
  <2>2. CASE m + 1 \notin 0 .. len
    BY <1>4, <2>2
  <2> QED BY <2>1, <2>2
<1>9. len \in S /\ len \in 0 .. len
  BY <1>1, <1>6, <1>8, Counting
<1> QED BY <1>1, <1>2, <1>3, <1>4, <1>9

\* A visit of the whole table.
LEMMA WholeTable ==
  ASSUME NEW order \in Orders
  PROVE  order \in Seq(Names) /\ \A k \in Names : \E i \in 1 .. Len(order) : order[i] = k
<1>1. PICK len : len = Cardinality(Names) /\ len \in Nat
  BY LinkNames, FS_CardinalityType
<1>2. order \in [1 .. len -> Names] /\ \A i, j \in 1 .. len : order[i] = order[j] => i = j
  BY <1>1 DEF Orders, SetToSeqs
<1>3. order \in Injection(1 .. len, Names)
  BY <1>2 DEF Injection, IsInjective
<1>4. Cardinality(1 .. len) = len
  BY <1>1, FS_Interval
<1>5. order \in Surjection(1 .. len, Names)
  BY <1>1, <1>3, <1>4, LinkNames, FS_Injection
<1>6. order \in Seq(Names) /\ Len(order) = len
  BY <1>1, <1>2
<1> QED BY <1>5, <1>6 DEF Surjection

-----------------------------------------------------------------------------
(* The table *)

\* Any use keeps a record under one of its ends.
TableInv == TypeOK /\ FoundLinkIsOwn

\* In plain use a record lies under its slave, no two names are each other's master, and
\* both ends are accounts.
PlainInv ==
  features = {} =>
    /\ \A k \in Names : links[k] # NoLink => links[k].slave = k
    /\ \A k \in Names : links[k] # NoLink => links[k].slave \in users /\ links[k].master \in users
    /\ \A k, l \in Names :
         links[k] # NoLink /\ links[l] # NoLink => links[k].master # links[l].slave \/ links[l].master # links[k].slave

\* What the drop of an account leaves of the table.
LEMMA DropLeaves ==
  ASSUME TableInv, NEW n \in Names, userdrop(n)
  PROVE  /\ links' \in [Names -> Record \cup {NoLink}]
         /\ \A k \in Names : links'[k] \in {links[k], NoLink}
         /\ (\A k \in Names : links[k] # NoLink => links[k].slave = k) =>
              \A k \in Names : ~Mentions(links'[k], n) /\ (~Mentions(links[k], n) => links'[k] = links[k])
<1>1. PICK order \in Orders : links' = DeleteLinks(n, order)
  BY DEF userdrop
<1>2. order \in Seq(Names) /\ \A k \in Names : \E i \in 1 .. Len(order) : order[i] = k
  BY WholeTable
<1>3. links \in [Names -> Record \cup {NoLink}]
  BY DEF TableInv, TypeOK
<1>4. /\ DeleteLinks(n, order) \in [Names -> Record \cup {NoLink}]
      /\ \A k \in Names : DeleteLinks(n, order)[k] \in {links[k], NoLink}
      /\ (\A k \in Names : links[k] # NoLink => links[k].slave = k) =>
           /\ \A i \in 1 .. Len(order) : ~Mentions(DeleteLinks(n, order)[order[i]], n)
           /\ \A k \in Names : ~Mentions(links[k], n) => DeleteLinks(n, order)[k] = links[k]
  BY <1>2, <1>3, DeletingLeaves
<1>5. PICK after : after = DeleteLinks(n, order)
  OBVIOUS
<1>6. ASSUME \A k \in Names : links[k] # NoLink => links[k].slave = k, NEW k \in Names
      PROVE  ~Mentions(after[k], n) /\ (~Mentions(links[k], n) => after[k] = links[k])
  <2>1. PICK i \in 1 .. Len(order) : order[i] = k
    BY <1>2
  <2> QED BY <1>4, <1>5, <1>6, <2>1
<1>7. links' = after
  BY <1>1, <1>5
<1> QED BY <1>4, <1>5, <1>6, <1>7

\* An account is dropped.
LEMMA DropKeeps ==
  ASSUME TableInv, PlainInv, NEW n \in Names, userdrop(n)
  PROVE  TableInv' /\ PlainInv'
<1>1. users' = users \ {n} /\ features' = features
  BY DEF userdrop
<1>2. /\ links' \in [Names -> Record \cup {NoLink}]
      /\ \A k \in Names : links'[k] \in {links[k], NoLink}
      /\ (\A k \in Names : links[k] # NoLink => links[k].slave = k) => \A k \in Names : ~Mentions(links'[k], n)
  BY DropLeaves
<1>3. TableInv'
  BY <1>1, <1>2 DEF TableInv, TypeOK, FoundLinkIsOwn
<1>4. ASSUME features = {} PROVE \A k \in Names : links'[k] # NoLink => n \notin {links'[k].slave, links'[k].master}
  BY <1>2, <1>4 DEF PlainInv, Mentions
<1>5. PlainInv'
  BY <1>1, <1>2, <1>4 DEF PlainInv
<1> QED BY <1>3, <1>5

LEMMA NextKeeps ==
  ASSUME TableInv, PlainInv, [Next]_vars
  PROVE  TableInv' /\ PlainInv'
<1>0. links \in [Names -> Record \cup {NoLink}] /\ users \subseteq Names /\ NoLink \notin Record
  BY LinkNone DEF TableInv, TypeOK
<1>1. CASE UNCHANGED vars
  BY <1>1 DEF vars, TableInv, TypeOK, FoundLinkIsOwn, PlainInv
<1>2. ASSUME NEW n \in Names, nick_register(n) PROVE TableInv' /\ PlainInv'
  BY <1>2 DEF nick_register, TableInv, TypeOK, FoundLinkIsOwn, PlainInv
<1>3. ASSUME NEW n \in Names, userdrop(n) PROVE TableInv' /\ PlainInv'
  BY <1>3, DropKeeps
<1>4. ASSUME NEW n \in Names, NEW m \in Names, nick_link(n, m) PROVE TableInv' /\ PlainInv'
  <2>1. PICK r \in Record : r = [slave |-> n, master |-> m]
    BY DEF Record
  <2>2. /\ links' = [links EXCEPT ![n] = r] /\ UNCHANGED <<users, features>>
        /\ m # n /\ m \in users /\ links[n] = NoLink
    BY <1>4, <2>1 DEF nick_link, AddLink, find_link
  <2>3. TableInv'
    BY <1>0, <2>1, <2>2 DEF TableInv, TypeOK, FoundLinkIsOwn
  <2>4. ASSUME features = {} PROVE n \in users /\ \A k \in Names : links[k] # NoLink => links[k].slave # m \/ links[k].master # n
    <3>1. n \in users
      BY <1>4, <2>4 DEF nick_link, MayCommandAs
    <3>2. [slave |-> m, master |-> n] \notin Records
      BY <1>4 DEF nick_link, find_link2
    <3>3. \A k \in Names : links[k] # NoLink => links[k] = [slave |-> links[k].slave, master |-> links[k].master]
      BY <1>0 DEF Record
    <3> QED BY <3>1, <3>2, <3>3 DEF Records
  <2>5. PlainInv'
    BY <1>0, <2>1, <2>2, <2>4 DEF PlainInv
  <2> QED BY <2>3, <2>5
<1>5. ASSUME NEW n \in Names, NEW m \in Names, nick_unlink(n, m) PROVE TableInv' /\ PlainInv'
  <2>1. PICK k \in Names : links' = [links EXCEPT ![k] = NoLink]
    BY <1>5 DEF nick_unlink, DeleteLink
  <2> QED BY <1>0, <1>5, <2>1 DEF nick_unlink, TableInv, TypeOK, FoundLinkIsOwn, PlainInv
<1>6. ASSUME NEW n \in Names, NEW m \in Names, nick_set_master(n, m) PROVE TableInv' /\ PlainInv'
  <2>1. PICK k \in Names :
          /\ links[k] # NoLink
          /\ IF m = n THEN k = n ELSE links[k] = [slave |-> m, master |-> n]
          /\ links' = [links EXCEPT ![k] = [slave |-> links[k].master, master |-> m]]
    BY <1>6 DEF nick_set_master
  <2>2. links[k] \in Record /\ links[k].master \in Names /\ k \in {links[k].slave, links[k].master}
    BY <1>0, <2>1 DEF Record, TableInv, FoundLinkIsOwn
  <2>3. [slave |-> links[k].master, master |-> m] \in Record
    BY <2>2 DEF Record
  <2>4. k \in {links[k].master, m}
    <3>1. CASE m = n
      BY <2>1, <3>1
    <3>2. CASE m # n
      BY <2>1, <2>2, <3>2
    <3> QED BY <3>1, <3>2
  <2>5. TableInv'
    BY <1>0, <1>6, <2>1, <2>3, <2>4 DEF nick_set_master, TableInv, TypeOK, FoundLinkIsOwn
  <2>6. features' # {}
    BY <1>6 DEF nick_set_master
  <2> QED BY <2>5, <2>6 DEF PlainInv
<1> QED BY <1>1, <1>2, <1>3, <1>4, <1>5, <1>6 DEF Next

LEMMA Kept == Spec => [](TableInv /\ PlainInv)
<1>1. Init => TableInv /\ PlainInv
  BY DEF Init, TableInv, TypeOK, FoundLinkIsOwn, PlainInv
<1>2. TableInv /\ PlainInv /\ [Next]_vars => (TableInv /\ PlainInv)'
  BY NextKeeps
<1> QED BY <1>1, <1>2, PTL DEF Spec

\* Every variable keeps its type.
THEOREM TypeCorrect == Spec => []TypeOK
<1>1. TableInv => TypeOK
  BY DEF TableInv
<1> QED BY <1>1, Kept, PTL

\* Whatever SET MASTER did before, a record stays under the name of one of its two ends,
\* DeleteLinks' visits in any order included (AddLink, nick_set_master, find_link).
THEOREM FoundCorrect == Spec => []FoundLinkIsOwn
<1>1. TableInv => FoundLinkIsOwn
  BY DEF TableInv
<1> QED BY <1>1, Kept, PTL

LEMMA PlainUse == TableInv /\ PlainInv => KeyedBySlave /\ LinksJoinAccounts /\ NoMutualLinks
<1> SUFFICES ASSUME TableInv, PlainInv PROVE KeyedBySlave /\ LinksJoinAccounts /\ NoMutualLinks
  OBVIOUS
<1>1. KeyedBySlave
  BY DEF PlainInv, KeyedBySlave
<1>2. LinksJoinAccounts
  BY DEF PlainInv, LinksJoinAccounts, Records
<1>3. NoMutualLinks
  <2> SUFFICES ASSUME features = {}, NEW n \in Names, NEW m \in Names,
                      find_link2(n, m), find_link2(m, n)
               PROVE  FALSE
    BY DEF NoMutualLinks
  <2>1. PICK k \in Names : links[k] # NoLink /\ links[k] = [slave |-> m, master |-> n]
    BY DEF find_link2, Records
  <2>2. PICK l \in Names : links[l] # NoLink /\ links[l] = [slave |-> n, master |-> m]
    BY DEF find_link2, Records
  <2>3. links[k].master = n /\ links[k].slave = m /\ links[l].master = m /\ links[l].slave = n
    BY <2>1, <2>2
  <2> QED BY <2>1, <2>2, <2>3 DEF PlainInv
<1> QED BY <1>1, <1>2, <1>3

\* In plain use a record is found under its slave's name, whatever was linked, unlinked and
\* dropped (AddLink, DeleteLink, DeleteLinks).
THEOREM KeysCorrect == Spec => []KeyedBySlave
<1> QED BY PlainUse, Kept, PTL

\* In plain use a dropped account leaves no record behind, in whatever order DeleteLinks comes
\* by its records (userdrop, nick_link).
THEOREM EndsCorrect == Spec => []LinksJoinAccounts
<1> QED BY PlainUse, Kept, PTL

\* In plain use no two accounts are each other's master: nick_link's look at the links of both
\* is enough for that, though not against longer cycles.
THEOREM NeverMutual == Spec => []NoMutualLinks
<1> QED BY PlainUse, Kept, PTL

-----------------------------------------------------------------------------
(* The links as Persist's commands have them *)

\* The rows of the links, of a table that lies as it does in plain use.
LinkRows == {<<r.master, r.slave>> : r \in Records}

LEMMA TheTables ==
  /\ Database!Tables = {"users", "chans", "access", "trusts", "links", "bots", "chanbots"}
  /\ DOMAIN Registries = Database!Tables
BY DEF Database!Tables, Database!Rows, Registries

\* A step that replaces the tables in new and no others.
LEMMA TablesChange ==
  ASSUME NEW new, DOMAIN new \subseteq Database!Tables,
         \A t \in DOMAIN new : Registries'[t] = new[t],
         \A t \in Database!Tables \ DOMAIN new : Registries'[t] = Registries[t]
  PROVE  Database!Change(new)
<1>1. Registries' = [t \in Database!Tables |-> Registries'[t]]
  BY TheTables DEF Registries
<1>2. Registries' = [t \in Database!Tables |-> IF t \in DOMAIN new THEN new[t] ELSE Registries[t]]
  BY <1>1
<1>3. Database!Running
  BY DEF Database!Running
<1> QED BY <1>2, <1>3 DEF Database!Change

\* The changes that are made.
LEMMA TablesBecome ==
  ASSUME NEW accounts, NEW rows, users' = accounts, LinkRows' = rows
  PROVE  /\ rows = LinkRows => Database!Change([users |-> accounts])
         /\ accounts = users => Database!Change([links |-> rows])
         /\ Database!Change([users |-> accounts, links |-> rows, chans |-> {}, access |-> {},
                             chanbots |-> {}])
<1>1. /\ Registries'["users"] = accounts /\ Registries'["links"] = rows
      /\ Registries'["chans"] = {} /\ Registries'["access"] = {} /\ Registries'["chanbots"] = {}
      /\ Registries'["trusts"] = {} /\ Registries'["bots"] = {}
  BY DEF Registries, LinkRows
<1>2. /\ Registries["users"] = users /\ Registries["links"] = LinkRows
      /\ Registries["chans"] = {} /\ Registries["access"] = {} /\ Registries["chanbots"] = {}
      /\ Registries["trusts"] = {} /\ Registries["bots"] = {}
  BY DEF Registries, LinkRows
<1>3. ASSUME rows = LinkRows PROVE Database!Change([users |-> accounts])
  BY <1>1, <1>2, <1>3, TheTables, TablesChange
<1>4. ASSUME accounts = users PROVE Database!Change([links |-> rows])
  BY <1>1, <1>2, <1>4, TheTables, TablesChange
<1>5. Database!Change([users |-> accounts, links |-> rows, chans |-> {}, access |-> {}, chanbots |-> {}])
  BY <1>1, <1>2, TheTables, TablesChange
<1> QED BY <1>3, <1>4, <1>5

\* A table whose records lie under their slaves has one row for every key in use.
LEMMA RowsOfTable ==
  ASSUME NEW t \in [Names -> Record \cup {NoLink}],
         \A k \in Names : t[k] # NoLink => t[k].slave = k
  PROVE  \A x : x \in {<<r.master, r.slave>> : r \in {t[k] : k \in Names} \ {NoLink}}
                 <=> \E k \in Names : t[k] # NoLink /\ x = <<t[k].master, k>>
<1> SUFFICES ASSUME NEW x
             PROVE  (\E r \in {t[k] : k \in Names} \ {NoLink} : x = <<r.master, r.slave>>)
                    <=> \E k \in Names : t[k] # NoLink /\ x = <<t[k].master, k>>
  OBVIOUS
<1>1. ASSUME NEW r \in {t[k] : k \in Names} \ {NoLink}, x = <<r.master, r.slave>>
      PROVE  \E k \in Names : t[k] # NoLink /\ x = <<t[k].master, k>>
  <2>1. PICK k \in Names : r = t[k]
    OBVIOUS
  <2> QED BY <1>1, <2>1
<1>2. ASSUME NEW k \in Names, t[k] # NoLink, x = <<t[k].master, k>>
      PROVE  \E r \in {t[l] : l \in Names} \ {NoLink} : x = <<r.master, r.slave>>
  <2>1. t[k] \in {t[l] : l \in Names} \ {NoLink} /\ t[k].slave = k
    BY <1>2
  <2> QED BY <1>2, <2>1
<1> QED BY <1>1, <1>2

\* The table in plain use, before and after a step.
LEMMA RowsOfLinks ==
  TableInv /\ PlainInv /\ features = {} =>
    \A x : x \in LinkRows <=> \E k \in Names : links[k] # NoLink /\ x = <<links[k].master, k>>
<1> SUFFICES ASSUME TableInv, PlainInv, features = {}
             PROVE  \A x : x \in LinkRows <=> \E k \in Names : links[k] # NoLink /\ x = <<links[k].master, k>>
  OBVIOUS
<1>1. links \in [Names -> Record \cup {NoLink}] /\ \A k \in Names : links[k] # NoLink => links[k].slave = k
  BY DEF TableInv, TypeOK, PlainInv
<1>2. LinkRows = {<<r.master, r.slave>> : r \in {links[k] : k \in Names} \ {NoLink}}
  BY DEF LinkRows, Records
<1> QED BY <1>1, <1>2, RowsOfTable

LEMMA RowsOfLinksNext ==
  (TableInv /\ PlainInv /\ features = {})' =>
    (\A x : x \in LinkRows <=> \E k \in Names : links[k] # NoLink /\ x = <<links[k].master, k>>)'
BY RowsOfLinks, PTL

\* An account is dropped: its links go, those of the others stay.
LEMMA DropTables ==
  ASSUME TableInv, PlainInv, (TableInv /\ PlainInv)', features = {}, NEW n \in Names, userdrop(n)
  PROVE  Database!userdrop(n)
<1>1. n \in users /\ users' = users \ {n} /\ features' = {}
  BY DEF userdrop
<1>2. links \in [Names -> Record \cup {NoLink}] /\ NoLink \notin Record
      /\ \A k \in Names : links[k] # NoLink => links[k].slave = k
  BY LinkNone DEF TableInv, TypeOK, PlainInv
<1>3. /\ \A k \in Names : links'[k] \in {links[k], NoLink}
      /\ \A k \in Names : ~Mentions(links'[k], n) /\ (~Mentions(links[k], n) => links'[k] = links[k])
  BY <1>2, DropLeaves
<1>4. \A x : x \in LinkRows <=> \E k \in Names : links[k] # NoLink /\ x = <<links[k].master, k>>
  BY RowsOfLinks
<1>5. \A x : x \in LinkRows' <=> \E k \in Names : links'[k] # NoLink /\ x = <<links'[k].master, k>>
  BY <1>1, RowsOfLinksNext
<1>6. ASSUME NEW x PROVE x \in LinkRows' <=> x \in LinkRows /\ n \notin {x[1], x[2]}
  <2>1. ASSUME NEW k \in Names, links'[k] # NoLink, x = <<links'[k].master, k>>
        PROVE  links[k] # NoLink /\ x = <<links[k].master, k>> /\ n \notin {x[1], x[2]}
    <3>1. links'[k] = links[k] /\ links[k].slave = k
      BY <1>2, <1>3, <2>1
    <3>2. n \notin {links[k].master, k}
      BY <1>3, <2>1, <3>1 DEF Mentions
    <3> QED BY <2>1, <3>1, <3>2
  <2>2. ASSUME NEW k \in Names, links[k] # NoLink, x = <<links[k].master, k>>, n \notin {x[1], x[2]}
        PROVE  links'[k] # NoLink /\ x = <<links'[k].master, k>>
    <3>1. links[k].slave = k /\ n \notin {links[k].master, k}
      BY <1>2, <2>2
    <3>2. ~Mentions(links[k], n)
      BY <3>1 DEF Mentions
    <3> QED BY <1>3, <2>2, <3>2
  <2> QED BY <1>4, <1>5, <2>1, <2>2
<1>7. LinkRows' = {l \in LinkRows : n \notin {l[1], l[2]}}
  BY <1>6
<1>8. Database!Change([users |-> users \ {n}, links |-> {l \in LinkRows : n \notin {l[1], l[2]}},
                       chans |-> {}, access |-> {}, chanbots |-> {}])
  BY <1>1, <1>7, TablesBecome
<1>9. /\ Registries.users = users /\ Registries.links = LinkRows /\ Registries.chans = {}
      /\ Registries.access = {} /\ Registries.chanbots = {}
  BY DEF Registries, LinkRows
<1>10. Database!LinksWithout(n) = {l \in LinkRows : n \notin {l[1], l[2]}}
  BY <1>9 DEF Database!LinksWithout
<1>11. PICK nobody : nobody \in [{} -> Names]
  <2>1. [c \in {} |-> n] \in [{} -> Names]
    OBVIOUS
  <2> QED BY <2>1
<1>12. Database!userdrop(n)
  <2> DEFINE owned == {c \in {} : Database!Owner(Registries, c) = {n}}
             others(c) == {r[2] : r \in {x \in Registries.access : x[1] = c}} \ {n}
             rows == Database!Without(Registries.chans, owned) \cup {<<c, nobody[c]>> : c \in {}}
             left == {r \in Database!Without(Registries.access, owned \ {}) :
                        r[2] # n /\ ~(r[1] \in {} /\ r[2] = nobody[r[1]])}
             botrows == Database!Without(Registries.chanbots, owned \ {})
  <2>1. rows = {} /\ left = {} /\ botrows = {}
    BY <1>9 DEF Database!Without
  <2> HIDE DEF rows, left, botrows
  <2>2. Database!Change([users |-> Registries.users \ {n}, links |-> Database!LinksWithout(n),
                         chans |-> rows, access |-> left, chanbots |-> botrows])
    BY <1>8, <1>9, <1>10, <2>1, Zenon
  <2>3. n \in Registries.users /\ {} \in SUBSET owned
    BY <1>1, <1>9
  <2> HIDE DEF owned, others
  <2>4. \E T \in SUBSET owned : \E h \in [T -> Names] :
          /\ \A c \in T : h[c] \in others(c)
          /\ Database!Change(
               [users    |-> Registries.users \ {n},
                links    |-> Database!LinksWithout(n),
                chans    |-> Database!Without(Registries.chans, owned) \cup {<<c, h[c]>> : c \in T},
                access   |-> {r \in Database!Without(Registries.access, owned \ T) :
                                r[2] # n /\ ~(r[1] \in T /\ r[2] = h[r[1]])},
                chanbots |-> Database!Without(Registries.chanbots, owned \ T)])
    <3>1. \A c \in {} : nobody[c] \in others(c)
      OBVIOUS
    <3> QED BY <1>11, <2>2, <2>3, <3>1, Zenon DEF rows, left, botrows
  <2> QED BY <2>3, <2>4, Zenon DEF Database!userdrop, owned, others
<1> QED BY <1>12

\* A link is made or taken away.
LEMMA LinkTables ==
  ASSUME TableInv, PlainInv, (TableInv /\ PlainInv)', features = {}, NEW n \in Names, NEW m \in Names,
         nick_link(n, m)
  PROVE  Database!nick_link(n, m)
<1>1. PICK r \in Record : r = [slave |-> n, master |-> m]
  BY DEF Record
<1>2. /\ links' = [links EXCEPT ![n] = r] /\ users' = users /\ features' = {}
      /\ m # n /\ m \in users /\ n \in users /\ links[n] = NoLink /\ ~find_link2(n, m)
  BY <1>1 DEF nick_link, AddLink, find_link, MayCommandAs
<1>3. links \in [Names -> Record \cup {NoLink}] /\ NoLink \notin Record
      /\ \A k \in Names : links[k] # NoLink => links[k].slave = k
  BY LinkNone DEF TableInv, TypeOK, PlainInv
<1>4. \A x : x \in LinkRows <=> \E k \in Names : links[k] # NoLink /\ x = <<links[k].master, k>>
  BY RowsOfLinks
<1>5. \A x : x \in LinkRows' <=> \E k \in Names : links'[k] # NoLink /\ x = <<links'[k].master, k>>
  BY <1>2, RowsOfLinksNext
<1>6. links'[n] = r /\ r # NoLink /\ r.master = m /\ \A k \in Names \ {n} : links'[k] = links[k]
  BY <1>1, <1>2, <1>3
<1>7. LinkRows' = LinkRows \cup {<<m, n>>}
  <2>1. ASSUME NEW x PROVE x \in LinkRows' <=> x \in LinkRows \/ x = <<m, n>>
    BY <1>2, <1>4, <1>5, <1>6
  <2> QED BY <2>1
<1>8. \A l \in LinkRows : l[2] # n
  BY <1>2, <1>4
<1>9. <<n, m>> \notin LinkRows
  <2> SUFFICES ASSUME links[m] # NoLink, links[m].master = n PROVE FALSE
    BY <1>4
  <2>1. links[m] \in Record /\ links[m] = [slave |-> m, master |-> n]
    BY <1>3 DEF Record
  <2> QED BY <1>2, <2>1 DEF find_link2, Records
<1>10. Registries.users = users /\ Registries.links = LinkRows
  BY DEF Registries, LinkRows
<1>11. Database!Change([links |-> LinkRows \cup {<<m, n>>}])
  BY <1>2, <1>7, TablesBecome
<1> QED BY <1>2, <1>8, <1>9, <1>10, <1>11 DEF Database!nick_link

LEMMA UnlinkTables ==
  ASSUME TableInv, PlainInv, (TableInv /\ PlainInv)', features = {}, NEW n \in Names, NEW m \in Names,
         nick_unlink(n, m)
  PROVE  Database!nick_unlink(n, m) \/ Database!nick_unlink(m, n)
<1>1. links \in [Names -> Record \cup {NoLink}] /\ NoLink \notin Record
      /\ \A k \in Names : links[k] # NoLink => links[k].slave = k
  BY LinkNone DEF TableInv, TypeOK, PlainInv
<1>2. PICK s \in Names, o \in Names :
        /\ find_link2(o, s) /\ links' = [links EXCEPT ![s] = NoLink] /\ users' = users /\ features' = {}
        /\ <<o, s>> \in {<<n, m>>, <<m, n>>}
  BY DEF nick_unlink, DeleteLink
<1>3. links[s] # NoLink /\ links[s].master = o
  <2>1. PICK k \in Names : links[k] # NoLink /\ links[k] = [slave |-> s, master |-> o]
    BY <1>2 DEF find_link2, Records
  <2>2. links[k].slave = s /\ links[k].master = o
    BY <2>1
  <2>3. k = s
    BY <1>1, <2>1, <2>2
  <2> QED BY <2>1, <2>2, <2>3
<1>4. \A x : x \in LinkRows <=> \E k \in Names : links[k] # NoLink /\ x = <<links[k].master, k>>
  BY RowsOfLinks
<1>5. \A x : x \in LinkRows' <=> \E k \in Names : links'[k] # NoLink /\ x = <<links'[k].master, k>>
  BY <1>2, RowsOfLinksNext
<1>6. links'[s] = NoLink /\ \A k \in Names \ {s} : links'[k] = links[k]
  BY <1>1, <1>2
<1>7. LinkRows' = LinkRows \ {<<o, s>>}
  <2>1. ASSUME NEW x PROVE x \in LinkRows' <=> x \in LinkRows /\ x # <<o, s>>
    BY <1>3, <1>4, <1>5, <1>6
  <2> QED BY <2>1
<1>8. <<o, s>> \in LinkRows
  BY <1>3, <1>4
<1>9. Registries.links = LinkRows
  BY DEF Registries, LinkRows
<1>10. Database!Change([links |-> LinkRows \ {<<o, s>>}])
  BY <1>2, <1>7, TablesBecome
<1>11. Database!nick_unlink(o, s)
  BY <1>8, <1>9, <1>10 DEF Database!nick_unlink
<1> QED BY <1>2, <1>11

LEMMA TablesStep ==
  TableInv /\ PlainInv /\ (TableInv /\ PlainInv)' /\ [Next]_vars
    => [features = {} => Database!Command]_Registries
<1> SUFFICES ASSUME TableInv, PlainInv, (TableInv /\ PlainInv)', [Next]_vars, features = {},
                    Registries' # Registries
             PROVE  Database!Command
  OBVIOUS
<1>1. CASE UNCHANGED vars
  BY <1>1 DEF vars, Registries, Records
<1>2. ASSUME NEW n \in Names, nick_register(n) PROVE Database!Command
  <2>1. n \notin users /\ users' = users \cup {n} /\ LinkRows' = LinkRows
    BY <1>2 DEF nick_register, LinkRows, Records
  <2>2. Database!Change([users |-> users \cup {n}])
    BY <2>1, TablesBecome
  <2>3. Registries.users = users
    BY DEF Registries
  <2>4. Database!nick_register(n)
    BY <2>1, <2>2, <2>3 DEF Database!nick_register
  <2> QED BY <2>4 DEF Database!Command
<1>3. ASSUME NEW n \in Names, userdrop(n) PROVE Database!Command
  BY <1>3, DropTables DEF Database!Command
<1>4. ASSUME NEW n \in Names, NEW m \in Names, nick_link(n, m) PROVE Database!Command
  BY <1>4, LinkTables DEF Database!Command
<1>5. ASSUME NEW n \in Names, NEW m \in Names, nick_unlink(n, m) PROVE Database!Command
  BY <1>5, UnlinkTables DEF Database!Command
<1>6. ASSUME NEW n \in Names, NEW m \in Names, nick_set_master(n, m) PROVE Database!Command
  BY <1>6 DEF nick_set_master
<1> QED BY <1>1, <1>2, <1>3, <1>4, <1>5, <1>6 DEF Next

\* In plain use LINK, UNLINK, the registration and the drop of an account change the links and
\* accounts as Persist's commands do, so that what Persist shows of saves and loads holds for
\* them: above all DeleteLinks, in whatever order it visits the table, removes every row of the
\* account and no other (AddLink, DeleteLink, DeleteLinks).
THEOREM LinksAreSaved == Spec => LinksFollowCommands
<1> QED BY Kept, TablesStep, PTL DEF Spec, LinksFollowCommands
=============================================================================
