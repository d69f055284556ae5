--------------------------- MODULE ChannelsProofs ---------------------------
(***************************************************************************)
(* Proofs about Channels, for any accounts, channels, levels and sets of   *)
(* chanflags, and that its commands are those of Persist for the tables.   *)
(*                                                                         *)
(* Most commands write one access (SetAccess), the others rewrite the row  *)
(* of a channel, so each invariant has one lemma for each of the two       *)
(* (SetAccessBase and RowBase, SetAccessGood and RowGood) and the commands *)
(* need a look at what they write.                                         *)
(***************************************************************************)
EXTENDS Channels, TLAPS

\* Owners do not remove their own access and superadmins leave flag F alone.
PlainUse == Features = {}

-----------------------------------------------------------------------------
(* Types and both ends, with every feature *)

\* The cflags that commands make: no level is above the owner's.
LegalCflag == {r \in Cflag : r.flags <= CHLEV_OWNER}

LegalLevels == \A c \in Chans, u \in Users :
                 HasCflag(c, u) => cflags[c][u] \in LegalCflag

\* Every access joins a registered channel and a registered account.
BaseInv == TypeOK /\ LegalLevels /\ CflagsHaveBothEnds

\* The cflag of AddUserToChannel is well formed.
LEMMA NewCflagType ==
  ASSUME NEW l \in Int, l <= CHLEV_OWNER, NEW fl \in SUBSET UFlags
  PROVE  NewCflag(l, fl) \in LegalCflag
  BY DEF NewCflag, LegalCflag, Cflag, GetUFlagsFromLevel, UFlags

\* The same of an owner's cflag.
LEMMA OwnerCflagType == OwnerCflag \in LegalCflag
  BY DEF OwnerCflag, NewCflag, LegalCflag, Cflag, GetUFlagsFromLevel, UFlags, CHLEV_OWNER

\* The command that writes one access keeps the base invariant when what it
\* writes is a cflag of a registered account for a registered channel, or none.
LEMMA SetAccessBase ==
  ASSUME BaseInv, NEW c \in Chans, NEW v \in Users, NEW r \in LegalCflag \cup {None},
         r # None => Chan(c) /\ v \in users,
         SetAccess(c, v, r)
  PROVE  BaseInv'
<1> USE DEF BaseInv, TypeOK, CflagsHaveBothEnds, SetAccess, HasCflag, Chan
<1>1. TypeOK'
  BY DEF LegalCflag
<1>3. LegalLevels'
  <2> SUFFICES ASSUME NEW d \in Chans, NEW u \in Users, cflags'[d][u] # None
               PROVE  cflags'[d][u] \in LegalCflag
    BY DEF LegalLevels
  <2>1. CASE d = c /\ u = v
    BY <2>1
  <2>2. CASE ~(d = c /\ u = v)
    <3>1. cflags'[d][u] = cflags[d][u]
      BY <2>2
    <3> QED BY <3>1 DEF LegalLevels
  <2> QED BY <2>1, <2>2
<1>2. CflagsHaveBothEnds'
  <2> SUFFICES ASSUME NEW d \in Chans, NEW u \in Users, cflags'[d][u] # None
               PROVE  owner[d] # None /\ u \in users
    OBVIOUS
  <2>1. CASE d = c /\ u = v
    BY <2>1
  <2>2. CASE ~(d = c /\ u = v)
    <3>1. cflags'[d][u] = cflags[d][u]
      BY <2>2
    <3> QED BY <3>1
  <2> QED BY <2>1, <2>2
<1> QED BY <1>1, <1>2, <1>3

\* The cflag of a user who has one is a record.
LEMMA HasRecord ==
  ASSUME BaseInv, NEW c \in Chans, NEW u \in Users, HasCflag(c, u)
  PROVE  cflags[c][u] \in LegalCflag /\ UFlagsOf(u, c) = cflags[c][u].uflags
  BY DEF BaseInv, LegalLevels, HasCflag, UFlagsOf

\* Adding and removing chanflags and suspending write cflags.
LEMMA EditsBase ==
  ASSUME BaseInv, NEW c \in Chans, NEW v \in Users, Chan(c), v \in users
  PROVE  /\ \A fl \in FlagSets : AddFlags(c, v, fl) => BaseInv'
         /\ \A fl \in FlagSets : RemoveFlags(c, v, fl) => BaseInv'
         /\ \A b \in BOOLEAN : SetSuspended(c, v, b) => BaseInv'
<1> USE DEF BaseInv
<1>1. ASSUME NEW fl \in FlagSets, AddFlags(c, v, fl) PROVE BaseInv'
  <2>1. fl \in SUBSET UFlags
    BY FlagSetsNonEmpty
  <2>2. CASE HasCflag(c, v)
    <3> DEFINE r == [cflags[c][v] EXCEPT !.uflags = UFlagsOf(v, c) \cup fl]
    <3>1. r \in LegalCflag
      BY <2>1, <2>2, HasRecord DEF LegalCflag, Cflag
    <3>2. SetAccess(c, v, r)
      BY <1>1, <2>2 DEF AddFlags
    <3> HIDE DEF r
    <3> QED BY <3>1, <3>2, SetAccessBase
  <2>3. CASE ~HasCflag(c, v)
    <3>1. SetAccess(c, v, NewCflag(0, fl))
      BY <1>1, <2>3 DEF AddFlags
    <3>2. NewCflag(0, fl) \in LegalCflag
      BY <2>1, NewCflagType DEF CHLEV_OWNER
    <3> QED BY <3>1, <3>2, SetAccessBase
  <2> QED BY <2>2, <2>3
<1>2. ASSUME NEW fl \in FlagSets, RemoveFlags(c, v, fl) PROVE BaseInv'
  <2>1. CASE UFlagsOf(v, c) \subseteq fl
    <3>1. SetAccess(c, v, None)
      BY <1>2, <2>1 DEF RemoveFlags
    <3> QED BY <3>1, SetAccessBase
  <2>2. CASE ~(UFlagsOf(v, c) \subseteq fl)
    <3> DEFINE r == [cflags[c][v] EXCEPT !.uflags = UFlagsOf(v, c) \ fl]
    <3>1. r \in LegalCflag
      BY <1>2, HasRecord DEF LegalCflag, Cflag, RemoveFlags
    <3>2. SetAccess(c, v, r)
      BY <1>2, <2>2 DEF RemoveFlags
    <3> HIDE DEF r
    <3> QED BY <3>1, <3>2, SetAccessBase
  <2> QED BY <2>1, <2>2
<1>3. ASSUME NEW b \in BOOLEAN, SetSuspended(c, v, b) PROVE BaseInv'
  <2> DEFINE r == [cflags[c][v] EXCEPT !.suspended = b]
  <2>1. r \in LegalCflag
    BY <1>3, HasRecord DEF LegalCflag, Cflag, SetSuspended
  <2>2. SetAccess(c, v, r)
    BY <1>3 DEF SetSuspended
  <2> HIDE DEF r
  <2> QED BY <2>1, <2>2, SetAccessBase
<1> QED BY <1>1, <1>2, <1>3

\* The rows of a table whose channel c was rewritten.
LEMMA RowBase ==
  ASSUME BaseInv, NEW c \in Chans, NEW o \in Users \cup {None},
         NEW row \in [Users -> LegalCflag \cup {None}],
         \A u \in Users : row[u] # None => o # None /\ u \in users,
         users' = users, axx' \subseteq Chans,
         owner' = [owner EXCEPT ![c] = o],
         cflags' = [cflags EXCEPT ![c] = row]
  PROVE  BaseInv'
<1>1. \A d \in Chans, u \in Users :
        cflags'[d][u] = IF d = c THEN row[u] ELSE cflags[d][u]
  BY DEF BaseInv, TypeOK
<1>2. \A d \in Chans : owner'[d] = IF d = c THEN o ELSE owner[d]
  BY DEF BaseInv, TypeOK
<1>3. TypeOK'
  BY DEF BaseInv, TypeOK, LegalCflag
<1>4. LegalLevels'
  BY <1>1 DEF BaseInv, LegalLevels, HasCflag
<1>5. CflagsHaveBothEnds'
  BY <1>1, <1>2 DEF BaseInv, CflagsHaveBothEnds, HasCflag, Chan
<1> QED BY <1>3, <1>4, <1>5 DEF BaseInv

\* Registering and dropping a channel and giving it away rewrite its row.
LEMMA OwnershipBase ==
  ASSUME BaseInv, NEW c \in Chans
  PROVE  /\ \A u \in Users : chan_register(u, c) => BaseInv'
         /\ chandrop(c) => BaseInv'
         /\ \A v \in users : Chan(c) /\ owner[c] \in users /\ GiveAway(c, v) => BaseInv'
<1> USE DEF BaseInv, TypeOK
<1>0. cflags[c] \in [Users -> LegalCflag \cup {None}]
  BY DEF LegalLevels, HasCflag
<1>1. ASSUME NEW u \in Users, chan_register(u, c) PROVE BaseInv'
  <2> DEFINE row == [cflags[c] EXCEPT ![u] = OwnerCflag]
  <2>1. row \in [Users -> LegalCflag \cup {None}]
    BY <1>0, OwnerCflagType
  <2>2. \A v \in Users : row[v] # None => u # None /\ v \in users
    BY <1>1, NoneFresh DEF chan_register, CflagsHaveBothEnds, HasCflag
  <2>3. cflags' = [cflags EXCEPT ![c] = row]
    BY <1>1 DEF chan_register
  <2>4. /\ users' = users /\ axx' \subseteq Chans
        /\ owner' = [owner EXCEPT ![c] = u]
    BY <1>1 DEF chan_register
  <2> HIDE DEF row
  <2> QED BY <2>1, <2>2, <2>3, <2>4, RowBase
<1>2. ASSUME chandrop(c) PROVE BaseInv'
  <2> DEFINE row == [u \in Users |-> None]
  <2>1. row \in [Users -> LegalCflag \cup {None}] /\ \A u \in Users : row[u] = None
    OBVIOUS
  <2>2. /\ users' = users /\ axx' \subseteq Chans
        /\ owner' = [owner EXCEPT ![c] = None]
        /\ cflags' = [cflags EXCEPT ![c] = row]
    BY <1>2 DEF chandrop
  <2> HIDE DEF row
  <2> QED BY <2>1, <2>2, RowBase
<1>3. ASSUME NEW v \in users, Chan(c), owner[c] \in users, GiveAway(c, v) PROVE BaseInv'
  <2> DEFINE row == [cflags[c] EXCEPT ![owner[c]] = None, ![v] = OwnerCflag]
  <2>1. row \in [Users -> LegalCflag \cup {None}]
    BY <1>0, OwnerCflagType
  <2>2. \A u \in Users : row[u] # None => v # None /\ u \in users
    BY <1>3, <1>0, NoneFresh DEF CflagsHaveBothEnds, HasCflag
  <2>3. cflags' = [cflags EXCEPT ![c] = row]
    BY <1>3 DEF GiveAway
  <2>4. /\ users' = users /\ axx' \subseteq Chans
        /\ owner' = [owner EXCEPT ![c] = v]
    BY <1>3 DEF GiveAway
  <2> HIDE DEF row
  <2> QED BY <2>1, <2>2, <2>3, <2>4, RowBase
<1> QED BY <1>1, <1>2, <1>3

\* What userdrop leaves: u gone, each lost channel with its heir or dropped.
LEMMA DropBase ==
  ASSUME BaseInv, NEW u \in Users, userdrop(u)
  PROVE  BaseInv'
<1> DEFINE lost == {c \in Chans : owner[c] = u}
<1>1. PICK heir \in [Chans -> Users \cup {None}] :
        /\ \A c \in lost : IF Heirs(c) = {} THEN heir[c] = None
                           ELSE heir[c] \in Heirs(c)
        /\ \A c \in Chans \ lost : heir[c] = owner[c]
        /\ owner' = heir
        /\ axx' = {c \in axx : heir[c] # None}
        /\ cflags' = AccessesAfterDrop(u, lost, heir)
  BY DEF userdrop
<1>2. users' = users \ {u}
  BY DEF userdrop
<1>3. \A c \in Chans, v \in Users :
        cflags'[c][v] = IF v = u THEN None
                        ELSE IF c \notin lost THEN cflags[c][v]
                        ELSE IF heir[c] = None THEN None
                        ELSE IF v = heir[c] THEN OwnerCflag
                        ELSE cflags[c][v]
  BY <1>1 DEF AccessesAfterDrop
<1>4. \A c \in Chans, v \in Users : cflags'[c][v] \in LegalCflag \cup {None}
  BY <1>3, OwnerCflagType DEF BaseInv, LegalLevels, HasCflag
<1>5. TypeOK'
  <2>1. cflags' \in [Chans -> [Users -> Cflag \cup {None}]]
    BY <1>1, <1>4 DEF AccessesAfterDrop, LegalCflag
  <2> QED BY <1>1, <1>2, <2>1 DEF BaseInv, TypeOK
<1>6. LegalLevels'
  BY <1>4 DEF LegalLevels, HasCflag
<1>7. CflagsHaveBothEnds'
  <2> SUFFICES ASSUME NEW c \in Chans, NEW v \in Users, cflags'[c][v] # None
               PROVE  owner'[c] # None /\ v \in users'
    BY DEF CflagsHaveBothEnds, HasCflag, Chan
  <2>1. v # u
    BY <1>3
  <2>2. CASE c \notin lost
    BY <1>1, <1>2, <1>3, <2>1, <2>2 DEF BaseInv, CflagsHaveBothEnds, HasCflag, Chan
  <2>3. CASE c \in lost
    <3>1. heir[c] # None
      BY <1>3, <2>1, <2>3
    <3>2. heir[c] \in Heirs(c)
      BY <1>1, <2>3, <3>1
    <3>3. HasCflag(c, heir[c])
      BY <3>2 DEF Heirs, CoOwners, IsCoOwner
    <3>4. HasCflag(c, v)
      BY <1>3, <2>1, <2>3, <3>1, <3>3 DEF HasCflag
    <3> QED BY <1>1, <1>2, <2>1, <3>1, <3>4 DEF BaseInv, CflagsHaveBothEnds
  <2> QED BY <2>2, <2>3
<1> QED BY <1>5, <1>6, <1>7 DEF BaseInv

\* Loading what was saved gives no access to anybody who had none, except the
\* owner, who is registered.
LEMMA RestartBase ==
  ASSUME BaseInv, restart
  PROVE  BaseInv'
<1>1. \A c \in Chans, u \in Users :
        cflags'[c][u] = IF Chan(c) /\ u = owner[c] THEN OwnerCflag
                        ELSE IF Saved(c, u) THEN cflags[c][u] ELSE None
  BY DEF restart
<1>2. \A c \in Chans, u \in Users : cflags'[c][u] \in LegalCflag \cup {None}
  BY <1>1, OwnerCflagType DEF BaseInv, LegalLevels, Saved
<1>3. TypeOK'
  <2>1. cflags' \in [Chans -> [Users -> Cflag \cup {None}]]
    BY <1>2 DEF restart, LegalCflag
  <2> QED BY <2>1 DEF BaseInv, TypeOK, restart
<1>4. LegalLevels'
  BY <1>2 DEF LegalLevels, HasCflag
<1>5. CflagsHaveBothEnds'
  BY <1>1 DEF BaseInv, CflagsHaveBothEnds, HasCflag, Chan, restart, Saved, SavedDatabaseLoads
<1> QED BY <1>3, <1>4, <1>5 DEF BaseInv

\* A level that ACCESS ADD accepts makes a legal cflag.
LEMMA AddAccessBase ==
  ASSUME BaseInv, NEW c \in Chans, NEW v \in Users, NEW l \in Levels, AddAccess(c, v, l)
  PROVE  BaseInv'
<1>1. NewCflag(l, {}) \in LegalCflag
  BY NewCflagType, LevelsAreInts DEF AddAccess, CHLEV_OWNER
<1> QED BY <1>1, SetAccessBase DEF AddAccess

\* Every step keeps the base invariant.
LEMMA BaseStep ==
  ASSUME BaseInv, [Next]_vars
  PROVE  BaseInv'
<1>1. ASSUME NEW u \in Users, NEW c \in Chans, CommandOf(u, c) PROVE BaseInv'
  <2>1. CASE chan_drop(u, c)
    BY <2>1, OwnershipBase DEF chan_drop
  <2>2. CASE access_del_self(u, c)
    BY <2>2, SetAccessBase DEF access_del_self
  <2>3. CASE chan_set_axxflags(u, c)
    BY <2>3 DEF chan_set_axxflags, BaseInv, TypeOK, LegalLevels, CflagsHaveBothEnds, HasCflag, Chan
  <2>4. ASSUME NEW v \in Users, NEW l \in Levels, access_add(u, c, v, l) PROVE BaseInv'
    BY <2>4, AddAccessBase DEF access_add
  <2>5. ASSUME NEW v \in Users, NEW fl \in FlagSets, chan_flags(u, c, v, fl) PROVE BaseInv'
    BY <2>5, EditsBase DEF chan_flags
  <2>6. ASSUME NEW v \in Users, access_del(u, c, v) PROVE BaseInv'
    BY <2>6, SetAccessBase DEF access_del
  <2>7. ASSUME NEW v \in Users, chan_suspend(u, c, v) PROVE BaseInv'
    BY <2>7, EditsBase DEF chan_suspend
  <2>8. ASSUME NEW v \in Users, chan_unsuspend(u, c, v) PROVE BaseInv'
    BY <2>8, EditsBase DEF chan_unsuspend
  <2>9. ASSUME NEW v \in Users, chan_set_founder(u, c, v) PROVE BaseInv'
    BY <2>9, OwnershipBase DEF chan_set_founder
  <2> QED BY <1>1, <2>1, <2>2, <2>3, <2>4, <2>5, <2>6, <2>7, <2>8, <2>9 DEF CommandOf
<1>2. ASSUME NEW c \in Chans, OperCommand(c) PROVE BaseInv'
  <2>1. CASE oper_drop(c)
    BY <2>1, OwnershipBase DEF oper_drop
  <2>2. ASSUME NEW v \in Users, NEW l \in Levels, oper_access_add(c, v, l) PROVE BaseInv'
    BY <2>2, AddAccessBase DEF oper_access_add
  <2>3. ASSUME NEW v \in Users, oper_access_del(c, v) PROVE BaseInv'
    BY <2>3, SetAccessBase DEF oper_access_del
  <2>4. ASSUME NEW v \in Users, oper_set_founder(c, v) PROVE BaseInv'
    BY <2>4, OwnershipBase DEF oper_set_founder
  <2>5. ASSUME NEW v \in Users, NEW fl \in FlagSets, superadmin_flags(c, v, fl) PROVE BaseInv'
    BY <2>5, EditsBase DEF superadmin_flags
  <2> QED BY <1>2, <2>1, <2>2, <2>3, <2>4, <2>5 DEF OperCommand
<1>3. ASSUME NEW u \in Users, NEW c \in Chans, chan_register(u, c) PROVE BaseInv'
  BY <1>3, OwnershipBase
<1>4. ASSUME NEW c \in Chans, checkexpired(c) PROVE BaseInv'
  BY <1>4, OwnershipBase DEF checkexpired
<1>5. ASSUME NEW u \in Users, nick_register(u) PROVE BaseInv'
  BY <1>5 DEF nick_register, BaseInv, TypeOK, LegalLevels, CflagsHaveBothEnds, HasCflag, Chan
<1>6. CASE UNCHANGED vars
  BY <1>6 DEF vars, BaseInv, TypeOK, LegalLevels, CflagsHaveBothEnds, HasCflag, Chan
<1> QED BY <1>1, <1>2, <1>3, <1>4, <1>5, <1>6, DropBase, RestartBase DEF Next

\* The base invariant holds, whatever the features.
LEMMA BaseAlways == Spec => []BaseInv
<1>1. Init => BaseInv
  BY DEF Init, BaseInv, TypeOK, LegalLevels, CflagsHaveBothEnds, HasCflag
<1> QED BY <1>1, BaseStep, PTL DEF Spec

\* Owners, options and accesses keep their types in every execution.
THEOREM TypeCorrect == Spec => []TypeOK
<1>1. BaseInv => TypeOK
  BY DEF BaseInv
<1> QED BY <1>1, BaseAlways, PTL

\* No access outlives its channel or its account (chandrop, userdrop), even if
\* owners leave and superadmins edit flag F.
THEOREM AccessesHaveBothEnds == Spec => []CflagsHaveBothEnds
<1>1. BaseInv => CflagsHaveBothEnds
  BY DEF BaseInv
<1> QED BY <1>1, BaseAlways, PTL

-----------------------------------------------------------------------------
(* The ways to recognize the owner agree *)

\* What the cflag r of account u says in a channel that o owns.  An owner is
\* never a co-owner at the same time: get_coowner would find the owner.
GoodEntry(o, u, r) ==
  IF r = None THEN o # u
  ELSE /\ r.flags = CHLEV_OWNER <=> o = u
       /\ "F" \in r.uflags <=> o = u
       /\ o = u => "f" \notin r.uflags

GoodEntries == \A c \in Chans, u \in Users : GoodEntry(owner[c], u, cflags[c][u])

\* A cflag is not the mark for none.
LEMMA RecordsAreNotNone == \A r \in LegalCflag : r # None
  BY NoneFresh DEF LegalCflag

\* The entry of the new owner is good.
LEMMA OwnerCflagGood ==
  ASSUME NEW o \in Users
  PROVE  GoodEntry(o, o, OwnerCflag)
<1>1. /\ OwnerCflag.flags = CHLEV_OWNER
      /\ OwnerCflag.uflags = {"F", "p", "x", "o"}
  BY DEF OwnerCflag, NewCflag, GetUFlagsFromLevel, CHLEV_OWNER
<1>2. OwnerCflag # None
  BY OwnerCflagType, RecordsAreNotNone
<1> QED BY <1>1, <1>2 DEF GoodEntry

\* GoodEntries implies the property and the database's condition.
LEMMA GoodEntriesAgree ==
  ASSUME BaseInv, GoodEntries
  PROVE  OwnersAgree /\ SavedDatabaseLoads
<1>1. OwnersAgree
  BY DEF GoodEntries, GoodEntry, OwnersAgree, Owns, HasF, HasCflag, UFlagsOf
<1>2. SavedDatabaseLoads
  <2> SUFFICES ASSUME NEW c \in Chans, Chan(c)
               PROVE  owner[c] \in users /\ ~Saved(c, owner[c])
    BY DEF SavedDatabaseLoads
  <2>1. owner[c] \in Users
    BY DEF BaseInv, TypeOK, Chan
  <2>2. cflags[c][owner[c]] # None /\ cflags[c][owner[c]].flags = CHLEV_OWNER
    BY <2>1 DEF GoodEntries, GoodEntry
  <2>3. owner[c] \in users
    BY <2>1, <2>2 DEF BaseInv, CflagsHaveBothEnds, HasCflag
  <2> QED BY <2>2, <2>3 DEF Saved, CHLEV_OWNER
<1> QED BY <1>1, <1>2

\* One access is rewritten by a good one.
LEMMA SetAccessGood ==
  ASSUME BaseInv, GoodEntries, NEW c \in Chans, NEW v \in Users, NEW r,
         GoodEntry(owner[c], v, r), SetAccess(c, v, r)
  PROVE  GoodEntries'
<1> SUFFICES ASSUME NEW d \in Chans, NEW u \in Users
             PROVE  GoodEntry(owner'[d], u, cflags'[d][u])
  BY DEF GoodEntries
<1>1. owner' = owner
  BY DEF SetAccess
<1>2. CASE d = c /\ u = v
  <2>1. cflags'[d][u] = r
    BY <1>2 DEF SetAccess, BaseInv, TypeOK
  <2> QED BY <1>1, <1>2, <2>1
<1>3. CASE ~(d = c /\ u = v)
  <2>1. cflags'[d][u] = cflags[d][u]
    BY <1>3 DEF SetAccess, BaseInv, TypeOK
  <2> QED BY <1>1, <2>1 DEF GoodEntries
<1> QED BY <1>2, <1>3

\* A level below the owner's, for somebody who is not the owner.
LEMMA AddAccessGood ==
  ASSUME BaseInv, GoodEntries, NEW c \in Chans, NEW v \in Users, NEW l \in Levels,
         AddAccess(c, v, l)
  PROVE  GoodEntries'
<1>1. l \in Int /\ l < 10000 /\ v # owner[c]
  BY LevelsAreInts DEF AddAccess, CHLEV_OWNER
<1>2. "F" \notin GetUFlagsFromLevel(l)
  BY <1>1 DEF GetUFlagsFromLevel, CHLEV_OWNER, CHLEV_COOWNER
<1>3. NewCflag(l, {}).flags = l /\ NewCflag(l, {}).uflags = GetUFlagsFromLevel(l)
  BY DEF NewCflag
<1>4. NewCflag(l, {}) # None
  <2>1. NewCflag(l, {}) \in LegalCflag
    BY <1>1, NewCflagType DEF CHLEV_OWNER
  <2> QED BY <2>1, RecordsAreNotNone
<1>5. GoodEntry(owner[c], v, NewCflag(l, {}))
  BY <1>1, <1>2, <1>3, <1>4 DEF GoodEntry, CHLEV_OWNER
<1> QED BY <1>5, SetAccessGood DEF AddAccess

\* Chanflags without F: the owner keeps F and never gets f.
LEMMA EditsGood ==
  ASSUME BaseInv, GoodEntries, NEW c \in Chans, NEW v \in Users, c \in axx
  PROVE  \A fl \in FlagSets :
           "F" \notin fl /\ (AddFlags(c, v, fl) \/ RemoveFlags(c, v, fl)) => GoodEntries'
<1> SUFFICES ASSUME NEW fl \in FlagSets, "F" \notin fl,
                    AddFlags(c, v, fl) \/ RemoveFlags(c, v, fl)
             PROVE  GoodEntries'
  OBVIOUS
<1>0. GoodEntry(owner[c], v, cflags[c][v])
  BY DEF GoodEntries
<1>1. CASE AddFlags(c, v, fl) /\ HasCflag(c, v)
  <2> DEFINE r == [cflags[c][v] EXCEPT !.uflags = UFlagsOf(v, c) \cup fl]
  <2>1. /\ cflags[c][v] \in LegalCflag
        /\ UFlagsOf(v, c) = cflags[c][v].uflags
    BY <1>1, HasRecord
  <2>2. r.flags = cflags[c][v].flags /\ r.uflags = cflags[c][v].uflags \cup fl
    BY <2>1 DEF LegalCflag, Cflag
  <2>3. owner[c] = v => "f" \notin fl
    BY <1>0, <1>1, <2>1 DEF AddFlags, IsTrueOwner, GoodEntry, HasCflag
  <2>4. SetAccess(c, v, r)
    BY <1>1 DEF AddFlags
  <2>5. cflags[c][v] # None /\ r # None
    <3>1. r \in LegalCflag
      BY <2>1, FlagSetsNonEmpty DEF LegalCflag, Cflag
    <3> HIDE DEF r
    <3> QED BY <1>1, <3>1, RecordsAreNotNone DEF HasCflag
  <2> HIDE DEF r
  <2>6. GoodEntry(owner[c], v, r)
    BY <1>0, <2>2, <2>3, <2>5 DEF GoodEntry
  <2> QED BY <2>4, <2>6, SetAccessGood
<1>2. CASE AddFlags(c, v, fl) /\ ~HasCflag(c, v)
  <2>1. SetAccess(c, v, NewCflag(0, fl))
    BY <1>2 DEF AddFlags
  <2>2. fl # {}
    BY FlagSetsNonEmpty
  <2>3. NewCflag(0, fl).flags = 0 /\ NewCflag(0, fl).uflags = fl
    BY <2>2 DEF NewCflag
  <2>4. owner[c] # v
    BY <1>0, <1>2 DEF GoodEntry, HasCflag
  <2>6. NewCflag(0, fl) # None
    <3>1. NewCflag(0, fl) \in LegalCflag
      BY NewCflagType, FlagSetsNonEmpty DEF CHLEV_OWNER
    <3> QED BY <3>1, RecordsAreNotNone
  <2>5. GoodEntry(owner[c], v, NewCflag(0, fl))
    BY <2>3, <2>4, <2>6 DEF GoodEntry, CHLEV_OWNER
  <2> QED BY <2>1, <2>5, SetAccessGood
<1>3. CASE RemoveFlags(c, v, fl)
  <2>1. /\ cflags[c][v] \in LegalCflag /\ cflags[c][v] # None
        /\ UFlagsOf(v, c) = cflags[c][v].uflags
    BY <1>3, HasRecord DEF RemoveFlags, HasCflag
  <2>2. CASE UFlagsOf(v, c) \subseteq fl
    <3>1. SetAccess(c, v, None) /\ owner[c] # v
      BY <1>0, <1>3, <2>1, <2>2 DEF RemoveFlags, GoodEntry
    <3>2. GoodEntry(owner[c], v, None)
      BY <3>1 DEF GoodEntry
    <3> QED BY <3>1, <3>2, SetAccessGood
  <2>3. CASE ~(UFlagsOf(v, c) \subseteq fl)
    <3> DEFINE r == [cflags[c][v] EXCEPT !.uflags = UFlagsOf(v, c) \ fl]
    <3>1. r.flags = cflags[c][v].flags /\ r.uflags = cflags[c][v].uflags \ fl
      BY <2>1 DEF LegalCflag, Cflag
    <3>2. SetAccess(c, v, r)
      BY <1>3, <2>3 DEF RemoveFlags
    <3>4. r \in LegalCflag
      BY <2>1 DEF LegalCflag, Cflag
    <3> HIDE DEF r
    <3>5. r # None
      BY <3>4, RecordsAreNotNone
    <3>3. GoodEntry(owner[c], v, r)
      BY <1>0, <2>1, <3>1, <3>5 DEF GoodEntry
    <3> QED BY <3>2, <3>3, SetAccessGood
  <2> QED BY <2>2, <2>3
<1> QED BY <1>1, <1>2, <1>3

\* Suspending an access changes nothing that GoodEntry looks at.
LEMMA SuspendGood ==
  ASSUME BaseInv, GoodEntries, NEW c \in Chans, NEW v \in Users, NEW b \in BOOLEAN,
         SetSuspended(c, v, b)
  PROVE  GoodEntries'
<1> DEFINE r == [cflags[c][v] EXCEPT !.suspended = b]
<1>1. cflags[c][v] \in LegalCflag /\ cflags[c][v] # None
  BY HasRecord DEF SetSuspended, HasCflag
<1>2. r.flags = cflags[c][v].flags /\ r.uflags = cflags[c][v].uflags
  BY <1>1 DEF LegalCflag, Cflag
<1>3. SetAccess(c, v, r)
  BY DEF SetSuspended
<1>5. r \in LegalCflag
  BY <1>1 DEF LegalCflag, Cflag
<1> HIDE DEF r
<1>6. r # None
  BY <1>5, RecordsAreNotNone
<1>4. GoodEntry(owner[c], v, r)
  BY <1>1, <1>2, <1>6 DEF GoodEntries, GoodEntry
<1> QED BY <1>3, <1>4, SetAccessGood

\* The row of channel c is rewritten together with its owner.
LEMMA RowGood ==
  ASSUME BaseInv, GoodEntries, NEW c \in Chans, NEW o \in Users \cup {None},
         NEW row \in [Users -> LegalCflag \cup {None}],
         \A u \in Users : GoodEntry(o, u, row[u]),
         owner' = [owner EXCEPT ![c] = o],
         cflags' = [cflags EXCEPT ![c] = row]
  PROVE  GoodEntries'
<1>1. \A d \in Chans : /\ owner'[d] = IF d = c THEN o ELSE owner[d]
                       /\ cflags'[d] = IF d = c THEN row ELSE cflags[d]
  BY DEF BaseInv, TypeOK
<1> SUFFICES ASSUME NEW d \in Chans, NEW u \in Users
             PROVE  GoodEntry(owner'[d], u, cflags'[d][u])
  BY DEF GoodEntries
<1>2. CASE d = c
  BY <1>1, <1>2
<1>3. CASE d # c
  BY <1>1, <1>3 DEF GoodEntries
<1> QED BY <1>2, <1>3

\* Somebody whose entry is good under the old owner stays good under a new one
\* unless he is either of them.
LEMMA OthersStayGood ==
  ASSUME BaseInv, GoodEntries, NEW c \in Chans, NEW u \in Users, NEW o,
         u # owner[c], u # o
  PROVE  GoodEntry(o, u, cflags[c][u])
  BY DEF GoodEntries, GoodEntry

\* A channel is registered, dropped or given away.
LEMMA OwnershipGood ==
  ASSUME BaseInv, GoodEntries, NEW c \in Chans
  PROVE  /\ \A u \in Users : chan_register(u, c) => GoodEntries'
         /\ chandrop(c) => GoodEntries'
         /\ \A v \in users : owner[c] \in users /\ GiveAway(c, v) => GoodEntries'
<1>0. cflags[c] \in [Users -> LegalCflag \cup {None}] /\ users \subseteq Users
  BY DEF BaseInv, TypeOK, LegalLevels, HasCflag
<1>1. ASSUME NEW u \in Users, chan_register(u, c) PROVE GoodEntries'
  <2> DEFINE row == [cflags[c] EXCEPT ![u] = OwnerCflag]
  <2>1. row \in [Users -> LegalCflag \cup {None}]
    BY <1>0, OwnerCflagType
  <2>2. \A v \in Users : row[v] = IF v = u THEN OwnerCflag ELSE cflags[c][v]
    BY <1>0
  <2>3. owner[c] = None /\ None \notin Users
    BY <1>1, NoneFresh DEF chan_register, Chan
  <2>4. owner' = [owner EXCEPT ![c] = u] /\ cflags' = [cflags EXCEPT ![c] = row]
    BY <1>1 DEF chan_register
  <2> HIDE DEF row
  <2>5. \A v \in Users : GoodEntry(u, v, row[v])
    BY <2>2, <2>3, OwnerCflagGood, OthersStayGood
  <2> QED BY <2>1, <2>4, <2>5, RowGood
<1>2. ASSUME chandrop(c) PROVE GoodEntries'
  <2> DEFINE row == [u \in Users |-> None]
  <2>1. row \in [Users -> LegalCflag \cup {None}] /\ \A u \in Users : row[u] = None
    OBVIOUS
  <2>2. owner' = [owner EXCEPT ![c] = None] /\ cflags' = [cflags EXCEPT ![c] = row]
    BY <1>2 DEF chandrop
  <2> HIDE DEF row
  <2>3. \A u \in Users : GoodEntry(None, u, row[u])
    BY <2>1, NoneFresh DEF GoodEntry
  <2> QED BY <2>1, <2>2, <2>3, RowGood
<1>3. ASSUME NEW v \in users, owner[c] \in users, GiveAway(c, v) PROVE GoodEntries'
  <2> DEFINE row == [cflags[c] EXCEPT ![owner[c]] = None, ![v] = OwnerCflag]
  <2>1. row \in [Users -> LegalCflag \cup {None}]
    BY <1>0, OwnerCflagType
  <2>2. \A u \in Users : row[u] = IF u = v THEN OwnerCflag
                                 ELSE IF u = owner[c] THEN None ELSE cflags[c][u]
    BY <1>0, <1>3
  <2>3. owner' = [owner EXCEPT ![c] = v] /\ cflags' = [cflags EXCEPT ![c] = row]
    BY <1>3 DEF GiveAway
  <2> HIDE DEF row
  <2>4. ASSUME NEW u \in Users PROVE GoodEntry(v, u, row[u])
    <3>1. CASE u = v
      BY <2>2, <3>1, OwnerCflagGood
    <3>2. CASE u # v /\ u = owner[c]
      BY <2>2, <3>2 DEF GoodEntry
    <3>3. CASE u # v /\ u # owner[c]
      BY <2>2, <3>3, OthersStayGood
    <3> QED BY <3>1, <3>2, <3>3
  <2> QED BY <1>0, <2>1, <2>3, <2>4, RowGood
<1> QED BY <1>1, <1>2, <1>3

\* The co-owner who inherits is not the owner whose account goes.
LEMMA DropGood ==
  ASSUME BaseInv, GoodEntries, NEW u \in Users, userdrop(u)
  PROVE  GoodEntries'
<1> DEFINE lost == {c \in Chans : owner[c] = u}
<1>1. PICK heir \in [Chans -> Users \cup {None}] :
        /\ \A c \in lost : IF Heirs(c) = {} THEN heir[c] = None
                           ELSE heir[c] \in Heirs(c)
        /\ \A c \in Chans \ lost : heir[c] = owner[c]
        /\ owner' = heir
        /\ axx' = {c \in axx : heir[c] # None}
        /\ cflags' = AccessesAfterDrop(u, lost, heir)
  BY DEF userdrop
<1>2. \A c \in Chans, v \in Users :
        cflags'[c][v] = IF v = u THEN None
                        ELSE IF c \notin lost THEN cflags[c][v]
                        ELSE IF heir[c] = None THEN None
                        ELSE IF v = heir[c] THEN OwnerCflag
                        ELSE cflags[c][v]
  BY <1>1 DEF AccessesAfterDrop
<1> SUFFICES ASSUME NEW c \in Chans, NEW v \in Users
             PROVE  GoodEntry(heir[c], v, cflags'[c][v])
  BY <1>1 DEF GoodEntries
<1>3. u # heir[c]
  <2>1. CASE c \notin lost
    BY <1>1, <2>1
  <2>2. CASE c \in lost /\ heir[c] = None
    BY <2>2, NoneFresh
  <2>3. CASE c \in lost /\ heir[c] # None
    <3>1. IsCoOwner(heir[c], c)
      BY <1>1, <2>3 DEF Heirs, CoOwners
    <3>2. ~IsCoOwner(u, c)
      BY <2>3 DEF GoodEntries, GoodEntry, IsCoOwner, HasCflag, UFlagsOf,
                  CHLEV_OWNER, CHLEV_COOWNER
    <3> QED BY <3>1, <3>2
  <2> QED BY <2>1, <2>2, <2>3
<1>4. CASE v = u
  BY <1>2, <1>3, <1>4 DEF GoodEntry
<1>5. CASE v # u /\ c \notin lost
  BY <1>1, <1>2, <1>5 DEF GoodEntries
<1>6. CASE v # u /\ c \in lost /\ heir[c] = None
  BY <1>2, <1>6, NoneFresh DEF GoodEntry
<1>7. CASE v # u /\ c \in lost /\ heir[c] # None /\ v = heir[c]
  BY <1>2, <1>7, OwnerCflagGood
<1>8. CASE v # u /\ c \in lost /\ heir[c] # None /\ v # heir[c]
  BY <1>2, <1>8, OthersStayGood
<1> QED BY <1>4, <1>5, <1>6, <1>7, <1>8

\* A restart gives the owner the access that is not saved and takes nothing
\* from the others.
LEMMA RestartGood ==
  ASSUME BaseInv, GoodEntries, restart
  PROVE  GoodEntries'
<1> SUFFICES ASSUME NEW c \in Chans, NEW u \in Users
             PROVE  GoodEntry(owner[c], u, cflags'[c][u])
  BY DEF GoodEntries, restart
<1>1. cflags'[c][u] = IF Chan(c) /\ u = owner[c] THEN OwnerCflag
                      ELSE IF Saved(c, u) THEN cflags[c][u] ELSE None
  BY DEF restart
<1>2. u = owner[c] => Chan(c)
  BY NoneFresh DEF Chan
<1>3. CASE u = owner[c]
  BY <1>1, <1>2, <1>3, OwnerCflagGood
<1>4. CASE u # owner[c] /\ Saved(c, u)
  BY <1>1, <1>4 DEF GoodEntries
<1>5. CASE u # owner[c] /\ ~Saved(c, u)
  BY <1>1, <1>5 DEF GoodEntry
<1> QED BY <1>3, <1>4, <1>5

\* Without an owner who leaves and a superadmin who edits flag F, every step
\* keeps the entries good.
LEMMA GoodStep ==
  ASSUME PlainUse, BaseInv, GoodEntries, [Next]_vars
  PROVE  GoodEntries'
<1>0. \A c \in Chans : owner[c] # None <=> Chan(c)
  BY DEF Chan
<1>n. \A c \in Chans, v \in Users : v # owner[c] => GoodEntry(owner[c], v, None)
  BY DEF GoodEntry
<1>1. ASSUME NEW u \in Users, NEW c \in Chans, CommandOf(u, c) PROVE GoodEntries'
  <2>1. CASE chan_drop(u, c)
    BY <2>1, OwnershipGood DEF chan_drop
  <2>2. CASE access_del_self(u, c)
    <3>1. u # owner[c]
      BY <2>2 DEF access_del_self, PlainUse
    <3> QED BY <1>n, <2>2, <3>1, SetAccessGood DEF access_del_self
  <2>3. CASE chan_set_axxflags(u, c)
    BY <2>3 DEF chan_set_axxflags, GoodEntries
  <2>4. ASSUME NEW v \in Users, NEW l \in Levels, access_add(u, c, v, l) PROVE GoodEntries'
    BY <2>4, AddAccessGood DEF access_add
  <2>5. ASSUME NEW v \in Users, NEW fl \in FlagSets, chan_flags(u, c, v, fl) PROVE GoodEntries'
    BY <2>5, EditsGood DEF chan_flags, can_modify_uflag
  <2>6. ASSUME NEW v \in Users, access_del(u, c, v) PROVE GoodEntries'
    BY <1>n, <2>6, SetAccessGood DEF access_del
  <2>7. ASSUME NEW v \in Users, chan_suspend(u, c, v) PROVE GoodEntries'
    BY <2>7, SuspendGood DEF chan_suspend
  <2>8. ASSUME NEW v \in Users, chan_unsuspend(u, c, v) PROVE GoodEntries'
    BY <2>8, SuspendGood DEF chan_unsuspend
  <2>9. ASSUME NEW v \in Users, chan_set_founder(u, c, v) PROVE GoodEntries'
    BY <2>9, OwnershipGood DEF chan_set_founder
  <2> QED BY <1>1, <2>1, <2>2, <2>3, <2>4, <2>5, <2>6, <2>7, <2>8, <2>9 DEF CommandOf
<1>2. ASSUME NEW c \in Chans, OperCommand(c) PROVE GoodEntries'
  <2>1. CASE oper_drop(c)
    BY <2>1, OwnershipGood DEF oper_drop
  <2>2. ASSUME NEW v \in Users, NEW l \in Levels, oper_access_add(c, v, l) PROVE GoodEntries'
    BY <2>2, AddAccessGood DEF oper_access_add
  <2>3. ASSUME NEW v \in Users, oper_access_del(c, v) PROVE GoodEntries'
    BY <1>n, <2>3, SetAccessGood DEF oper_access_del
  <2>4. ASSUME NEW v \in Users, oper_set_founder(c, v) PROVE GoodEntries'
    BY <2>4, OwnershipGood DEF oper_set_founder
  <2>5. ASSUME NEW v \in Users, NEW fl \in FlagSets, superadmin_flags(c, v, fl) PROVE GoodEntries'
    BY <2>5, EditsGood DEF superadmin_flags, PlainUse
  <2> QED BY <1>2, <2>1, <2>2, <2>3, <2>4, <2>5 DEF OperCommand
<1>3. ASSUME NEW u \in Users, NEW c \in Chans, chan_register(u, c) PROVE GoodEntries'
  BY <1>3, OwnershipGood
<1>4. ASSUME NEW c \in Chans, checkexpired(c) PROVE GoodEntries'
  BY <1>4, OwnershipGood DEF checkexpired
<1>5. ASSUME NEW u \in Users, nick_register(u) PROVE GoodEntries'
  BY <1>5 DEF nick_register, GoodEntries
<1>6. CASE UNCHANGED vars
  BY <1>6 DEF vars, GoodEntries
<1> QED BY <1>1, <1>2, <1>3, <1>4, <1>5, <1>6, DropGood, RestartGood DEF Next

\* Under plain use the entries are good in every execution.
LEMMA GoodAlways == ASSUME PlainUse PROVE Spec => [](BaseInv /\ GoodEntries)
<1>1. Init => BaseInv /\ GoodEntries
  <2>1. Init => BaseInv
    BY DEF Init, BaseInv, TypeOK, LegalLevels, CflagsHaveBothEnds, HasCflag
  <2>2. Init => GoodEntries
    BY NoneFresh DEF Init, GoodEntries, GoodEntry
  <2> QED BY <2>1, <2>2
<1>2. BaseInv /\ GoodEntries /\ [Next]_vars => (BaseInv /\ GoodEntries)'
  BY BaseStep, GoodStep
<1> QED BY <1>1, <1>2, PTL DEF Spec

\* Name, level and chanflag name the same owner in every execution (the two
\* access systems, SET FOUNDER, succession and the restart), for any accounts,
\* channels, levels and chanflags.
THEOREM OwnersCorrect == PlainUse /\ Spec => []OwnersAgree
<1> SUFFICES ASSUME PlainUse PROVE Spec => []OwnersAgree
  OBVIOUS
<1>1. BaseInv /\ GoodEntries => OwnersAgree
  BY GoodEntriesAgree
<1> QED BY <1>1, GoodAlways, PTL

\* What savechandb writes can be loaded again (load_one_chan, load_one_cflag):
\* the services start after any history of plain use.
THEOREM DatabaseLoads == PlainUse /\ Spec => []SavedDatabaseLoads
<1> SUFFICES ASSUME PlainUse PROVE Spec => []SavedDatabaseLoads
  OBVIOUS
<1>1. BaseInv /\ GoodEntries => SavedDatabaseLoads
  BY GoodEntriesAgree
<1> QED BY <1>1, GoodAlways, PTL

-----------------------------------------------------------------------------
(* What a step may not do *)

\* An account that goes while it owns a channel leaves it to a co-owner.
LEMMA InheritStep ==
  ASSUME BaseInv, GoodEntries, [Next]_vars, NEW c \in Chans,
         owner[c] \in users \ users', CoOwners(c) # {}
  PROVE  owner'[c] \in CoOwners(c) \cap users'
<1>1. userdrop(owner[c])
  <2>0. /\ \A d, v, r : SetAccess(d, v, r) => users' = users
        /\ \A d, v : GiveAway(d, v) => users' = users
        /\ \A d : chandrop(d) => users' = users
    BY DEF SetAccess, GiveAway, chandrop
  <2>1. \A u \in Users, d \in Chans : CommandOf(u, d) => users' = users
    <3> SUFFICES ASSUME NEW u \in Users, NEW d \in Chans, CommandOf(u, d)
                 PROVE  users' = users
      OBVIOUS
    <3>1. CASE chan_drop(u, d) \/ access_del_self(u, d) \/ chan_set_axxflags(u, d)
      BY <2>0, <3>1 DEF chan_drop, access_del_self, chan_set_axxflags
    <3>2. CASE \E v \in Users, l \in Levels : access_add(u, d, v, l)
      BY <2>0, <3>2 DEF access_add, AddAccess
    <3>3. CASE \E v \in Users, fl \in FlagSets : chan_flags(u, d, v, fl)
      BY <2>0, <3>3 DEF chan_flags, AddFlags, RemoveFlags
    <3>4. CASE \E v \in Users : access_del(u, d, v) \/ chan_set_founder(u, d, v)
      BY <2>0, <3>4 DEF access_del, chan_set_founder
    <3>5. CASE \E v \in Users : chan_suspend(u, d, v) \/ chan_unsuspend(u, d, v)
      BY <2>0, <3>5 DEF chan_suspend, chan_unsuspend, SetSuspended
    <3> QED BY <3>1, <3>2, <3>3, <3>4, <3>5 DEF CommandOf
  <2>2. \A d \in Chans : OperCommand(d) \/ checkexpired(d) => users' = users
    BY <2>0 DEF OperCommand, oper_drop, oper_access_add, AddAccess, oper_access_del,
                superadmin_flags, AddFlags, RemoveFlags, oper_set_founder, checkexpired
  <2>3. /\ \A u \in Users, d \in Chans : chan_register(u, d) => users' = users
        /\ \A u \in Users : nick_register(u) => users \subseteq users'
        /\ restart \/ UNCHANGED vars => users' = users
    BY DEF chan_register, nick_register, restart, vars
  <2>4. PICK u \in Users : userdrop(u)
    BY <2>1, <2>2, <2>3 DEF Next
  <2> QED BY <2>4 DEF userdrop
<1>2. c \in {d \in Chans : owner[d] = owner[c]}
  OBVIOUS
<1>3. owner'[c] \in CoOwners(c) /\ users' = users \ {owner[c]}
  BY <1>1, <1>2 DEF userdrop, Heirs
<1>4. IsCoOwner(owner'[c], c) /\ owner'[c] \in Users
  BY <1>3 DEF CoOwners
<1>5. ~IsCoOwner(owner[c], c)
  BY DEF GoodEntries, GoodEntry, IsCoOwner, HasCflag, UFlagsOf, BaseInv, TypeOK,
         CHLEV_OWNER, CHLEV_COOWNER
<1>6. owner'[c] \in users
  BY <1>4 DEF IsCoOwner, BaseInv, CflagsHaveBothEnds
<1> QED BY <1>3, <1>4, <1>5, <1>6

\* A channel survives its owner's account if it has a co-owner (userdrop,
\* get_coowner), and the heir is not the account that goes.
THEOREM SuccessionCorrect == PlainUse /\ Spec => CoOwnersInherit
<1> SUFFICES ASSUME PlainUse PROVE Spec => CoOwnersInherit
  OBVIOUS
<1>1. BaseInv /\ GoodEntries /\ [Next]_vars =>
        [\A c \in Chans :
           owner[c] \in users \ users' /\ CoOwners(c) # {}
             => owner'[c] \in CoOwners(c) \cap users']_vars
  BY InheritStep
<1> QED BY <1>1, GoodAlways, PTL DEF Spec, CoOwnersInherit

\* What somebody who is not a founder may write makes no founder, in the access
\* system in force.
LEMMA PlainWriteStep ==
  ASSUME BaseInv, NEW c \in Chans, NEW u \in Users, CommandOf(u, c), ~IsFounder(u, c),
         NEW w \in Users, IsFounder(w, c)'
  PROVE  IsFounder(w, c)
<1> USE DEF BaseInv, TypeOK
<1>1. CASE access_del_self(u, c)
  BY <1>1 DEF access_del_self, SetAccess, IsFounder, HasCflag, UFlagsOf
<1>2. ASSUME NEW v \in Users, access_del(u, c, v) PROVE IsFounder(w, c)
  BY <1>2 DEF access_del, SetAccess, IsFounder, HasCflag, UFlagsOf
<1>3. ASSUME NEW v \in Users, NEW b \in BOOLEAN, SetSuspended(c, v, b) PROVE IsFounder(w, c)
  <2>1. cflags[c][v] \in LegalCflag /\ HasCflag(c, v)
    BY <1>3, HasRecord DEF SetSuspended
  <2> DEFINE r == [cflags[c][v] EXCEPT !.suspended = b]
  <2>2. r.flags = cflags[c][v].flags /\ r.uflags = cflags[c][v].uflags
    BY <2>1 DEF LegalCflag, Cflag
  <2>3. SetAccess(c, v, r)
    BY <1>3 DEF SetSuspended
  <2> HIDE DEF r
  <2> QED BY <2>1, <2>2, <2>3 DEF SetAccess, IsFounder, HasCflag, UFlagsOf
<1>4. ASSUME NEW v \in Users, NEW l \in Levels, access_add(u, c, v, l) PROVE IsFounder(w, c)
  <2>1. c \notin axx /\ SetAccess(c, v, NewCflag(l, {})) /\ l < GetFlag(u, c)
    BY <1>4 DEF access_add, AddAccess
  <2>2. l \in Int /\ GetFlag(u, c) \in Int /\ GetFlag(u, c) < 9999
    <3>1. CASE ~HasCflag(c, u) \/ Suspended(c, u)
      BY <3>1, LevelsAreInts DEF GetFlag
    <3>2. CASE HasCflag(c, u) /\ ~Suspended(c, u)
      <4> DEFINE f == cflags[c][u].flags
      <4>1. f \in Int /\ f <= 10000
        BY <3>2, HasRecord DEF LegalCflag, Cflag, CHLEV_OWNER
      <4>2. f # 9999 /\ f # 10000
        BY <2>1, <3>2 DEF IsFounder, CHLEV_OWNER, CHLEV_COOWNER
      <4>3. GetFlag(u, c) = f
        BY <3>2 DEF GetFlag
      <4> HIDE DEF f
      <4>4. f < 9999
        BY <4>1, <4>2
      <4>5. l \in Int
        BY LevelsAreInts
      <4> QED BY <4>1, <4>3, <4>4, <4>5
    <3> QED BY <3>1, <3>2
  <2>3. NewCflag(l, {}).flags = l /\ l # 9999 /\ l # 10000
    BY <2>1, <2>2 DEF NewCflag
  <2>4. w # v
    BY <2>1, <2>3 DEF SetAccess, IsFounder, CHLEV_OWNER, CHLEV_COOWNER
  <2> QED BY <2>1, <2>4 DEF SetAccess, IsFounder, HasCflag, UFlagsOf
<1>5. ASSUME NEW v \in Users, NEW fl \in FlagSets, chan_flags(u, c, v, fl) PROVE IsFounder(w, c)
  <2>1. c \in axx /\ HasCflag(c, u) /\ fl # {}
    BY <1>5, FlagSetsNonEmpty DEF chan_flags, can_modify_uflag
  <2>2. fl \cap {"F", "f"} = {}
    BY <1>5, <2>1 DEF chan_flags, can_modify_uflag, IsFounder
  <2>3. PICK r : /\ SetAccess(c, v, r)
                 /\ r # None => r.uflags \cap {"F", "f"} \subseteq UFlagsOf(v, c)
    <3>1. CASE AddFlags(c, v, fl) /\ HasCflag(c, v)
      <4> DEFINE r == [cflags[c][v] EXCEPT !.uflags = UFlagsOf(v, c) \cup fl]
      <4>1. r.uflags = UFlagsOf(v, c) \cup fl
        BY <3>1, HasRecord DEF LegalCflag, Cflag
      <4>2. SetAccess(c, v, r)
        BY <3>1 DEF AddFlags
      <4> HIDE DEF r
      <4> QED BY <2>2, <4>1, <4>2
    <3>2. CASE AddFlags(c, v, fl) /\ ~HasCflag(c, v)
      <4>1. NewCflag(0, fl).uflags = fl
        BY <2>1 DEF NewCflag
      <4> QED BY <2>2, <3>2, <4>1 DEF AddFlags
    <3>3. CASE RemoveFlags(c, v, fl) /\ UFlagsOf(v, c) \subseteq fl
      BY <3>3 DEF RemoveFlags
    <3>4. CASE RemoveFlags(c, v, fl) /\ ~(UFlagsOf(v, c) \subseteq fl)
      <4> DEFINE r == [cflags[c][v] EXCEPT !.uflags = UFlagsOf(v, c) \ fl]
      <4>1. r.uflags = UFlagsOf(v, c) \ fl
        BY <3>4, HasRecord DEF LegalCflag, Cflag, RemoveFlags
      <4>2. SetAccess(c, v, r)
        BY <3>4 DEF RemoveFlags
      <4> HIDE DEF r
      <4> QED BY <4>1, <4>2
    <3> QED BY <1>5, <3>1, <3>2, <3>3, <3>4 DEF chan_flags
  <2>4. axx' = axx /\ cflags'[c][w] = IF w = v THEN r ELSE cflags[c][w]
    BY <2>3 DEF SetAccess
  <2>5. CASE w = v
    <3>1. UFlagsOf(v, c) \cap {"F", "f"} # {}
      BY <2>1, <2>3, <2>4, <2>5 DEF IsFounder, HasCflag, UFlagsOf
    <3> QED BY <2>1, <2>5, <3>1 DEF IsFounder, UFlagsOf
  <2>6. CASE w # v
    BY <2>4, <2>6 DEF IsFounder, HasCflag, UFlagsOf
  <2> QED BY <2>5, <2>6
<1>6. ~chan_drop(u, c) /\ ~chan_set_axxflags(u, c)
  BY DEF chan_drop, chan_set_axxflags
<1>7. \A v \in Users : ~chan_set_founder(u, c, v)
  BY DEF chan_set_founder, IsTrueOwner, IsFounder, CHLEV_OWNER
<1> QED BY <1>1, <1>2, <1>3, <1>4, <1>5, <1>6, <1>7
        DEF CommandOf, chan_suspend, chan_unsuspend

\* No sequence of levels, chanflags and switches between the two lets somebody
\* who is neither owner nor co-owner make one (ACCESS, SUSPEND, SET), whatever
\* the features.
THEOREM FoundersCorrect == Spec => FoundersMakeFounders
<1>1. BaseInv /\ [Next]_vars =>
        [\A c \in Chans :
           (\E v \in Users : ~IsFounder(v, c) /\ IsFounder(v, c)')
             => \A u \in Users : ~IsFounder(u, c) => ~CommandOf(u, c)]_vars
  BY PlainWriteStep
<1> QED BY <1>1, BaseAlways, PTL DEF Spec, FoundersMakeFounders

-----------------------------------------------------------------------------
(* Nobody touches the access of a higher rank *)

LEMMA RankIsInt ==
  ASSUME BaseInv, NEW c \in Chans, NEW u \in Users
  PROVE  GetFlag(u, c) \in Int /\ Rank(u, c) \in Int
<1>1. GetFlag(u, c) \in Int
  BY HasRecord DEF GetFlag, LegalCflag, Cflag
<1> QED BY <1>1 DEF Rank

\* Who is no founder and may edit the chanflags of v is not outranked by v.
LEMMA WritersRank ==
  ASSUME BaseInv, NEW c \in Chans, NEW u \in Users, NEW v \in Users, c \in axx,
         ChannelCanWriteACL(u, v, c), ~IsFounder(u, c)
  PROVE  ~(Rank(u, c) < Rank(v, c))
<1>1. UFlagsOf(u, c) \cap {"F", "f"} = {}
  BY DEF ChannelCanWriteACL, IsFounder
<1>2. \/ ~HasCflag(c, v) \/ u = v
      \/ "p" \in UFlagsOf(u, c) /\ UFlagsOf(v, c) \cap Ranked = {}
      \/ UFlagsOf(v, c) \cap Ranked = {}
  BY <1>1 DEF ChannelCanWriteACL, Ranked
<1>3. Rank(u, c) \in Nat
  BY DEF Rank
<1>4. CASE u = v
  BY <1>3, <1>4
<1>5. CASE UFlagsOf(v, c) \cap Ranked = {}
  BY <1>3, <1>5 DEF Rank, Ranked
<1>6. CASE ~HasCflag(c, v)
  BY <1>3, <1>6 DEF Rank, UFlagsOf
<1> QED BY <1>2, <1>4, <1>5, <1>6

LEMMA OutrankedStep ==
  ASSUME BaseInv, NEW c \in Chans, NEW u \in Users, NEW v \in Users,
         cflags'[c][v] # cflags[c][v], Rank(u, c) < Rank(v, c), ~IsFounder(u, c),
         CommandOf(u, c)
  PROVE  FALSE
<1> USE DEF BaseInv, TypeOK
<1>0. GetFlag(u, c) \in Int /\ GetFlag(v, c) \in Int /\ Rank(u, c) \in Int
  BY RankIsInt
<1>1. ~chan_drop(u, c) /\ ~chan_set_axxflags(u, c)
  BY DEF chan_drop, chan_set_axxflags
<1>2. \A w \in Users : ~chan_set_founder(u, c, w)
  BY DEF chan_set_founder, IsTrueOwner, IsFounder, CHLEV_OWNER
<1>3. ASSUME NEW w \in Users, NEW r, SetAccess(c, w, r) PROVE w = v
  BY <1>3 DEF SetAccess
<1>4. CASE access_del_self(u, c)
  <2>1. u = v
    BY <1>3, <1>4 DEF access_del_self
  <2> QED BY <1>0, <2>1
<1>5. ASSUME NEW w \in Users, NEW l \in Levels, access_add(u, c, w, l) PROVE FALSE
  <2>1. w = v
    BY <1>3, <1>5 DEF access_add, AddAccess
  <2>2. c \notin axx /\ GetFlag(v, c) < GetFlag(u, c)
    BY <1>5, <2>1 DEF access_add, AddAccess
  <2> QED BY <1>0, <2>2 DEF Rank
<1>6. ASSUME NEW w \in Users, access_del(u, c, w) PROVE FALSE
  <2>1. w = v
    BY <1>3, <1>6 DEF access_del
  <2>2. c \notin axx /\ GetFlag(v, c) < GetFlag(u, c)
    BY <1>6, <2>1 DEF access_del
  <2> QED BY <1>0, <2>2 DEF Rank
<1>7. ASSUME NEW w \in Users, NEW fl \in FlagSets, chan_flags(u, c, w, fl) PROVE FALSE
  <2>1. w = v
    BY <1>3, <1>7 DEF chan_flags, AddFlags, RemoveFlags
  <2> QED BY <1>7, <2>1, WritersRank DEF chan_flags
<1>8. ASSUME NEW w \in Users, chan_suspend(u, c, w) PROVE FALSE
  <2>1. w = v
    BY <1>3, <1>8 DEF chan_suspend, SetSuspended
  <2>2. CASE c \in axx
    BY <1>8, <2>1, <2>2, WritersRank DEF chan_suspend
  <2>3. CASE c \notin axx
    BY <1>0, <1>8, <2>1, <2>3 DEF chan_suspend, Rank
  <2> QED BY <2>2, <2>3
<1>9. ASSUME NEW w \in Users, chan_unsuspend(u, c, w) PROVE FALSE
  <2>1. w = v
    BY <1>3, <1>9 DEF chan_unsuspend, SetSuspended
  <2>2. CASE c \in axx
    BY <1>9, <2>1, <2>2, WritersRank DEF chan_unsuspend
  <2>3. CASE c \notin axx
    <3>1. HasCflag(c, v) /\ cflags[c][v] \in Cflag /\ cflags[c][v].suspended # FALSE
      BY <1>9, <2>1, HasRecord DEF chan_unsuspend, SetSuspended, LegalCflag
    <3>2. Rank(v, c) = 0
      BY <2>3, <3>1 DEF Rank, GetFlag, Suspended, Cflag
    <3>3. HasCflag(c, u) /\ ~Suspended(c, u) /\ cflags[c][u].flags >= chlev_admin
      BY <1>9, <2>3 DEF chan_unsuspend, ChannelCanACL
    <3>4. GetFlag(u, c) >= chlev_admin
      BY <3>3 DEF GetFlag
    <3>5. chlev_admin \in Int /\ chlev_admin >= 1
      BY AdminLevel DEF CHLEV_COOWNER
    <3> QED BY <1>0, <2>3, <3>2, <3>4, <3>5 DEF Rank
  <2> QED BY <2>2, <2>3
<1> QED BY <1>1, <1>2, <1>4, <1>5, <1>6, <1>7, <1>8, <1>9 DEF CommandOf

\* Whatever the accesses have become through both systems, no command of somebody who is not a
\* founder changes the access of a user of higher rank (ACCESS, SUSPEND, UNSUSPEND), whatever
\* the features.
THEOREM OutrankedCorrect == Spec => OutrankedAreSafe
<1>1. BaseInv /\ [Next]_vars =>
        [\A c \in Chans, u, v \in Users :
           /\ cflags'[c][v] # cflags[c][v]
           /\ Rank(u, c) < Rank(v, c)
           /\ ~IsFounder(u, c)
           => ~CommandOf(u, c)]_vars
  BY OutrankedStep
<1> QED BY <1>1, BaseAlways, PTL DEF Spec, OutrankedAreSafe

-----------------------------------------------------------------------------
(* The tables of the database *)

\* The names of the tables.
LEMMA TheTables ==
  Database!Tables = {"users", "chans", "access", "trusts", "links", "bots", "chanbots"}
  BY DEF Database!Tables, Database!Rows

\* A step that replaces the tables in new and no others.
LEMMA TablesChange ==
  ASSUME NEW new, DOMAIN new \subseteq Database!Tables,
         \A t \in DOMAIN new : Registries'[t] = new[t],
         \A t \in Database!Tables \ DOMAIN new : Registries'[t] = Registries[t]
  PROVE  Database!Change(new)
<1>1. Registries' = [t \in Database!Tables |-> Registries'[t]]
  BY TheTables DEF Registries
<1>2. Registries' = [t \in Database!Tables |-> IF t \in DOMAIN new THEN new[t] ELSE Registries[t]]
  BY <1>1
<1>3. Database!Running
  BY DEF Database!Running
<1> QED BY <1>2, <1>3 DEF Database!Change

\* The changes that are made.
LEMMA TablesBecome ==
  ASSUME NEW accounts, NEW rows, NEW left,
         users' = accounts, ChanRows' = rows, AccessRows' = left
  PROVE  /\ rows = ChanRows /\ left = AccessRows => Database!Change([users |-> accounts])
         /\ accounts = users /\ left = AccessRows => Database!Change([chans |-> rows])
         /\ accounts = users /\ rows = ChanRows => Database!Change([access |-> left])
         /\ accounts = users =>
              /\ Database!Change([chans |-> rows, access |-> left])
              /\ Database!Change([chans |-> rows, access |-> left, chanbots |-> {}])
         /\ Database!Change([users |-> accounts, links |-> {}, chans |-> rows, access |-> left,
                             chanbots |-> {}])
<1>1. /\ Registries'["users"] = accounts /\ Registries'["chans"] = rows
      /\ Registries'["access"] = left /\ Registries'["chanbots"] = {}
      /\ Registries'["links"] = {} /\ Registries'["trusts"] = {} /\ Registries'["bots"] = {}
  BY DEF Registries
<1>2. /\ Registries["users"] = users /\ Registries["chans"] = ChanRows
      /\ Registries["access"] = AccessRows /\ Registries["chanbots"] = {}
      /\ Registries["links"] = {} /\ Registries["trusts"] = {} /\ Registries["bots"] = {}
  BY DEF Registries
<1>3. ASSUME rows = ChanRows, left = AccessRows PROVE Database!Change([users |-> accounts])
  BY <1>1, <1>2, <1>3, TheTables, TablesChange
<1>4. ASSUME accounts = users, left = AccessRows PROVE Database!Change([chans |-> rows])
  BY <1>1, <1>2, <1>4, TheTables, TablesChange
<1>5. ASSUME accounts = users, rows = ChanRows PROVE Database!Change([access |-> left])
  BY <1>1, <1>2, <1>5, TheTables, TablesChange
<1>6. ASSUME accounts = users
      PROVE  /\ Database!Change([chans |-> rows, access |-> left])
             /\ Database!Change([chans |-> rows, access |-> left, chanbots |-> {}])
  <2>1. Database!Change([chans |-> rows, access |-> left])
    BY <1>1, <1>2, <1>6, TheTables, TablesChange
  <2>2. Database!Change([chans |-> rows, access |-> left, chanbots |-> {}])
    BY <1>1, <1>2, <1>6, TheTables, TablesChange
  <2> QED BY <2>1, <2>2
<1>7. Database!Change([users |-> accounts, links |-> {}, chans |-> rows, access |-> left,
                       chanbots |-> {}])
  BY <1>1, <1>2, TheTables, TablesChange
<1> QED BY <1>3, <1>4, <1>5, <1>6, <1>7

\* The accesses that are saved are those of the others than the owner.
SavedEntries == \A c \in Chans, u \in Users : Saved(c, u) <=> HasCflag(c, u) /\ owner[c] # u

LEMMA EntriesAreSaved == BaseInv /\ GoodEntries => SavedEntries
<1> SUFFICES ASSUME BaseInv, GoodEntries, NEW c \in Chans, NEW u \in Users, HasCflag(c, u)
             PROVE  cflags[c][u].flags < CHLEV_OWNER <=> owner[c] # u
  BY DEF SavedEntries, Saved
<1>1. cflags[c][u] \in LegalCflag /\ cflags[c][u] # None
  BY HasRecord DEF HasCflag
<1>2. cflags[c][u].flags = CHLEV_OWNER <=> owner[c] = u
  BY <1>1 DEF GoodEntries, GoodEntry
<1> QED BY <1>1, <1>2 DEF LegalCflag, Cflag, CHLEV_OWNER

\* Owners, as the tables show them.
LEMMA OwnersInTables ==
  ASSUME BaseInv, NEW c \in Chans
  PROVE  /\ Database!Owner(Registries, c) = IF Chan(c) THEN {owner[c]} ELSE {}
         /\ Database!Registered(Registries, c) <=> Chan(c)
<1>1. Registries.chans = ChanRows
  BY DEF Registries
<1>2. Database!Owner(Registries, c) = {r[2] : r \in {x \in ChanRows : x[1] = c}}
  BY <1>1 DEF Database!Owner
<1>3. \A x : x \in ChanRows /\ x[1] = c <=> Chan(c) /\ x = <<c, owner[c]>>
  BY DEF ChanRows
<1>4. Database!Owner(Registries, c) = IF Chan(c) THEN {owner[c]} ELSE {}
  <2>1. CASE Chan(c)
    <3>1. {x \in ChanRows : x[1] = c} = {<<c, owner[c]>>}
      BY <1>3, <2>1
    <3>2. {r[2] : r \in {<<c, owner[c]>>}} = {owner[c]}
      OBVIOUS
    <3> QED BY <1>2, <2>1, <3>1, <3>2, Zenon
  <2>2. CASE ~Chan(c)
    <3>1. {x \in ChanRows : x[1] = c} = {}
      BY <1>3, <2>2
    <3> QED BY <1>2, <2>2, <3>1
  <2> QED BY <2>1, <2>2
<1> QED BY <1>4 DEF Database!Registered

\* What a step does in the terms of the tables.
TablesInv == BaseInv /\ GoodEntries /\ SavedEntries

\* An access is written.
LEMMA SetAccessTables ==
  ASSUME TablesInv, TablesInv', NEW c \in Chans, NEW v \in Users, NEW r, SetAccess(c, v, r)
  PROVE  [Database!Command]_Registries
<1>1. UNCHANGED <<users, owner>> /\ cflags' = [cflags EXCEPT ![c][v] = r]
  BY DEF SetAccess
<1>2. \A d \in Chans, u \in Users : cflags'[d][u] = IF d = c /\ u = v THEN r ELSE cflags[d][u]
  BY <1>1 DEF TablesInv, BaseInv, TypeOK
<1>3. \A d \in Chans, u \in Users :
        Saved(d, u)' <=> IF d = c /\ u = v THEN r # None /\ owner[c] # v ELSE Saved(d, u)
  BY <1>1, <1>2 DEF TablesInv, SavedEntries, HasCflag
<1>4. ChanRows' = ChanRows
  BY <1>1 DEF ChanRows, Chan
<1>5. AccessRows' = {x \in Chans \X Users : Saved(x[1], x[2])'}
  BY DEF AccessRows
<1>6. ASSUME NEW rows, AccessRows' = rows PROVE Database!Change([access |-> rows])
  BY <1>1, <1>4, <1>6, TablesBecome
<1>7. Registries.users = users /\ Registries.access = AccessRows
  BY DEF Registries
<1>8. CASE r # None /\ ~HasCflag(c, v)
  <2>1. owner[c] # v
    BY <1>8 DEF TablesInv, GoodEntries, GoodEntry, HasCflag
  <2>2. Chan(c) /\ v \in users
    BY <1>1, <1>2, <1>8 DEF TablesInv, BaseInv, CflagsHaveBothEnds, HasCflag, Chan
  <2>3. <<c, v>> \notin AccessRows
    BY <1>8 DEF AccessRows, Saved
  <2>4. AccessRows' = AccessRows \cup {<<c, v>>}
    BY <1>3, <1>5, <1>8, <2>1 DEF AccessRows
  <2>5. Database!Change([access |-> AccessRows \cup {<<c, v>>}])
    BY <1>6, <2>4
  <2>6. Database!access_add(c, v)
    BY <1>7, <2>1, <2>2, <2>3, <2>5, OwnersInTables DEF Database!access_add, TablesInv
  <2> QED BY <2>6 DEF Database!Command
<1>9. CASE r = None /\ HasCflag(c, v)
  <2>1. owner[c] # v
    BY <1>1, <1>2, <1>9 DEF TablesInv, GoodEntries, GoodEntry
  <2>2. <<c, v>> \in AccessRows
    BY <1>9, <2>1 DEF AccessRows, TablesInv, SavedEntries
  <2>3. AccessRows' = AccessRows \ {<<c, v>>}
    BY <1>3, <1>5, <1>9 DEF AccessRows
  <2>4. Database!Change([access |-> AccessRows \ {<<c, v>>}])
    BY <1>6, <2>3
  <2>5. Database!access_del(c, v)
    BY <1>7, <2>2, <2>4 DEF Database!access_del
  <2> QED BY <2>5 DEF Database!Command
<1>10. CASE r # None <=> HasCflag(c, v)
  <2>1. AccessRows' = AccessRows
    BY <1>3, <1>5, <1>10 DEF AccessRows, TablesInv, SavedEntries
  <2>2. Registries' = Registries
    BY <1>1, <1>4, <2>1 DEF Registries
  <2> QED BY <2>2
<1> QED BY <1>8, <1>9, <1>10

\* The tables of the channels, in the next state.
LEMMA NextTables ==
  ASSUME TablesInv, TablesInv'
  PROVE  /\ ChanRows' = {<<d, owner'[d]>> : d \in {x \in Chans : owner'[x] # None}}
         /\ AccessRows' = {r \in Chans \X Users :
              cflags'[r[1]][r[2]] # None /\ owner'[r[1]] # r[2]}
         /\ AccessRows = {r \in Chans \X Users :
              cflags[r[1]][r[2]] # None /\ owner[r[1]] # r[2]}
<1>1. AccessRows' = {r \in Chans \X Users : Saved(r[1], r[2])'}
  BY DEF AccessRows
<1>2. \A c \in Chans, u \in Users : Saved(c, u)' <=> cflags'[c][u] # None /\ owner'[c] # u
  BY DEF TablesInv, SavedEntries, HasCflag
<1>3. \A c \in Chans, u \in Users : Saved(c, u) <=> cflags[c][u] # None /\ owner[c] # u
  BY DEF TablesInv, SavedEntries, HasCflag
<1> QED BY <1>1, <1>2, <1>3 DEF ChanRows, Chan, AccessRows

\* A channel is registered, dropped or given away.
LEMMA OwnershipTables ==
  ASSUME TablesInv, TablesInv', NEW c \in Chans
  PROVE  /\ \A u \in Users : chan_register(u, c) => Database!Command
         /\ chandrop(c) => Database!Command
         /\ \A v \in users : Chan(c) /\ GiveAway(c, v) => Database!Command
<1> USE DEF Database!Without
<1>1. /\ Registries.users = users /\ Registries.chans = ChanRows
      /\ Registries.access = AccessRows /\ Registries.chanbots = {}
  BY DEF Registries
<1>2. /\ owner \in [Chans -> Users \cup {None}] /\ users \subseteq Users
      /\ cflags \in [Chans -> [Users -> Cflag \cup {None}]]
  BY DEF TablesInv, BaseInv, TypeOK
<1>3. ASSUME NEW u \in Users, chan_register(u, c) PROVE Database!Command
  <2>1. /\ u \in users /\ owner[c] = None /\ users' = users
        /\ \A d \in Chans : owner'[d] = IF d = c THEN u ELSE owner[d]
        /\ \A d \in Chans, w \in Users :
             cflags'[d][w] = IF d = c /\ w = u THEN OwnerCflag ELSE cflags[d][w]
    BY <1>2, <1>3 DEF chan_register, Chan
  <2>2. \A w \in Users : cflags[c][w] = None
    BY <2>1 DEF TablesInv, BaseInv, CflagsHaveBothEnds, HasCflag, Chan
  <2>3. ChanRows' = ChanRows \cup {<<c, u>>}
    BY <2>1, NextTables, NoneFresh DEF ChanRows, Chan
  <2>4. AccessRows' = AccessRows
    <3>2. AccessRows' \subseteq Chans \X Users /\ AccessRows \subseteq Chans \X Users
      BY NextTables
    <3> SUFFICES ASSUME NEW d \in Chans, NEW w \in Users
                 PROVE  <<d, w>> \in AccessRows' <=> <<d, w>> \in AccessRows
      BY <3>2
    <3>1. /\ <<d, w>> \in AccessRows' <=> cflags'[d][w] # None /\ owner'[d] # w
          /\ <<d, w>> \in AccessRows <=> cflags[d][w] # None /\ owner[d] # w
      BY NextTables
    <3> QED BY <2>1, <2>2, <3>1
  <2>5. Database!Change([chans |-> ChanRows \cup {<<c, u>>}])
    <3>1. users' = users
      BY <2>1
    <3> QED BY <2>3, <2>4, <3>1, TablesBecome
  <2>6. ~Database!Registered(Registries, c)
    BY <2>1, OwnersInTables DEF TablesInv, Chan
  <2>7. Database!chan_register(u, c)
    BY <1>1, <2>1, <2>5, <2>6 DEF Database!chan_register
  <2> QED BY <2>7 DEF Database!Command
<1>4. ASSUME chandrop(c) PROVE Database!Command
  <2>1. /\ owner[c] # None /\ users' = users
        /\ \A d \in Chans : owner'[d] = IF d = c THEN None ELSE owner[d]
        /\ \A d \in Chans, w \in Users :
             cflags'[d][w] = IF d = c THEN None ELSE cflags[d][w]
    BY <1>2, <1>4 DEF chandrop, Chan
  <2>2. ChanRows' = Database!Without(ChanRows, {c})
    BY <2>1, NextTables DEF ChanRows, Chan
  <2>3. AccessRows' = Database!Without(AccessRows, {c})
    BY <2>1, NextTables
  <2>4. Database!Change([chans |-> Database!Without(ChanRows, {c}),
                         access |-> Database!Without(AccessRows, {c}), chanbots |-> {}])
    <3>1. users' = users
      BY <2>1
    <3> HIDE DEF Database!Without
    <3> QED BY <2>2, <2>3, <3>1, TablesBecome
  <2>5. Database!Registered(Registries, c)
    BY <2>1, OwnersInTables DEF TablesInv, Chan
  <2>6. Database!Without({}, {c}) = {}
    OBVIOUS
  <2>7. Database!chandrop(c)
    BY <1>1, <2>4, <2>5, <2>6 DEF Database!chandrop
  <2> QED BY <2>7 DEF Database!Command
<1>5. ASSUME NEW v \in users, Chan(c), GiveAway(c, v) PROVE Database!Command
  <2>1. /\ owner[c] # None /\ users' = users /\ v \in Users
        /\ \A d \in Chans : owner'[d] = IF d = c THEN v ELSE owner[d]
        /\ \A d \in Chans, w \in Users :
             cflags'[d][w] = IF d = c /\ w = v THEN OwnerCflag
                             ELSE IF d = c /\ w = owner[c] THEN None ELSE cflags[d][w]
    BY <1>2, <1>5 DEF GiveAway, Chan
  <2> DEFINE rows == Database!Without(ChanRows, {c}) \cup {<<c, v>>}
             left == AccessRows \ {<<c, v>>}
  <2>2. ChanRows' = rows
    BY <2>1, NextTables, NoneFresh DEF ChanRows, Chan
  <2>3. AccessRows' = left
    BY <2>1, NextTables
  <2>4. Database!Change([chans |-> rows, access |-> left])
    <3> HIDE DEF rows, left
    <3>1. users' = users
      BY <2>1
    <3> QED BY <2>2, <2>3, <3>1, TablesBecome
  <2>5. Database!Registered(Registries, c)
    BY <2>1, OwnersInTables DEF TablesInv, Chan
  <2>6. Database!chan_set_founder(c, v)
    BY <1>1, <2>4, <2>5 DEF Database!chan_set_founder
  <2> QED BY <2>1, <2>6 DEF Database!Command
<1> QED BY <1>3, <1>4, <1>5

\* An account goes: what its heirs and the others keep is what userdrop leaves in the
\* tables.
LEMMA DropTables ==
  ASSUME TablesInv, TablesInv', NEW u \in Users, userdrop(u)
  PROVE  Database!Command
<1> DEFINE lost == {c \in Chans : owner[c] = u}
<1>1. PICK heir \in [Chans -> Users \cup {None}] :
        /\ u \in users /\ users' = users \ {u}
        /\ \A c \in lost : IF Heirs(c) = {} THEN heir[c] = None ELSE heir[c] \in Heirs(c)
        /\ \A c \in Chans \ lost : heir[c] = owner[c]
        /\ owner' = heir
        /\ cflags' = AccessesAfterDrop(u, lost, heir)
  BY DEF userdrop
<1>2. \A c \in Chans, v \in Users :
        cflags'[c][v] = IF v = u THEN None
                        ELSE IF c \notin lost THEN cflags[c][v]
                        ELSE IF heir[c] = None THEN None
                        ELSE IF v = heir[c] THEN OwnerCflag
                        ELSE cflags[c][v]
  BY <1>1 DEF AccessesAfterDrop
<1> HIDE DEF lost
<1> DEFINE taken == {c \in lost : heir[c] # None}
           gone == lost \ taken
           heirs == [c \in taken |-> heir[c]]
           rows == Database!Without(ChanRows, lost) \cup {<<c, heirs[c]>> : c \in taken}
           left == {r \in Database!Without(AccessRows, gone) :
                      r[2] # u /\ ~(r[1] \in taken /\ r[2] = heirs[r[1]])}
<1>3. \A c \in lost : c \in Chans /\ owner[c] = u /\ u # None
  BY NoneFresh DEF lost
<1>4. ASSUME NEW c \in taken PROVE heir[c] \in Users /\ <<c, heir[c]>> \in AccessRows /\ heir[c] # u
  <2>1. c \in lost /\ heir[c] # None
    OBVIOUS
  <2>2. heir[c] \in Users /\ IsCoOwner(heir[c], c)
    BY <1>1, <2>1 DEF Heirs, CoOwners
  <2>3. HasCflag(c, heir[c])
    BY <2>2 DEF IsCoOwner
  <2>4. ~IsCoOwner(u, c)
    BY <1>3, <2>1 DEF TablesInv, GoodEntries, GoodEntry, IsCoOwner, HasCflag, UFlagsOf,
                      CHLEV_OWNER, CHLEV_COOWNER
  <2>5. heir[c] # u
    BY <2>2, <2>4
  <2> QED BY <1>3, <2>1, <2>2, <2>3, <2>5, NextTables DEF HasCflag
<1>5. ChanRows' = rows
  <2>1. \A c \in Chans : owner'[c] = IF c \in lost THEN heir[c] ELSE owner[c]
    BY <1>1
  <2>2. ChanRows' = {<<d, owner'[d]>> : d \in {x \in Chans : owner'[x] # None}}
    BY NextTables
  <2>3. ChanRows' = {<<d, owner[d]>> : d \in {x \in Chans \ lost : owner[x] # None}}
                    \cup {<<c, heir[c]>> : c \in taken}
    BY <1>3, <2>1, <2>2
  <2>4. Database!Without(ChanRows, lost)
          = {<<d, owner[d]>> : d \in {x \in Chans \ lost : owner[x] # None}}
    BY DEF Database!Without, ChanRows, Chan
  <2> QED BY <2>3, <2>4
<1>6. AccessRows' = left
  <2> SUFFICES ASSUME NEW c \in Chans, NEW v \in Users
               PROVE  <<c, v>> \in AccessRows' <=> <<c, v>> \in left
    BY NextTables DEF Database!Without
  <2>1. <<c, v>> \in AccessRows' <=> cflags'[c][v] # None /\ heir[c] # v
    BY <1>1, NextTables
  <2>2. <<c, v>> \in AccessRows <=> cflags[c][v] # None /\ owner[c] # v
    BY NextTables
  <2>3. <<c, v>> \in left <=> /\ <<c, v>> \in AccessRows /\ c \notin gone
                              /\ v # u /\ ~(c \in taken /\ v = heir[c])
    BY DEF Database!Without
  <2>4. CASE c \notin lost
    BY <1>1, <1>2, <1>3, <2>1, <2>2, <2>3, <2>4
  <2>5. CASE c \in lost
    BY <1>2, <1>3, <2>1, <2>2, <2>3, <2>5, NoneFresh
  <2> QED BY <2>4, <2>5
<1>7. /\ Registries.users = users /\ Registries.chans = ChanRows /\ Registries.links = {}
      /\ Registries.access = AccessRows /\ Registries.chanbots = {}
  BY DEF Registries
<1>8. lost = {c \in Chans : Database!Owner(Registries, c) = {u}}
  <2>1. \A c \in Chans : Database!Owner(Registries, c) = {u} <=> owner[c] = u
    BY OwnersInTables, NoneFresh DEF TablesInv, Chan
  <2> QED BY <2>1 DEF lost
<1>9. \A c \in taken : heirs[c] \in {r[2] : r \in {x \in AccessRows : x[1] = c}} \ {u}
  <2> SUFFICES ASSUME NEW c \in taken
               PROVE  heir[c] \in {r[2] : r \in {x \in AccessRows : x[1] = c}} /\ heir[c] # u
    OBVIOUS
  <2>1. <<c, heir[c]>> \in {x \in AccessRows : x[1] = c} /\ <<c, heir[c]>>[2] = heir[c]
    BY <1>4
  <2> QED BY <1>4, <2>1
<1>10. taken \in SUBSET lost /\ heirs \in [taken -> Users]
  BY <1>4
<1> HIDE DEF rows, left, taken, gone, heirs
<1>11. Database!Change([users |-> users \ {u}, links |-> {}, chans |-> rows, access |-> left,
                        chanbots |-> {}])
  <2>1. users' = users \ {u}
    BY <1>1
  <2> QED BY <1>5, <1>6, <2>1, TablesBecome
<1>12. Database!LinksWithout(u) = {} /\ Database!Without({}, gone) = {}
  BY <1>7 DEF Database!LinksWithout, Database!Without
<1>13. Database!userdrop(u)
  <2> DEFINE owned == {c \in Chans : Database!Owner(Registries, c) = {u}}
             others(c) == {r[2] : r \in {x \in Registries.access : x[1] = c}} \ {u}
  <2>1. owned = lost /\ \A c \in taken : heirs[c] \in others(c)
    BY <1>7, <1>8, <1>9
  <2>2. Database!Change(
          [users    |-> Registries.users \ {u},
           links    |-> Database!LinksWithout(u),
           chans    |-> Database!Without(Registries.chans, lost) \cup {<<c, heirs[c]>> : c \in taken},
           access   |-> {r \in Database!Without(Registries.access, lost \ taken) :
                           r[2] # u /\ ~(r[1] \in taken /\ r[2] = heirs[r[1]])},
           chanbots |-> Database!Without(Registries.chanbots, lost \ taken)])
    BY <1>7, <1>11, <1>12, Zenon DEF rows, left, gone
  <2>3. u \in Registries.users
    BY <1>1, <1>7
  <2> HIDE DEF owned, others
  <2>4. \E T \in SUBSET owned : \E h \in [T -> Users] :
          /\ \A c \in T : h[c] \in others(c)
          /\ Database!Change(
               [users    |-> Registries.users \ {u},
                links    |-> Database!LinksWithout(u),
                chans    |-> Database!Without(Registries.chans, owned) \cup {<<c, h[c]>> : c \in T},
                access   |-> {r \in Database!Without(Registries.access, owned \ T) :
                                r[2] # u /\ ~(r[1] \in T /\ r[2] = h[r[1]])},
                chanbots |-> Database!Without(Registries.chanbots, owned \ T)])
    BY <1>10, <2>1, <2>2, Zenon
  <2> QED BY <2>3, <2>4, Zenon DEF Database!userdrop, owned, others
<1> QED BY <1>13 DEF Database!Command

\* What AddAccess, AddFlags, RemoveFlags and SetSuspended come down to.
LEMMA EditsTables ==
  ASSUME TablesInv, TablesInv', NEW c \in Chans, NEW v \in Users
  PROVE  /\ \A l \in Levels : AddAccess(c, v, l) => [Database!Command]_Registries
         /\ \A fl \in FlagSets :
              AddFlags(c, v, fl) \/ RemoveFlags(c, v, fl) => [Database!Command]_Registries
         /\ \A b \in BOOLEAN : SetSuspended(c, v, b) => [Database!Command]_Registries
<1>1. ASSUME NEW l \in Levels, AddAccess(c, v, l) PROVE \E r : SetAccess(c, v, r)
  BY <1>1 DEF AddAccess
<1>2. ASSUME NEW fl \in FlagSets, AddFlags(c, v, fl) \/ RemoveFlags(c, v, fl)
      PROVE  \E r : SetAccess(c, v, r)
  BY <1>2 DEF AddFlags, RemoveFlags
<1>3. ASSUME NEW b \in BOOLEAN, SetSuspended(c, v, b) PROVE \E r : SetAccess(c, v, r)
  BY <1>3 DEF SetSuspended
<1> QED BY <1>1, <1>2, <1>3, SetAccessTables

\* A restart loads the tables that were saved.
LEMMA RestartTables ==
  ASSUME TablesInv, TablesInv', restart
  PROVE  UNCHANGED Registries
<1>1. /\ UNCHANGED <<users, owner>>
      /\ \A c \in Chans, u \in Users :
           cflags'[c][u] = IF Chan(c) /\ u = owner[c] THEN OwnerCflag
                           ELSE IF Saved(c, u) THEN cflags[c][u] ELSE None
  BY DEF restart
<1>2. ChanRows' = ChanRows
  BY <1>1 DEF ChanRows, Chan
<1>3. AccessRows' = AccessRows
  <2>3. AccessRows' \subseteq Chans \X Users /\ AccessRows \subseteq Chans \X Users
    BY NextTables
  <2> SUFFICES ASSUME NEW c \in Chans, NEW u \in Users
               PROVE  <<c, u>> \in AccessRows' <=> <<c, u>> \in AccessRows
    BY <2>3
  <2>1. /\ <<c, u>> \in AccessRows' <=> cflags'[c][u] # None /\ owner'[c] # u
        /\ <<c, u>> \in AccessRows <=> cflags[c][u] # None /\ owner[c] # u
    BY NextTables
  <2>2. Saved(c, u) <=> cflags[c][u] # None /\ owner[c] # u
    BY DEF TablesInv, SavedEntries, HasCflag
  <2> QED BY <1>1, <2>1, <2>2
<1> QED BY <1>1, <1>2, <1>3 DEF Registries

\* A command that writes no access and no owner.
LEMMA UntouchedTables ==
  ASSUME UNCHANGED <<users, owner, cflags>>
  PROVE  UNCHANGED Registries
<1>1. ChanRows' = ChanRows
  BY DEF ChanRows, Chan
<1>2. AccessRows' = AccessRows
  BY DEF AccessRows, Saved, HasCflag
<1> QED BY <1>1, <1>2 DEF Registries

\* Every step is a command of Persist, or changes nothing that is saved.
LEMMA TablesStep ==
  ASSUME TablesInv, TablesInv', [Next]_vars
  PROVE  [Database!Command]_Registries
<1>1. ASSUME NEW u \in Users, NEW c \in Chans, CommandOf(u, c)
      PROVE  [Database!Command]_Registries
  <2>1. CASE chan_drop(u, c)
    BY <2>1, OwnershipTables DEF chan_drop
  <2>2. CASE access_del_self(u, c) \/ \E v \in Users : access_del(u, c, v)
    BY <2>2, SetAccessTables DEF access_del_self, access_del
  <2>3. CASE chan_set_axxflags(u, c)
    BY <2>3, UntouchedTables DEF chan_set_axxflags
  <2>4. CASE \E v \in Users, l \in Levels : access_add(u, c, v, l)
    BY <2>4, EditsTables DEF access_add
  <2>5. CASE \E v \in Users, fl \in FlagSets : chan_flags(u, c, v, fl)
    BY <2>5, EditsTables DEF chan_flags
  <2>6. CASE \E v \in Users : chan_suspend(u, c, v) \/ chan_unsuspend(u, c, v)
    BY <2>6, EditsTables DEF chan_suspend, chan_unsuspend
  <2>7. CASE \E v \in Users : chan_set_founder(u, c, v)
    BY <2>7, OwnershipTables DEF chan_set_founder
  <2> QED BY <1>1, <2>1, <2>2, <2>3, <2>4, <2>5, <2>6, <2>7 DEF CommandOf
<1>2. ASSUME NEW c \in Chans, OperCommand(c) PROVE [Database!Command]_Registries
  <2>1. CASE oper_drop(c)
    BY <2>1, OwnershipTables DEF oper_drop
  <2>2. CASE \E v \in Users, l \in Levels : oper_access_add(c, v, l)
    BY <2>2, EditsTables DEF oper_access_add
  <2>3. CASE \E v \in Users : oper_access_del(c, v)
    BY <2>3, SetAccessTables DEF oper_access_del
  <2>4. CASE \E v \in Users : oper_set_founder(c, v)
    BY <2>4, OwnershipTables DEF oper_set_founder
  <2>5. CASE \E v \in Users, fl \in FlagSets : superadmin_flags(c, v, fl)
    BY <2>5, EditsTables DEF superadmin_flags
  <2> QED BY <1>2, <2>1, <2>2, <2>3, <2>4, <2>5 DEF OperCommand
<1>3. ASSUME NEW u \in Users, nick_register(u) PROVE Database!Command
  <2>1. u \notin users /\ users' = users \cup {u} /\ UNCHANGED <<owner, cflags>>
    BY <1>3 DEF nick_register
  <2>2. ChanRows' = ChanRows /\ AccessRows' = AccessRows
    BY <2>1 DEF ChanRows, Chan, AccessRows, Saved, HasCflag
  <2>3. Registries.users = users
    BY DEF Registries
  <2>4. Database!nick_register(u)
    BY <2>1, <2>2, <2>3, TablesBecome DEF Database!nick_register
  <2> QED BY <2>4 DEF Database!Command
<1>4. ASSUME NEW u \in Users, NEW c \in Chans, chan_register(u, c) PROVE Database!Command
  BY <1>4, OwnershipTables
<1>5. ASSUME NEW c \in Chans, checkexpired(c) PROVE Database!Command
  BY <1>5, OwnershipTables DEF checkexpired
<1>6. CASE UNCHANGED vars
  BY <1>6, UntouchedTables DEF vars
<1> QED BY <1>1, <1>2, <1>3, <1>4, <1>5, <1>6, DropTables, RestartTables DEF Next

\* ChanServ's commands, in either access system, change the saved tables as the
\* commands of Persist do, for any accounts, channels, levels and chanflags: what is
\* proved there of saves and starts holds of these registries (savechandb, userdrop).
THEOREM TablesCorrect == PlainUse /\ Spec => TablesFollowCommands
<1> SUFFICES ASSUME PlainUse PROVE Spec => TablesFollowCommands
  OBVIOUS
<1>1. BaseInv /\ GoodEntries => TablesInv
  BY EntriesAreSaved DEF TablesInv
<1>2. TablesInv /\ TablesInv' /\ [Next]_vars => [Database!Command]_Registries
  BY TablesStep
<1> QED BY <1>1, <1>2, GoodAlways, PTL DEF Spec, TablesFollowCommands
=============================================================================
