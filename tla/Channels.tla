------------------------------ MODULE Channels ------------------------------
(***************************************************************************)
(* ChanServ's registered channels: who owns a channel and who has which    *)
(* access to it.                                                           *)
(*                                                                         *)
(* The owner is recorded three times: by name in chan->owner, by the level *)
(* CHLEV_OWNER of a cflag, and by UFLAG_OWNER in the same cflag.  A cflag  *)
(* carries a level (flags) and a set of chanflags (uflags); the channel    *)
(* option AXXFLAGS says which of the two the commands look at, and neither *)
(* the option nor a command converts one into the other.                   *)
(*                                                                         *)
(* A user is a registered account; whoever has one may give commands.      *)
(* Operators and superadmins act from outside Users.  Nobody is linked     *)
(* (Links).                                                                *)
(*                                                                         *)
(* Operators ending in _slip are faulty variants, used by no specification *)
(* (README, "What the properties can see").                                *)
(***************************************************************************)
EXTENDS Integers, FiniteSets

CONSTANTS
  Users,         \* account names
  Chans,         \* channel names
  None,          \* no owner, no cflag
  Levels,        \* the levels that ACCESS ADD is tried with
  FlagSets,      \* the sets of chanflags that ACCESS +/- is tried with
  chlev_admin,   \* the configured level of a channel administrator
  Features       \* deviations from plain use

CHLEV_OWNER   == 10000
CHLEV_COOWNER == 9999

\* F owner, f co-owner, p protect, x may edit accesses; o stands for the flags
\* that no access check of this module looks at.
UFlags == {"F", "f", "p", "x", "o"}

\* "ownerleaves": an owner removes the own access; "ownerflag": a superadmin edits
\* flag F.
AllFeatures == {"ownerleaves", "ownerflag"}

Cflag == [flags : Int, uflags : SUBSET UFlags, suspended : BOOLEAN]

ASSUME NoneFresh == None \notin Users \cup Cflag
ASSUME LevelsAreInts == Levels \subseteq Int
ASSUME FlagSetsNonEmpty == FlagSets \subseteq (SUBSET UFlags) \ {{}}
ASSUME AdminLevel == chlev_admin \in 1..(CHLEV_COOWNER - 1)
ASSUME FeaturesKnown == Features \subseteq AllFeatures

VARIABLES
  users,    \* the registered accounts
  owner,    \* chan->owner, None while the channel is not registered
  axx,      \* channels with COPT_AXXFLAGS
  cflags    \* the access of a user to a channel, or None

vars == <<users, owner, axx, cflags>>

TypeOK ==
  /\ users \subseteq Users
  /\ owner \in [Chans -> Users \cup {None}]
  /\ axx \subseteq Chans
  /\ cflags \in [Chans -> [Users -> Cflag \cup {None}]]

-----------------------------------------------------------------------------
(* Accesses *)

HasCflag(c, u) == cflags[c][u] # None

GetUFlagsFromLevel(l) ==
  IF l = CHLEV_OWNER THEN {"F", "p", "x", "o"}
  ELSE IF l = CHLEV_COOWNER THEN {"f", "p", "x", "o"}
  ELSE IF l >= chlev_admin THEN {"p", "x", "o"}
  ELSE {"o"}

\* The cflag that AddUserToChannel makes; fl is {} when the level decides.
NewCflag(l, fl) ==
  [flags |-> l, suspended |-> FALSE,
   uflags |-> IF fl = {} THEN GetUFlagsFromLevel(l) ELSE fl]

OwnerCflag == NewCflag(CHLEV_OWNER, GetUFlagsFromLevel(CHLEV_OWNER))

Suspended(c, u) == HasCflag(c, u) /\ cflags[c][u].suspended

GetFlag(u, c) ==
  IF ~HasCflag(c, u) \/ Suspended(c, u) THEN 0 ELSE cflags[c][u].flags

\* The chanflags of u, {} without a cflag.
UFlagsOf(u, c) == IF HasCflag(c, u) THEN cflags[c][u].uflags ELSE {}

\* IsFounder and IsTrueOwner do not ask whether the access is suspended.
IsFounder(u, c) ==
  /\ HasCflag(c, u)
  /\ IF c \in axx THEN UFlagsOf(u, c) \cap {"F", "f"} # {}
     ELSE cflags[c][u].flags \in {CHLEV_OWNER, CHLEV_COOWNER}

IsTrueOwner(u, c) ==
  /\ HasCflag(c, u)
  /\ IF c \in axx THEN "F" \in UFlagsOf(u, c)
     ELSE cflags[c][u].flags = CHLEV_OWNER

ChannelCanACL(u, c) ==
  /\ HasCflag(c, u) /\ ~Suspended(c, u)
  /\ IF c \in axx THEN "x" \in UFlagsOf(u, c) \/ IsFounder(u, c)
     ELSE cflags[c][u].flags >= chlev_admin

Ranked == {"F", "f", "p"}

ChannelCanWriteACL_slip(u, v, c) == HasCflag(c, u) /\ ~Suspended(c, u)

\* u may edit the chanflags of v.
ChannelCanWriteACL(u, v, c) ==
  LET fu == UFlagsOf(u, c)
      fv == UFlagsOf(v, c)
  IN
  /\ HasCflag(c, u) /\ ~Suspended(c, u)
  /\ \/ IsFounder(u, c)
     \/ /\ "x" \in fu
        /\ \/ ~HasCflag(c, v) \/ u = v
           \/ "F" \in fu
           \/ "f" \in fu /\ "F" \notin fv
           \/ "p" \in fu /\ fv \cap Ranked = {}
           \/ (fu \cup fv) \cap Ranked = {}

can_modify_uflag_slip(u, v, c, fl) == "F" \notin fl

\* u may set or remove the chanflags fl of v (the answer 1, "for itself", and
\* the test that follows it are part of this).
can_modify_uflag(u, v, c, fl) ==
  LET fu == UFlagsOf(u, c) IN
  /\ HasCflag(c, u)
  /\ "F" \notin fl
  /\ IF "f" \in fl THEN "F" \in fu \/ ("f" \in fu /\ u = v)
     ELSE IF "p" \in fl THEN fu \cap {"F", "f"} # {}
     ELSE "x" \in fl => fu \cap Ranked # {}

IsCoOwner(u, c) ==
  /\ HasCflag(c, u)
  /\ "f" \in UFlagsOf(u, c) \/ cflags[c][u].flags = CHLEV_COOWNER

CoOwners(c) == {u \in Users : IsCoOwner(u, c)}

Chan(c) == owner[c] # None

\* The cflag of v for c is made, edited or freed (None).
SetAccess(c, v, r) ==
  /\ cflags' = [cflags EXCEPT ![c][v] = r]
  /\ UNCHANGED <<users, owner, axx>>

-----------------------------------------------------------------------------
(* Registration *)

chan_register(u, c) ==
  /\ u \in users
  /\ ~Chan(c)
  /\ owner' = [owner EXCEPT ![c] = u]
  /\ axx' = axx \cup {c}
  /\ cflags' = [cflags EXCEPT ![c][u] = OwnerCflag]
  /\ UNCHANGED users

chandrop(c) ==
  /\ Chan(c)
  /\ owner' = [owner EXCEPT ![c] = None]
  /\ axx' = axx \ {c}
  /\ cflags' = [cflags EXCEPT ![c] = [u \in Users |-> None]]
  /\ UNCHANGED users

chan_drop(u, c) == u \in users /\ IsFounder(u, c) /\ chandrop(c)

oper_drop(c) == chandrop(c)

\* A channel that nobody with an access was seen on for chan_expire days.
checkexpired(c) == chandrop(c)

-----------------------------------------------------------------------------
(* The levels system: CHAN ACCESS while AXXFLAGS is off *)

\* What is checked for everybody, and what ADD does.
AddAccess(c, v, l) ==
  /\ Chan(c) /\ c \notin axx
  /\ v \in users
  /\ l < CHLEV_OWNER
  /\ v # owner[c]
  /\ l = CHLEV_COOWNER =>
       \A w \in Users : HasCflag(c, w) => cflags[c][w].flags # CHLEV_COOWNER
  /\ SetAccess(c, v, NewCflag(l, {}))

access_add(u, c, v, l) ==
  /\ u \in users
  /\ \/ /\ GetFlag(u, c) >= chlev_admin
        /\ GetFlag(v, c) < GetFlag(u, c)
        /\ l < GetFlag(u, c)
     \/ IsFounder(u, c)
  /\ AddAccess(c, v, l)

oper_access_add(c, v, l) == AddAccess(c, v, l)

\* Anybody whose level is not 0 may leave the list, the owner as well.
access_del_self(u, c) ==
  /\ u \in users
  /\ Chan(c) /\ c \notin axx
  /\ GetFlag(u, c) # 0
  /\ u = owner[c] => "ownerleaves" \in Features
  /\ SetAccess(c, u, None)

access_del(u, c, v) ==
  /\ u \in users /\ v \in users
  /\ Chan(c) /\ c \notin axx
  /\ \/ GetFlag(u, c) >= chlev_admin /\ GetFlag(v, c) < GetFlag(u, c)
     \/ IsFounder(u, c)
  /\ GetFlag(v, c) # 0
  /\ v # owner[c]
  /\ SetAccess(c, v, None)

oper_access_del(c, v) ==
  /\ v \in users
  /\ Chan(c) /\ c \notin axx
  /\ GetFlag(v, c) # 0
  /\ v # owner[c]
  /\ SetAccess(c, v, None)

-----------------------------------------------------------------------------
(* The chanflags system: CHAN ACCESS while AXXFLAGS is on *)

AddFlags(c, v, fl) ==
  /\ "f" \in fl => CoOwners(c) = {} /\ ~IsTrueOwner(v, c)
  /\ SetAccess(c, v, IF HasCflag(c, v)
                     THEN [cflags[c][v] EXCEPT !.uflags = UFlagsOf(v, c) \cup fl]
                     ELSE NewCflag(0, fl))

RemoveFlags(c, v, fl) ==
  /\ HasCflag(c, v)
  /\ SetAccess(c, v, IF UFlagsOf(v, c) \subseteq fl THEN None
                     ELSE [cflags[c][v] EXCEPT !.uflags = UFlagsOf(v, c) \ fl])

chan_flags(u, c, v, fl) ==
  /\ u \in users /\ v \in users
  /\ Chan(c) /\ c \in axx
  /\ ChannelCanACL(u, c) \/ IsFounder(u, c)
  /\ ChannelCanWriteACL(u, v, c)
  /\ can_modify_uflag(u, v, c, fl)
  /\ AddFlags(c, v, fl) \/ RemoveFlags(c, v, fl)

\* A superadmin may change every flag of everybody.
superadmin_flags(c, v, fl) ==
  /\ "F" \in fl => "ownerflag" \in Features
  /\ v \in users
  /\ Chan(c) /\ c \in axx
  /\ AddFlags(c, v, fl) \/ RemoveFlags(c, v, fl)

-----------------------------------------------------------------------------
(* Commands of both systems *)

chan_set_axxflags(u, c) ==
  /\ u \in users
  /\ Chan(c) /\ IsFounder(u, c)
  /\ axx' = IF c \in axx THEN axx \ {c} ELSE axx \cup {c}
  /\ UNCHANGED <<users, owner, cflags>>

SetSuspended(c, v, b) ==
  /\ HasCflag(c, v)
  /\ cflags[c][v].suspended # b
  /\ SetAccess(c, v, [cflags[c][v] EXCEPT !.suspended = b])

chan_suspend(u, c, v) ==
  /\ u \in users /\ v \in users
  /\ Chan(c)
  /\ ChannelCanACL(u, c) \/ IsFounder(u, c)
  /\ IF c \in axx THEN u # v /\ ChannelCanWriteACL(u, v, c)
     ELSE GetFlag(v, c) # 0 /\ GetFlag(v, c) < GetFlag(u, c)
  /\ SetSuspended(c, v, TRUE)

chan_unsuspend(u, c, v) ==
  /\ u \in users /\ v \in users
  /\ Chan(c)
  /\ ChannelCanACL(u, c) \/ IsFounder(u, c)
  /\ HasCflag(c, v)
  /\ IF c \in axx THEN ChannelCanWriteACL(u, v, c)
     ELSE cflags[c][v].flags < GetFlag(u, c)
  /\ SetSuspended(c, v, FALSE)

GiveAway_slip(c, v) ==   \* the former founder keeps the access
  /\ owner' = [owner EXCEPT ![c] = v]
  /\ cflags' = [cflags EXCEPT ![c][v] = OwnerCflag]
  /\ UNCHANGED <<users, axx>>

\* The former founder, named by chan->owner, and the new one lose their access;
\* the new one is entered as the owner.
GiveAway(c, v) ==
  /\ owner' = [owner EXCEPT ![c] = v]
  /\ cflags' = [cflags EXCEPT ![c][owner[c]] = None, ![c][v] = OwnerCflag]
  /\ UNCHANGED <<users, axx>>

chan_set_founder(u, c, v) ==
  /\ u \in users /\ v \in users
  /\ Chan(c) /\ owner[c] \in users
  /\ IsTrueOwner(u, c)
  /\ GiveAway(c, v)

oper_set_founder(c, v) ==
  /\ v \in users
  /\ Chan(c) /\ owner[c] \in users
  /\ GiveAway(c, v)

-----------------------------------------------------------------------------
(* Accounts *)

nick_register(u) ==
  /\ u \notin users
  /\ users' = users \cup {u}
  /\ UNCHANGED <<owner, axx, cflags>>

Heirs_slip(c) == {}   \* every channel of the account is dropped

\* Who may inherit channel c: the first co-owner of its list.
Heirs(c) == CoOwners(c)

\* The accesses of u in the channels of others stay.
AccessesAfterDrop_slip(u, lost, heir) ==
  [c \in Chans |-> [v \in Users |->
     IF c \notin lost THEN cflags[c][v]
     ELSE IF v = u \/ heir[c] = None THEN None
     ELSE IF v = heir[c] THEN OwnerCflag
     ELSE cflags[c][v]]]

\* An heir's access is made anew, a channel without one is dropped, and every
\* access that u has left is deleted.
AccessesAfterDrop(u, lost, heir) ==
  [c \in Chans |-> [v \in Users |->
     IF v = u THEN None
     ELSE IF c \notin lost THEN cflags[c][v]
     ELSE IF heir[c] = None THEN None
     ELSE IF v = heir[c] THEN OwnerCflag
     ELSE cflags[c][v]]]

\* The channels of u go to their heirs or are dropped, then the account goes.
userdrop(u) ==
  LET lost == {c \in Chans : owner[c] = u} IN
  /\ u \in users
  /\ users' = users \ {u}
  /\ \E heir \in [Chans -> Users \cup {None}] :
       /\ \A c \in lost : IF Heirs(c) = {} THEN heir[c] = None
                          ELSE heir[c] \in Heirs(c)
       /\ \A c \in Chans \ lost : heir[c] = owner[c]
       /\ owner' = heir
       /\ axx' = {c \in axx : heir[c] # None}
       /\ cflags' = AccessesAfterDrop(u, lost, heir)

-----------------------------------------------------------------------------
(* Saving and loading the database *)

\* savechandb leaves the owners' cflags out and load_one_chan makes them anew;
\* load_one_cflag takes the rest.
Saved_slip(c, u) == HasCflag(c, u)   \* the owner's row, too

Saved(c, u) == HasCflag(c, u) /\ cflags[c][u].flags < CHLEV_OWNER

\* What was saved can be loaded: the owner is an account (load_one_chan) and has
\* no access in the list, for it was added through CreateChannel; one refused
\* row and the services do not start.
SavedDatabaseLoads ==
  \A c \in Chans : Chan(c) => owner[c] \in users /\ ~Saved(c, owner[c])

restart ==
  /\ SavedDatabaseLoads
  /\ cflags' = [c \in Chans |-> [u \in Users |->
                  IF Chan(c) /\ u = owner[c] THEN OwnerCflag
                  ELSE IF Saved(c, u) THEN cflags[c][u]
                  ELSE None]]
  /\ UNCHANGED <<users, owner, axx>>

-----------------------------------------------------------------------------
Init ==
  /\ users = Users
  /\ owner = [c \in Chans |-> None]
  /\ axx = {}
  /\ cflags = [c \in Chans |-> [u \in Users |-> None]]

\* The commands that need an access to channel c.
CommandOf(u, c) ==
  \/ chan_drop(u, c)
  \/ access_del_self(u, c)
  \/ chan_set_axxflags(u, c)
  \/ \E v \in Users, l \in Levels : access_add(u, c, v, l)
  \/ \E v \in Users, fl \in FlagSets : chan_flags(u, c, v, fl)
  \/ \E v \in Users : access_del(u, c, v)
  \/ \E v \in Users : chan_suspend(u, c, v)
  \/ \E v \in Users : chan_unsuspend(u, c, v)
  \/ \E v \in Users : chan_set_founder(u, c, v)

OperCommand(c) ==
  \/ oper_drop(c)
  \/ \E v \in Users, l \in Levels : oper_access_add(c, v, l)
  \/ \E v \in Users : oper_access_del(c, v)
  \/ \E v \in Users : oper_set_founder(c, v)
  \/ \E v \in Users, fl \in FlagSets : superadmin_flags(c, v, fl)

Next ==
  \/ \E u \in Users, c \in Chans : chan_register(u, c)
  \/ \E u \in Users, c \in Chans : CommandOf(u, c)
  \/ \E c \in Chans : OperCommand(c)
  \/ \E c \in Chans : checkexpired(c)
  \/ \E u \in Users : nick_register(u)
  \/ \E u \in Users : userdrop(u)
  \/ restart

Spec == Init /\ [][Next]_vars

-----------------------------------------------------------------------------
(* Properties *)

Owns(u, c) == HasCflag(c, u) /\ cflags[c][u].flags = CHLEV_OWNER
HasF(u, c) == "F" \in UFlagsOf(u, c)

\* The two ways to recognize the owner of a channel (CreateChannel) agree in
\* both access systems: the account that chan->owner names is the only one with
\* CHLEV_OWNER and the only one with UFLAG_OWNER.
OwnersAgree ==
  \A c \in Chans, u \in Users :
    /\ Owns(u, c) <=> owner[c] = u
    /\ HasF(u, c) <=> owner[c] = u

\* An access is to a registered channel and of a registered account: chandrop
\* and userdrop take every cflag along before they free either end.
CflagsHaveBothEnds ==
  \A c \in Chans, u \in Users : HasCflag(c, u) => Chan(c) /\ u \in users

\* A channel whose owner's account goes is inherited by a co-owner if there is
\* one ("inherits channel ownership if the original owner expires",
\* commands/chan.md).
CoOwnersInherit ==
  [][\A c \in Chans :
       owner[c] \in users \ users' /\ CoOwners(c) # {}
         => owner'[c] \in CoOwners(c) \cap users']_vars

\* No command of somebody who is neither owner nor co-owner makes an owner or a
\* co-owner, whatever levels and chanflags were given and taken in both systems.
FoundersMakeFounders ==
  [][\A c \in Chans :
       (\E v \in Users : ~IsFounder(v, c) /\ IsFounder(v, c)')
         => \A u \in Users : ~IsFounder(u, c) => ~CommandOf(u, c)]_vars

\* The rank of u in the access system in force.
Rank(u, c) ==
  IF c \notin axx THEN GetFlag(u, c)
  ELSE IF "F" \in UFlagsOf(u, c) THEN 3
  ELSE IF "f" \in UFlagsOf(u, c) THEN 2
  ELSE IF "p" \in UFlagsOf(u, c) THEN 1
  ELSE 0

\* Nobody but the founders touches the access of a user of higher rank ("You
\* cannot modify the access level of someone outranking you", m_chan.c).
OutrankedAreSafe ==
  [][\A c \in Chans, u, v \in Users :
       /\ cflags'[c][v] # cflags[c][v]
       /\ Rank(u, c) < Rank(v, c)
       /\ ~IsFounder(u, c)
       => ~CommandOf(u, c)]_vars

\* What savealldb writes of these accounts and channels, one row each; every
\* command changes it as one command of Persist does, or not at all: both access
\* systems, SET FOUNDER, succession and the restart come down to the few rules for
\* tables that Persist knows (savechandb, userdrop).
ChanRows == {<<c, owner[c]>> : c \in {d \in Chans : Chan(d)}}
AccessRows == {r \in Chans \X Users : Saved(r[1], r[2])}
Registries ==
  [users |-> users, chans |-> ChanRows, access |-> AccessRows,
   trusts |-> {}, links |-> {}, bots |-> {}, chanbots |-> {}]
Database == INSTANCE Persist WITH Names <- Users, Hosts <- {}, Bots <- {}, NoSave <- None,
                                  MaxFaults <- 0, Faults <- {}, mem <- Registries,
                                  disk <- <<>>, proc <- [phase |-> "running"],
                                  snapshot <- None, faults <- 0
TablesFollowCommands == [][Database!Command]_Registries
=============================================================================
