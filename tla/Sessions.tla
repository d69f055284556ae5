------------------------------ MODULE Sessions ------------------------------
(***************************************************************************)
(* NickServ's session tables: which live connection (struct nick) is       *)
(* identified to which registered account (struct user), and which         *)
(* connections are on notice to give up a protected name (struct guest).   *)
(*                                                                         *)
(* A session is recorded twice, by pointers in both directions:            *)
(*     nick->account        (nick.c, read by nick_account)                 *)
(*     user->authed_nick    (user.h, together with user->authed)           *)
(* Every handler that opens, moves or closes a session has to update both. *)
(* The uplink's lines (UID, NICK, QUIT, SQUIT), the users' and operators'  *)
(* commands, and the checks of the main loop interleave in any order;      *)
(* each handler runs to completion (one thread, child.c).                  *)
(*                                                                         *)
(* A nick name and an account name are drawn from the same set: find_user  *)
(* looks an account up by nick name, find_nick a connection by account     *)
(* name.                                                                   *)
(*                                                                         *)
(* An operator whose name ends in _slip is the definition below it with a  *)
(* plausible slip of the code; no specification uses it.  It shows which   *)
(* property notices the slip (README, "What the properties can see").      *)
(***************************************************************************)
EXTENDS Naturals, FiniteSets

CONSTANTS
  Nicks,     \* connections, one per UID
  Names,     \* nick names and account names
  Null,      \* a NULL pointer, an empty SVID ("0"), no name
  Freed,     \* a pointer to memory that was freed
  Features   \* the optional inputs that reach the services, see AllFeatures

(***************************************************************************)
(* Commands and lines that a deployment may never see.  The oper command   *)
(* cmdlev raises a command's level above everybody's (commands.c), which   *)
(* is how the deprecated LINK and the root-only FORCEAUTH are switched     *)
(* off.                                                                    *)
(***************************************************************************)
AllFeatures == {"link", "forceauth", "suspend", "protect", "caserename"}

ASSUME NullFresh == Null \notin Nicks \cup Names
ASSUME FreedFresh == Freed \notin Nicks \cup Names \cup {Null}
ASSUME FeaturesKnown == Features \subseteq AllFeatures

VARIABLES
  name,         \* nick->name, Null while the UID is not connected
  account,      \* nick->account
  svid,         \* nick->svid, the account the network shows for the nick
  users,        \* core->users, the registered accounts
  authed_nick,  \* user->authed_nick; user->authed = 1 exactly when not Null
  protect,      \* accounts with UOPT_PROTECT
  suspended,    \* accounts with UOPT_SUSPENDED
  guests,       \* core->guests, names whose holder has yet to identify
  links,        \* core->links
  svsnick       \* names for which SVSNICK was sent and not yet obeyed

vars == <<name, account, svid, users, authed_nick, protect, suspended,
          guests, links, svsnick>>

sessions == <<name, account, svid, authed_nick>>
accounts == <<users, protect, suspended, links>>

Link == [slave : Names, master : Names]

TypeOK ==
  /\ name \in [Nicks -> Names \cup {Null}]
  /\ account \in [Nicks -> Names \cup {Null, Freed}]
  /\ svid \in [Nicks -> Names \cup {Null}]
  /\ users \subseteq Names
  /\ authed_nick \in [Names -> Nicks \cup {Null, Freed}]
  /\ protect \subseteq users
  /\ suspended \subseteq users
  /\ guests \subseteq Names
  /\ links \subseteq Link
  /\ svsnick \subseteq Names

-----------------------------------------------------------------------------
(* Lookups *)

Connected == {u \in Nicks : name[u] # Null}
Free(n)   == \A u \in Nicks : name[u] # n

\* The account a handler works on: the nick's own, else the one of its name.
find_account(u) ==
  IF account[u] # Null THEN account[u]
  ELSE IF name[u] \in users THEN name[u] ELSE Null

IsAuthed(n) == n # Null /\ authed_nick[n] # Null

find_link(n)     == \E l \in links : l.slave = n
find_link2(m, s) == [slave |-> s, master |-> m] \in links
Linked(m, n)     == find_link2(m, n) \/ find_link2(n, m)

\* The dispatch test on a command of level 1 (m_privmsg, then do_nick).
MayCommand(u) == name[u] # Null /\ IsAuthed(find_account(u))

-----------------------------------------------------------------------------
(***************************************************************************)
(* userquit for every nick of Q: what it leaves in each table.  An account *)
(* whose authed_nick is a nick of Q that was not identified to it keeps    *)
(* the address of the freed nick.                                          *)
(***************************************************************************)
GuestsAfterQuit_slip(Q) == guests   \* userquit without DeleteGuest

NamesAfterQuit(Q)    == [u \in Nicks |-> IF u \in Q THEN Null ELSE name[u]]
AccountsAfterQuit(Q) == [u \in Nicks |-> IF u \in Q THEN Null ELSE account[u]]
SvidsAfterQuit(Q)    == [u \in Nicks |-> IF u \in Q THEN Null ELSE svid[u]]
GuestsAfterQuit(Q)   == guests \ {name[u] : u \in Q}

AuthedAfterQuit(Q) ==
  [n \in Names |-> IF \E u \in Q : account[u] = n THEN Null
                   ELSE IF authed_nick[n] \in Q THEN Freed
                   ELSE authed_nick[n]]

userquit(Q) ==
  /\ name' = NamesAfterQuit(Q)
  /\ account' = AccountsAfterQuit(Q)
  /\ svid' = SvidsAfterQuit(Q)
  /\ authed_nick' = AuthedAfterQuit(Q)
  /\ guests' = GuestsAfterQuit(Q)

Ghosts_slip(n) == {}   \* nobody is ghosted

\* The nick that an identification to account n kills first, if any.
Ghosts(n) == {u \in Nicks : u = authed_nick[n]}

\* The guest entry is deleted whatever the nick is called.
user_login_slip(Q, u, nm, n) ==
  /\ account' = [AccountsAfterQuit(Q) EXCEPT ![u] = n]
  /\ svid' = [SvidsAfterQuit(Q) EXCEPT ![u] = n]
  /\ authed_nick' =
       [AuthedAfterQuit(Q) EXCEPT ![n] = IF u \in Q THEN Freed ELSE u]
  /\ guests' = GuestsAfterQuit(Q) \ {n}

\* user_login for nick u, called nm, into account n, after the nicks of Q were
\* killed; the nick that logs in is freed memory when it is itself in Q.
user_login(Q, u, nm, n) ==
  /\ account' = [AccountsAfterQuit(Q) EXCEPT ![u] = n]
  /\ svid' = [SvidsAfterQuit(Q) EXCEPT ![u] = n]
  /\ authed_nick' =
       [AuthedAfterQuit(Q) EXCEPT ![n] = IF u \in Q THEN Freed ELSE u]
  /\ guests' = IF nm = n /\ n \in protect
               THEN GuestsAfterQuit(Q) \ {n}
               ELSE GuestsAfterQuit(Q)

\* One end of the session stays open.
user_logout_half_slip(u, n) ==
  /\ account' = [account EXCEPT ![u] = Null]
  /\ svid' = [svid EXCEPT ![u] = Null]
  /\ UNCHANGED authed_nick

\* The network is not told.
user_logout_svid_slip(u, n) ==
  /\ account' = [account EXCEPT ![u] = Null]
  /\ authed_nick' = [authed_nick EXCEPT ![n] = Null]
  /\ UNCHANGED svid

user_logout(u, n) ==
  /\ account' = [account EXCEPT ![u] = Null]
  /\ svid' = [svid EXCEPT ![u] = Null]
  /\ authed_nick' = [authed_nick EXCEPT ![n] = Null]

-----------------------------------------------------------------------------
(* Lines from the uplink *)

\* The account of a SASL session may be dropped before the UID comes.
SaslAccount_slip(n, s) ==
  IF s = Null THEN Null ELSE IF n \in users THEN n ELSE s

(***************************************************************************)
(* UID: connection u appears with name n, the SVID s that SASL gave it     *)
(* (Null for "0") and, when r holds, umode +r.  The sasl module's          *)
(* HOOK_NICKCREATE runs inside, before the handler looks at +r.  The       *)
(* IRCd never introduces a name in use.                                    *)
(***************************************************************************)
SaslAccount(n, s) ==
  IF s = Null THEN Null
  ELSE IF n \in users THEN n
  ELSE IF s \in users THEN s ELSE Null

m_uid(u, n, s, r) ==
  LET sasl == SaslAccount(n, s)
      byMode == /\ r /\ sasl = Null
                /\ n \in users /\ ~IsAuthed(n) /\ n \notin suspended
      target == IF byMode THEN n ELSE sasl
      Q == IF sasl = Null THEN {} ELSE Ghosts(sasl)
      greet == n \in users /\ target # n /\ n \notin suspended
  IN
  /\ name[u] = Null
  /\ Free(n)
  /\ name' = [NamesAfterQuit(Q) EXCEPT ![u] = n]
  /\ IF target # Null
     THEN user_login(Q, u, n, target)
     ELSE /\ svid' = [svid EXCEPT ![u] = Null]
          /\ guests' = IF greet /\ n \in protect THEN guests \cup {n} ELSE guests
          /\ UNCHANGED <<account, authed_nick>>
  /\ UNCHANGED <<accounts, svsnick>>

(***************************************************************************)
(* NICK: connection u takes name n.  A change of letter case keeps the     *)
(* hash key: the handler returns early, the guest entry already deleted.   *)
(* Otherwise a registered name that is linked to the old name moves the    *)
(* session, and any other registered name is protected against u.          *)
(***************************************************************************)
m_nick(u, n) ==
  LET old == name[u]
      rest == guests \ {old}
  IN
  /\ old # Null
  /\ name' = [name EXCEPT ![u] = n]
  /\ \/ /\ n = old
        /\ guests' = rest
        /\ UNCHANGED <<account, svid, authed_nick>>
     \/ /\ n # old
        /\ n \in users /\ IsAuthed(old) /\ Linked(old, n)
        /\ account' = [account EXCEPT ![u] = n]
        /\ svid' = [svid EXCEPT ![u] = n]
        /\ authed_nick' = [authed_nick EXCEPT ![old] = Null, ![n] = u]
        /\ guests' = IF n \in protect THEN rest \ {n} ELSE rest
     \/ /\ n # old
        /\ n \in users => ~(IsAuthed(old) /\ Linked(old, n))
        /\ guests' = IF n \in users /\ n \in protect
                     THEN rest \cup {n} ELSE rest
        /\ UNCHANGED <<account, svid, authed_nick>>
  /\ UNCHANGED accounts

UserRenames(u, n) ==
  /\ \/ Free(n)
     \/ n = name[u] /\ "caserename" \in Features
  /\ m_nick(u, n)
  /\ UNCHANGED svsnick

\* The uplink carries out SVSNICK n: whoever holds the name then is renamed.
SvsNickObeyed(n) ==
  /\ n \in svsnick
  /\ svsnick' = svsnick \ {n}
  /\ \/ Free(n) /\ UNCHANGED <<sessions, guests, accounts>>
     \/ \E u \in Nicks, guest \in Names :
          name[u] = n /\ Free(guest) /\ m_nick(u, guest)

\* QUIT, or KILL by an operator.
m_quit(u) ==
  /\ name[u] # Null
  /\ userquit({u})
  /\ UNCHANGED <<accounts, svsnick>>

\* SQUIT: a server goes with every nick of its subtree.
m_squit(Q) ==
  /\ Q # {}
  /\ userquit(Q)
  /\ UNCHANGED <<accounts, svsnick>>

\* The link to the uplink is lost (net_disconnect): every nick goes, and so
\* do the lines in flight.
cleanup_reconnect ==
  /\ name' = NamesAfterQuit(Connected)
  /\ account' = AccountsAfterQuit(Connected)
  /\ svid' = SvidsAfterQuit(Connected)
  /\ authed_nick' = AuthedAfterQuit(Connected)
  /\ guests' = {}
  /\ svsnick' = {}
  /\ UNCHANGED accounts

-----------------------------------------------------------------------------
(* Commands of users *)

\* An identified nick identifies again.
nick_identify_slip(u) ==
  LET n == name[u] IN
  /\ n # Null
  /\ n \in users
  /\ n \notin suspended
  /\ name' = NamesAfterQuit(Ghosts(n))
  /\ user_login(Ghosts(n), u, n, n)
  /\ UNCHANGED <<accounts, svsnick>>

\* IDENTIFY with the right password.
nick_identify(u) ==
  LET n == name[u] IN
  /\ n # Null
  /\ account[u] = Null
  /\ n \in users
  /\ n \notin suspended
  /\ name' = NamesAfterQuit(Ghosts(n))
  /\ user_login(Ghosts(n), u, n, n)
  /\ UNCHANGED <<accounts, svsnick>>

\* REGISTER; with emailreg the password is mailed and nobody is logged in.
nick_register(u) ==
  LET n == name[u] IN
  /\ n # Null
  /\ find_account(u) = Null
  /\ users' = users \cup {n}
  /\ \/ UNCHANGED <<account, svid, authed_nick, guests>>
     \/ user_login({}, u, n, n)
  /\ UNCHANGED <<name, protect, suspended, links, svsnick>>

\* GHOST n, with a password that matches the caller's own account.
nick_ghost(u, n) ==
  /\ name[u] # Null
  /\ n # name[u]
  /\ n \in users
  /\ ~Free(n)
  /\ find_account(u) # Null
  /\ userquit({v \in Nicks : name[v] = n})
  /\ UNCHANGED <<accounts, svsnick>>

AccountsAfterDrop_slip(n) ==   \* freed without user_logout
  [v \in Nicks |-> IF account[v] = n THEN Freed ELSE account[v]]

\* The nicks' accounts once account n is freed.
AccountsAfterDrop(n) ==
  [v \in Nicks |-> IF v = authed_nick[n] THEN Null
                   ELSE IF account[v] = n THEN Freed ELSE account[v]]

\* What was kept in or by the name of the account goes with it.
WithoutAccount(S, n) == S \ {n}

(***************************************************************************)
(* userdrop(n): links, then the account.  DeleteAccount logs out the nick  *)
(* the account names and frees the account; any other nick that points to  *)
(* it now points to freed memory.                                          *)
(***************************************************************************)
userdrop(n) ==
  /\ links' = {l \in links : l.slave # n /\ l.master # n}
  /\ account' = AccountsAfterDrop(n)
  /\ svid' = [v \in Nicks |-> IF v = authed_nick[n] THEN Null ELSE svid[v]]
  /\ authed_nick' = [authed_nick EXCEPT ![n] = Null]
  /\ users' = users \ {n}
  /\ protect' = WithoutAccount(protect, n)
  /\ suspended' = WithoutAccount(suspended, n)
  /\ guests' = WithoutAccount(guests, n)
  /\ UNCHANGED <<name, svsnick>>

nick_drop(u) == MayCommand(u) /\ userdrop(find_account(u))

nick_set_protect(u) ==
  /\ "protect" \in Features
  /\ MayCommand(u)
  /\ \/ protect' = protect \cup {find_account(u)}
     \/ protect' = protect \ {find_account(u)}
  /\ UNCHANGED <<sessions, users, suspended, guests, links, svsnick>>

\* LINK m: the link is made for the caller's nick name, and the options of m
\* (PROTECT and SUSPENDED among them) replace those of the caller's account.
nick_link(u, m) ==
  LET a == find_account(u) IN
  /\ "link" \in Features
  /\ MayCommand(u)
  /\ m # name[u]
  /\ m \in users
  /\ ~find_link(name[u])
  /\ ~find_link2(name[u], m)
  /\ links' = links \cup {[slave |-> name[u], master |-> m]}
  /\ protect' = IF m \in protect THEN protect \cup {a} ELSE protect \ {a}
  /\ suspended' = IF m \in suspended THEN suspended \cup {a} ELSE suspended \ {a}
  /\ UNCHANGED <<sessions, users, guests, svsnick>>

nick_unlink(u, n) ==
  /\ "link" \in Features
  /\ MayCommand(u)
  /\ n # name[u]
  /\ n \in users
  /\ Linked(name[u], n)
  /\ links' = IF find_link2(name[u], n)
              THEN links \ {[slave |-> n, master |-> name[u]]}
              ELSE links \ {[slave |-> name[u], master |-> n]}
  /\ UNCHANGED <<sessions, users, protect, suspended, guests, svsnick>>

-----------------------------------------------------------------------------
(* Commands of operators (connections outside Nicks that outrank the users) *)

oper_drop(n) == n \in users /\ userdrop(n)

oper_forceauth(u) ==
  LET n == name[u] IN
  /\ "forceauth" \in Features
  /\ n # Null
  /\ n \in users
  /\ account[u] = Null
  /\ user_login({}, u, n, n)
  /\ UNCHANGED <<name, accounts, svsnick>>

oper_suspend(n) ==
  /\ "suspend" \in Features
  /\ n \in users
  /\ suspended' = suspended \cup {n}
  /\ IF authed_nick[n] = Null
     THEN UNCHANGED <<account, svid, authed_nick>>
     ELSE user_logout(authed_nick[n], n)
  /\ UNCHANGED <<name, users, protect, guests, links, svsnick>>

oper_unsuspend(n) ==
  /\ "suspend" \in Features
  /\ n \in suspended
  /\ suspended' = suspended \ {n}
  /\ UNCHANGED <<sessions, users, protect, guests, links, svsnick>>

-----------------------------------------------------------------------------
(* Checks of the main loop *)

\* The entry goes and nothing is sent.
CheckGuests_slip(n) ==
  /\ n \in guests
  /\ guests' = guests \ {n}
  /\ UNCHANGED <<sessions, accounts, svsnick>>

\* The delay of guest entry n is over: the rename is requested, once.
CheckGuests(n) ==
  /\ n \in guests
  /\ svsnick' = svsnick \cup {n}
  /\ guests' = guests \ {n}
  /\ UNCHANGED <<sessions, accounts>>

\* An account that nobody used for nick_expire days is dropped.
checkexpired(n) ==
  /\ n \in users
  /\ ~IsAuthed(n)
  /\ userdrop(n)

-----------------------------------------------------------------------------
Init ==
  /\ name = [u \in Nicks |-> Null]
  /\ account = [u \in Nicks |-> Null]
  /\ svid = [u \in Nicks |-> Null]
  /\ users \in SUBSET Names
  /\ authed_nick = [n \in Names |-> Null]
  /\ protect \in SUBSET (IF "protect" \in Features THEN users ELSE {})
  /\ suspended \in SUBSET (IF "suspend" \in Features THEN users ELSE {})
  /\ guests = {}
  /\ links = {}
  /\ svsnick = {}

\* No table holds a pointer to freed memory.  C gives a step that reads such a
\* pointer no meaning, so no step is modelled after it.
NoDanglingPointer ==
  /\ \A u \in Nicks : account[u] # Freed
  /\ \A n \in Names : authed_nick[n] # Freed

FromUplink ==
  \/ \E u \in Nicks, n \in Names, s \in Names \cup {Null}, r \in BOOLEAN :
       m_uid(u, n, s, r)
  \/ \E u \in Nicks, n \in Names : UserRenames(u, n)
  \/ \E n \in Names : SvsNickObeyed(n)
  \/ \E u \in Nicks : m_quit(u)
  \/ \E Q \in SUBSET Connected : m_squit(Q)
  \/ cleanup_reconnect

FromUsers ==
  \/ \E u \in Nicks : nick_identify(u)
  \/ \E u \in Nicks : nick_register(u)
  \/ \E u \in Nicks, n \in Names : nick_ghost(u, n)
  \/ \E u \in Nicks : nick_drop(u)
  \/ \E u \in Nicks : nick_set_protect(u)
  \/ \E u \in Nicks, n \in Names : nick_link(u, n)
  \/ \E u \in Nicks, n \in Names : nick_unlink(u, n)

FromOperators ==
  \/ \E n \in Names : oper_drop(n)
  \/ \E u \in Nicks : oper_forceauth(u)
  \/ \E n \in Names : oper_suspend(n)
  \/ \E n \in Names : oper_unsuspend(n)

FromMainLoop ==
  \/ \E n \in Names : CheckGuests(n)
  \/ \E n \in Names : checkexpired(n)

Next ==
  /\ NoDanglingPointer
  /\ \/ FromUplink
     \/ FromUsers
     \/ FromOperators
     \/ FromMainLoop

Spec == Init /\ [][Next]_vars

\* The main loop calls CheckGuests on every turn, and the uplink carries out
\* the SVSNICK lines it receives.
Fairness == \A n \in Names : WF_vars(CheckGuests(n)) /\ WF_vars(SvsNickObeyed(n))

FairSpec == Spec /\ Fairness

-----------------------------------------------------------------------------
(* Properties *)

\* A nick points to an account exactly when the account points back: every
\* handler that calls user_login or user_logout leaves the two tables in step.
SessionsAgree ==
  \A u \in Nicks, n \in Names : account[u] = n <=> authed_nick[n] = u

\* A session joins a connected nick and a registered account: userquit and
\* DeleteAccount close the session before they free either end.
SessionsHaveBothEnds ==
  \A n \in Names : authed_nick[n] # Null => /\ n \in users
                                           /\ authed_nick[n] \in Connected

\* The SVID the network sees is the account the services hold: SVSLOGIN goes
\* with every change of nick->account, and an SVID that UID brings without an
\* account behind it is withdrawn (sasl.c).
SvidNamesAccount == \A u \in Nicks : svid[u] = account[u]

\* A guest entry is for a registered name that somebody holds: it goes away
\* with the holder (m_nick, userquit) and with the account (DeleteAccount), so
\* CheckGuests never asks for the rename of an innocent later holder.
GuestsHoldNames == \A n \in guests : n \in users /\ ~Free(n)

\* A session ends only when its nick leaves, its account is dropped or its
\* account is suspended; identifying to another account takes a reconnection
\* (nick_identify), and NICK alone does not log anybody out.
SessionsEndForAReason ==
  [][\A u \in Nicks : account[u] \notin {Null, account'[u]} =>
       /\ account'[u] = Null
       /\ \/ name'[u] = Null
          \/ account[u] \notin users'
          \/ account[u] \in suspended']_vars

\* The tables keep the promise of Registry: every handler opens at most one
\* session, to an account whose previous holder it kills, and closes the others
\* it closes with their nick, their account or a suspension.
Abstract == INSTANCE Registry WITH online <- Connected, registered <- users,
                                   session <- account
SessionsAreExclusive == Abstract!RegistrySpec

\* A name on notice stays on notice until the rename is requested, the holder
\* gives the name up or identifies, or the account goes.
GuestsEndForAReason ==
  [][\A n \in guests \ guests' :
       \/ n \in svsnick'
       \/ n \notin users'
       \/ \A u \in Nicks : name[u] = n =>
            name'[u] # n \/ account'[u] = n]_vars

\* Whoever holds a protected name without being identified to it loses the
\* name, unless they identify or the account goes first (CheckGuests).
ProtectionTakesEffect ==
  \A u \in Nicks, n \in Names :
    (name[u] = n /\ n \in guests)
      ~> (name[u] # n \/ account[u] = n \/ n \notin users)

\* At most one nick is identified to an account ("Ghost if the user is already
\* authed (meaning another nick is identified with this account)", sasl.c).
OneSessionPerAccount ==
  \A u, v \in Nicks : account[u] \in Names /\ account[u] = account[v] => u = v
=============================================================================
