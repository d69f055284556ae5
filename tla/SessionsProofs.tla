--------------------------- MODULE SessionsProofs ---------------------------
(***************************************************************************)
(* Proofs about Sessions.                                                  *)
(*   TypeCorrect        every table keeps its type, with every feature;    *)
(*   NoUseAfterFree ... ExclusiveSessions, SessionEnds, RefinesRegistry    *)
(*                      where LINK and FORCEAUTH are out of reach, from    *)
(*                      the inductive invariant SessionInv;                *)
(*   GuestsCorrect, GuestEnds                                              *)
(*                      the entries of names on notice, from the types and *)
(*                      the uniqueness of names.                           *)
(***************************************************************************)
EXTENDS Sessions, TLAPS

\* Only registered accounts are marked authed.
AuthedAreRegistered == \A n \in Names : authed_nick[n] # Null => n \in users

TypeInv == TypeOK /\ AuthedAreRegistered

\* No service starts with a session.
LEMMA TypeInit == Init => TypeInv
BY NullFresh DEF Init, TypeInv, TypeOK, AuthedAreRegistered, Link

\* userquit keeps the type of authed_nick and marks nobody authed.
LEMMA AuthedAfterQuitType ==
  ASSUME TypeInv, NEW Q \in SUBSET Nicks
  PROVE  /\ AuthedAfterQuit(Q) \in [Names -> Nicks \cup {Null, Freed}]
         /\ \A n \in Names : AuthedAfterQuit(Q)[n] # Null => authed_nick[n] # Null
BY NullFresh, FreedFresh DEF TypeInv, TypeOK, AuthedAfterQuit

\* QUIT, SQUIT and GHOST keep the types.
LEMMA TypeUserquit ==
  ASSUME TypeInv, NEW Q \in SUBSET Nicks, userquit(Q), UNCHANGED <<accounts>>,
         svsnick' \subseteq Names
  PROVE TypeInv'
<1>1. TypeOK' 
  BY NullFresh, FreedFresh DEF TypeInv, TypeOK, userquit, NamesAfterQuit, AccountsAfterQuit,
     SvidsAfterQuit, AuthedAfterQuit, GuestsAfterQuit, accounts
<1>2. AuthedAreRegistered'
  BY NullFresh, FreedFresh DEF TypeInv, TypeOK, AuthedAreRegistered, userquit, AuthedAfterQuit, accounts
<1> QED BY <1>1, <1>2 DEF TypeInv

\* user_login keeps the types, for an account that is registered.
LEMMA TypeLogin ==
  ASSUME TypeInv, NEW Q \in SUBSET Nicks, NEW u \in Nicks, NEW nm \in Names, NEW n \in users,
         user_login(Q, u, nm, n), UNCHANGED <<protect, suspended, links>>,
         name' \in [Nicks -> Names \cup {Null}],
         users' \subseteq Names, users \subseteq users',
         svsnick' \subseteq Names
  PROVE TypeInv'
<1>1. TypeOK' 
  BY NullFresh, FreedFresh DEF TypeInv, TypeOK, user_login, AccountsAfterQuit,
     SvidsAfterQuit, AuthedAfterQuit, GuestsAfterQuit
<1>2. AuthedAreRegistered'
  BY NullFresh, FreedFresh DEF TypeInv, TypeOK, AuthedAreRegistered, user_login, AuthedAfterQuit
<1> QED BY <1>1, <1>2 DEF TypeInv

\* userdrop keeps the types.
LEMMA TypeDrop ==
  ASSUME TypeInv, NEW n \in users, userdrop(n)
  PROVE TypeInv'
<1>1. TypeOK'
  BY NullFresh, FreedFresh DEF TypeInv, TypeOK, userdrop, AccountsAfterDrop, WithoutAccount
<1>2. AuthedAreRegistered'
  BY DEF TypeInv, TypeOK, AuthedAreRegistered, userdrop
<1> QED BY <1>1, <1>2 DEF TypeInv

\* NICK keeps the types, whether or not a session moves.
LEMMA TypeRename ==
  ASSUME TypeInv, NEW u \in Nicks, NEW n \in Names, m_nick(u, n),
         svsnick' \subseteq Names
  PROVE TypeInv'
<1>1. TypeOK'
  BY NullFresh, FreedFresh DEF TypeInv, TypeOK, m_nick, accounts
<1>2. AuthedAreRegistered'
  BY NullFresh, FreedFresh DEF TypeInv, TypeOK, AuthedAreRegistered, m_nick, accounts
<1> QED BY <1>1, <1>2 DEF TypeInv

\* A handler that opens no session only has to keep the types.
LEMMA TypeUnchangedUsers ==
  ASSUME TypeInv, TypeOK', UNCHANGED <<users, authed_nick>>
  PROVE TypeInv'
BY DEF TypeInv, AuthedAreRegistered

\* Every handler keeps the types and authes registered accounts only.
LEMMA TypeNext == TypeInv /\ [Next]_vars => TypeInv'
<1> SUFFICES ASSUME TypeInv, [Next]_vars PROVE TypeInv'
  OBVIOUS
<1> USE NullFresh, FreedFresh
<1>1. ASSUME NEW u \in Nicks, NEW n \in Names, NEW s \in Names \cup {Null}, NEW r \in BOOLEAN,
             m_uid(u, n, s, r)
      PROVE TypeInv'
  <2> DEFINE sasl == SaslAccount(n, s)
             byMode == /\ r /\ sasl = Null
                       /\ n \in users /\ ~IsAuthed(n) /\ n \notin suspended
             target == IF byMode THEN n ELSE sasl
             Q == IF sasl = Null THEN {} ELSE Ghosts(sasl)
  <2>1. Q \in SUBSET Nicks /\ target \in users \cup {Null}
    BY DEF Ghosts, SaslAccount, TypeInv, TypeOK
  <2>2. name' \in [Nicks -> Names \cup {Null}]
    <3>1. PICK R \in SUBSET Nicks : name' = [NamesAfterQuit(R) EXCEPT ![u] = n]
      BY <1>1, <2>1 DEF m_uid
    <3> QED BY <3>1 DEF NamesAfterQuit, TypeInv, TypeOK
  <2>3. CASE target # Null
    <3>1. user_login(Q, u, n, target) /\ UNCHANGED <<accounts, svsnick>>
      BY <1>1, <2>3 DEF m_uid
    <3> QED BY <2>1, <2>2, <2>3, <3>1, TypeLogin DEF accounts, TypeInv, TypeOK
  <2>4. CASE target = Null
    <3>1. /\ svid' = [svid EXCEPT ![u] = Null]
          /\ guests' = guests \cup {n} \/ guests' = guests
          /\ UNCHANGED <<account, authed_nick, accounts, svsnick>>
      BY <1>1, <2>4 DEF m_uid
    <3> QED BY <2>2, <3>1 DEF TypeInv, TypeOK, AuthedAreRegistered, accounts
  <2> QED BY <2>3, <2>4
<1>2. ASSUME NEW u \in Nicks, NEW n \in Names, UserRenames(u, n)
      PROVE TypeInv'
  BY <1>2, TypeRename DEF UserRenames, TypeInv, TypeOK
<1>3. ASSUME NEW n \in Names, SvsNickObeyed(n)
      PROVE TypeInv'
  <2>1. svsnick' \subseteq Names
    BY <1>3 DEF SvsNickObeyed, TypeInv, TypeOK
  <2>2. CASE UNCHANGED <<sessions, guests, accounts>>
    BY <2>1, <2>2 DEF TypeInv, TypeOK, AuthedAreRegistered, sessions, accounts
  <2>3. CASE \E u \in Nicks, guest \in Names : m_nick(u, guest)
    BY <2>1, <2>3, TypeRename
  <2> QED BY <1>3, <2>2, <2>3 DEF SvsNickObeyed
<1>4. ASSUME NEW Q \in SUBSET Nicks, userquit(Q), UNCHANGED <<accounts, svsnick>>
      PROVE TypeInv'
  BY <1>4, TypeUserquit DEF TypeInv, TypeOK
<1>5. CASE cleanup_reconnect
  <2>1. Connected \in SUBSET Nicks
    BY DEF Connected
  <2>2. authed_nick' = AuthedAfterQuit(Connected) /\ users' = users
    BY <1>5 DEF cleanup_reconnect, accounts
  <2>3. /\ name' \in [Nicks -> Names \cup {Null}]
        /\ svid' \in [Nicks -> Names \cup {Null}]
    BY <1>5 DEF cleanup_reconnect, TypeInv, TypeOK, NamesAfterQuit, SvidsAfterQuit
  <2>4. account' \in [Nicks -> Names \cup {Null, Freed}]
    BY <1>5 DEF cleanup_reconnect, TypeInv, TypeOK, AccountsAfterQuit
  <2>5. TypeOK'
    BY <1>5, <2>1, <2>2, <2>3, <2>4, AuthedAfterQuitType
       DEF cleanup_reconnect, TypeInv, TypeOK, accounts
  <2>6. AuthedAreRegistered'
    BY <2>1, <2>2, AuthedAfterQuitType DEF TypeInv, AuthedAreRegistered
  <2> QED BY <2>5, <2>6 DEF TypeInv
<1>6. ASSUME NEW u \in Nicks, nick_identify(u)
      PROVE TypeInv'
  <2> DEFINE n == name[u]
  <2>1. Ghosts(n) \in SUBSET Nicks /\ n \in users /\ n \in Names
    BY <1>6 DEF nick_identify, Ghosts, TypeInv, TypeOK
  <2>2. name' \in [Nicks -> Names \cup {Null}]
    BY <1>6 DEF nick_identify, NamesAfterQuit, TypeInv, TypeOK
  <2>3. user_login(Ghosts(n), u, n, n) /\ UNCHANGED <<accounts, svsnick>>
    BY <1>6 DEF nick_identify
  <2> QED BY <2>1, <2>2, <2>3, TypeLogin DEF accounts, TypeInv, TypeOK
<1>7. ASSUME NEW u \in Nicks, nick_register(u)
      PROVE TypeInv'
  <2> DEFINE n == name[u]
  <2>1. /\ n \in Names /\ users' = users \cup {n}
        /\ UNCHANGED <<name, protect, suspended, links, svsnick>>
    BY <1>7 DEF nick_register, TypeInv, TypeOK
  <2>2. CASE UNCHANGED <<account, svid, authed_nick, guests>>
    BY <2>1, <2>2 DEF TypeInv, TypeOK, AuthedAreRegistered
  <2>3. CASE user_login({}, u, n, n)
    <3>1. TypeOK'
      BY <2>1, <2>3 DEF user_login, AccountsAfterQuit, SvidsAfterQuit,
         AuthedAfterQuit, GuestsAfterQuit, TypeInv, TypeOK
    <3>2. AuthedAreRegistered'
      BY <2>1, <2>3 DEF user_login, AuthedAfterQuit, TypeInv, TypeOK, AuthedAreRegistered
    <3> QED BY <3>1, <3>2 DEF TypeInv
  <2> QED BY <1>7, <2>2, <2>3 DEF nick_register
<1>8. ASSUME NEW n \in users, userdrop(n)
      PROVE TypeInv'
  BY <1>8, TypeDrop
<1>9. ASSUME NEW u \in Nicks, MayCommand(u), NoDanglingPointer
      PROVE name[u] \in Names /\ find_account(u) \in users
  BY <1>9 DEF MayCommand, find_account, IsAuthed, NoDanglingPointer, TypeInv, TypeOK,
              AuthedAreRegistered
<1>10. ASSUME NEW u \in Nicks, NoDanglingPointer, nick_set_protect(u)
       PROVE TypeInv'
  <2>1. find_account(u) \in users
    BY <1>9, <1>10 DEF nick_set_protect
  <2>2. TypeOK'
    BY <1>10, <2>1 DEF nick_set_protect, sessions, TypeInv, TypeOK
  <2> QED BY <1>10, <2>2, TypeUnchangedUsers DEF nick_set_protect, sessions
<1>11. ASSUME NEW u \in Nicks, NEW m \in Names, NoDanglingPointer, nick_link(u, m)
       PROVE TypeInv'
  <2>1. name[u] \in Names /\ find_account(u) \in users
    BY <1>9, <1>11 DEF nick_link
  <2>2. protect' \subseteq users /\ suspended' \subseteq users /\ UNCHANGED <<sessions, users, guests, svsnick>>
    BY <1>11, <2>1 DEF nick_link, TypeInv, TypeOK
  <2>3. links' \subseteq Link
    BY <1>11, <2>1 DEF nick_link, TypeInv, TypeOK, Link
  <2>4. TypeOK'
    BY <2>2, <2>3 DEF sessions, TypeInv, TypeOK
  <2> QED BY <2>2, <2>4, TypeUnchangedUsers DEF sessions
<1>12. ASSUME NEW u \in Nicks, NEW n \in Names, nick_unlink(u, n)
       PROVE TypeInv'
  <2>1. links' \subseteq Link
    BY <1>12 DEF nick_unlink, TypeInv, TypeOK
  <2>2. TypeOK'
    BY <1>12, <2>1 DEF nick_unlink, sessions, TypeInv, TypeOK
  <2> QED BY <1>12, <2>2, TypeUnchangedUsers DEF nick_unlink, sessions
<1>13. ASSUME NEW u \in Nicks, oper_forceauth(u)
       PROVE TypeInv'
  BY <1>13, TypeLogin DEF oper_forceauth, accounts, TypeInv, TypeOK
<1>14. ASSUME NEW n \in Names, oper_suspend(n)
       PROVE TypeInv'
  <2>1. /\ UNCHANGED <<name, users, protect, guests, links, svsnick>>
        /\ suspended' \subseteq users
    BY <1>14 DEF oper_suspend, TypeInv, TypeOK
  <2>2. CASE UNCHANGED <<account, svid, authed_nick>>
    BY <2>1, <2>2 DEF TypeInv, TypeOK, AuthedAreRegistered
  <2>3. CASE user_logout(authed_nick[n], n)
    BY <2>1, <2>3 DEF user_logout, TypeInv, TypeOK, AuthedAreRegistered
  <2> QED BY <1>14, <2>2, <2>3 DEF oper_suspend
<1>15. ASSUME NEW n \in Names, oper_unsuspend(n)
       PROVE TypeInv'
  <2>1. TypeOK'
    BY <1>15 DEF oper_unsuspend, sessions, TypeInv, TypeOK
  <2> QED BY <1>15, <2>1, TypeUnchangedUsers DEF oper_unsuspend, sessions
<1>16. ASSUME NEW n \in Names, CheckGuests(n)
       PROVE TypeInv'
  <2>1. TypeOK'
    BY <1>16 DEF CheckGuests, sessions, accounts, TypeInv, TypeOK
  <2> QED BY <1>16, <2>1, TypeUnchangedUsers DEF CheckGuests, sessions, accounts
<1>17. CASE UNCHANGED vars
  BY <1>17 DEF vars, TypeInv, TypeOK, AuthedAreRegistered
<1>18. CASE FromUplink
  <2>1. ASSUME NEW u \in Nicks, m_quit(u) PROVE TypeInv'
    BY <1>4, <2>1 DEF m_quit
  <2>2. ASSUME NEW Q \in SUBSET Connected, m_squit(Q) PROVE TypeInv'
    BY <1>4, <2>2 DEF m_squit, Connected
  <2> QED BY <1>1, <1>2, <1>3, <1>5, <1>18, <2>1, <2>2 DEF FromUplink
<1>19. CASE NoDanglingPointer /\ FromUsers
  <2>1. ASSUME NEW u \in Nicks, NEW n \in Names, nick_ghost(u, n) PROVE TypeInv'
    BY <1>4, <2>1 DEF nick_ghost
  <2>2. ASSUME NEW u \in Nicks, nick_drop(u) PROVE TypeInv'
    BY <1>8, <1>9, <1>19, <2>2 DEF nick_drop
  <2> QED BY <1>6, <1>7, <1>10, <1>11, <1>12, <1>19, <2>1, <2>2 DEF FromUsers
<1>20. CASE FromOperators
  BY <1>8, <1>13, <1>14, <1>15, <1>20 DEF FromOperators, oper_drop
<1>21. CASE FromMainLoop
  BY <1>8, <1>16, <1>21 DEF FromMainLoop, checkexpired
<1> QED BY <1>17, <1>18, <1>19, <1>20, <1>21 DEF Next

\* Every table keeps its type, and only registered accounts are in use.
THEOREM TypeCorrect == Spec => []TypeOK
<1>1. Spec => []TypeInv
  BY TypeInit, TypeNext, PTL DEF Spec
<1>2. TypeInv => TypeOK
  BY DEF TypeInv
<1> QED BY <1>1, <1>2, PTL
-----------------------------------------------------------------------------
(***************************************************************************)
(* Exclusive sessions.  They hold where LINK and FORCEAUTH are out of      *)
(* reach, the two commands that log a nick in without ghosting (README).   *)
(***************************************************************************)
StockCommands == Features \cap {"link", "forceauth"} = {}

\* The inductive invariant.  SessionsAgree is not inductive alone: userquit
\* closes the session of a nick only if the nick's own account pointer leads
\* to it, a dropped account only if the account's pointer leads to the nick.
SessionInv ==
  /\ TypeInv
  /\ links = {}
  /\ NoDanglingPointer
  /\ SessionsAgree
  /\ SessionsHaveBothEnds
  /\ SvidNamesAccount

(***************************************************************************)
(* What a step can do to the sessions: nothing, with a nick or an account  *)
(* that appears; open one, after the ghosting of its previous holder; or   *)
(* close those of some nicks that leave, or the one of an account that is  *)
(* dropped or suspended.                                                   *)
(***************************************************************************)
SameSessions == UNCHANGED <<account, svid, authed_nick, links>>

NoSession(Q) == [v \in Nicks |-> IF v \in Q THEN Null ELSE account[v]]

Appears(u) ==
  /\ u \notin Connected /\ Connected' = Connected \cup {u}
  /\ UNCHANGED users
  /\ SameSessions

Registers(u, n) ==
  /\ u \in Connected /\ account[u] = Null /\ n \notin users
  /\ users' = users \cup {n}
  /\ UNCHANGED Connected
  /\ SameSessions

Opens(u, n) ==
  /\ account[u] = Null
  /\ \/ n \in users /\ users' = users
     \/ n \notin users /\ users' = users \cup {n} /\ u \in Connected
  /\ Connected' = (Connected \ Ghosts(n)) \cup {u}
  /\ account' = [NoSession(Ghosts(n)) EXCEPT ![u] = n]
  /\ svid' = [NoSession(Ghosts(n)) EXCEPT ![u] = n]
  /\ authed_nick' = [authed_nick EXCEPT ![n] = u]
  /\ UNCHANGED links

Leaves(Q) ==
  /\ Connected' = Connected \ Q
  /\ account' = NoSession(Q)
  /\ svid' = NoSession(Q)
  /\ authed_nick' = [n \in Names |-> IF authed_nick[n] \in Q THEN Null ELSE authed_nick[n]]
  /\ UNCHANGED <<users, links>>

Withdraws(n) ==
  /\ n \in users
  /\ \/ users' = users \ {n}
     \/ users' = users /\ n \in suspended'
  /\ UNCHANGED Connected
  /\ account' = NoSession(Ghosts(n))
  /\ svid' = NoSession(Ghosts(n))
  /\ authed_nick' = [authed_nick EXCEPT ![n] = Null]
  /\ UNCHANGED links

SessionStep ==
  \/ SameSessions /\ UNCHANGED <<users, Connected>>
  \/ \E u \in Nicks : Appears(u)
  \/ \E u \in Nicks, n \in Names : Registers(u, n) \/ Opens(u, n)
  \/ \E Q \in SUBSET Nicks : Leaves(Q)
  \/ \E n \in Names : Withdraws(n)

\* Under the invariant userquit frees no nick that an account still points to.
LEMMA QuitClosesBothEnds ==
  ASSUME SessionInv, NEW Q \in SUBSET Nicks
  PROVE  /\ AccountsAfterQuit(Q) = NoSession(Q)
         /\ SvidsAfterQuit(Q) = NoSession(Q)
         /\ AuthedAfterQuit(Q) =
              [n \in Names |-> IF authed_nick[n] \in Q THEN Null ELSE authed_nick[n]]
<1>1. AccountsAfterQuit(Q) = NoSession(Q)
  BY DEF AccountsAfterQuit, NoSession
<1>2. SvidsAfterQuit(Q) = NoSession(Q)
  BY DEF SvidsAfterQuit, NoSession, SessionInv, SvidNamesAccount
<1>3. ASSUME NEW n \in Names
      PROVE (\E u \in Q : account[u] = n) <=> authed_nick[n] \in Q
  BY DEF SessionInv, SessionsAgree
<1> QED BY <1>1, <1>2, <1>3 DEF AuthedAfterQuit

\* An account has one holder at most, and only it is ghosted.
LEMMA GhostsAreHolders ==
  ASSUME SessionInv, NEW n \in Names
  PROVE  /\ Ghosts(n) \in SUBSET Nicks
         /\ \A v \in Nicks : v \in Ghosts(n) <=> account[v] = n
         /\ n \notin users => Ghosts(n) = {}
BY NullFresh DEF Ghosts, SessionInv, SessionsAgree, SessionsHaveBothEnds

\* A nick that is not connected has no session.
LEMMA SessionsAreConnected ==
  ASSUME SessionInv, NEW u \in Nicks, name[u] = Null
  PROVE  account[u] = Null /\ svid[u] = Null
BY NullFresh DEF SessionInv, TypeInv, TypeOK, NoDanglingPointer, SessionsAgree,
   SessionsHaveBothEnds, SvidNamesAccount, Connected

\* The tables after user_login, when the previous holder was ghosted.
LEMMA LoginOpens ==
  ASSUME SessionInv, NEW u \in Nicks, NEW nm, NEW n \in Names, account[u] = Null,
         user_login(Ghosts(n), u, nm, n)
  PROVE  /\ account' = [NoSession(Ghosts(n)) EXCEPT ![u] = n]
         /\ svid' = [NoSession(Ghosts(n)) EXCEPT ![u] = n]
         /\ authed_nick' = [authed_nick EXCEPT ![n] = u]
<1>1. u \notin Ghosts(n)
  BY NullFresh, GhostsAreHolders
<1>2. /\ AccountsAfterQuit(Ghosts(n)) = NoSession(Ghosts(n))
      /\ SvidsAfterQuit(Ghosts(n)) = NoSession(Ghosts(n))
      /\ AuthedAfterQuit(Ghosts(n)) =
           [m \in Names |-> IF authed_nick[m] \in Ghosts(n) THEN Null ELSE authed_nick[m]]
  BY QuitClosesBothEnds, GhostsAreHolders
<1>3. ASSUME NEW m \in Names, m # n
      PROVE authed_nick[m] \notin Ghosts(n)
  BY <1>3, GhostsAreHolders DEF SessionInv, SessionsAgree
<1>4. [AuthedAfterQuit(Ghosts(n)) EXCEPT ![n] = u] = [authed_nick EXCEPT ![n] = u]
  BY <1>2, <1>3 DEF SessionInv, TypeInv, TypeOK
<1> QED BY <1>1, <1>2, <1>4 DEF user_login

\* userquit, as far as sessions go.
LEMMA UserquitLeaves ==
  ASSUME SessionInv, NEW Q \in SUBSET Nicks, userquit(Q), UNCHANGED accounts
  PROVE  Leaves(Q)
<1>1. Connected' = Connected \ Q
  BY DEF userquit, NamesAfterQuit, Connected
<1> QED BY <1>1, QuitClosesBothEnds DEF userquit, Leaves, accounts

\* DeleteAccount, as far as sessions go.
LEMMA UserdropWithdraws ==
  ASSUME SessionInv, NEW n \in Names, n \in users, userdrop(n)
  PROVE  Withdraws(n)
<1>1. ASSUME NEW v \in Nicks
      PROVE (v = authed_nick[n] <=> v \in Ghosts(n)) /\ (account[v] = n <=> v \in Ghosts(n))
  BY GhostsAreHolders DEF Ghosts
<1>2. account' = NoSession(Ghosts(n))
  BY <1>1 DEF userdrop, AccountsAfterDrop, NoSession
<1>3. svid' = NoSession(Ghosts(n))
  BY <1>1 DEF userdrop, NoSession, SessionInv, SvidNamesAccount
<1>4. UNCHANGED links
  BY DEF userdrop, SessionInv
<1>5. UNCHANGED Connected
  BY DEF userdrop, Connected
<1>6. users' = users \ {n} /\ authed_nick' = [authed_nick EXCEPT ![n] = Null]
  BY DEF userdrop
<1> QED BY <1>2, <1>3, <1>4, <1>5, <1>6 DEF Withdraws

\* UID brings a nick with no session, or with one that ghosts its previous holder.
LEMMA UidStep ==
  ASSUME SessionInv, NEW u \in Nicks, NEW n \in Names, NEW s \in Names \cup {Null},
         NEW r \in BOOLEAN, m_uid(u, n, s, r)
  PROVE  Appears(u) \/ \E m \in Names : Opens(u, m)
<1> DEFINE sasl == SaslAccount(n, s)
           byMode == /\ r /\ sasl = Null
                     /\ n \in users /\ ~IsAuthed(n) /\ n \notin suspended
           target == IF byMode THEN n ELSE sasl
           Q == IF sasl = Null THEN {} ELSE Ghosts(sasl)
<1>1. account[u] = Null /\ svid[u] = Null /\ u \notin Connected
  BY SessionsAreConnected DEF m_uid, Connected
<1>2. UNCHANGED <<users, links>>
  BY DEF m_uid, accounts
<1>3. CASE target # Null
  <2>1. target \in users /\ target \in Names
    BY <1>3 DEF SaslAccount, SessionInv, TypeInv, TypeOK
  <2>2. Q = Ghosts(target)
    BY <1>3, NullFresh DEF Ghosts, IsAuthed
  <2>3. PICK m \in users : /\ m \in Names
                           /\ user_login(Ghosts(m), u, n, m)
                           /\ name' = [NamesAfterQuit(Ghosts(m)) EXCEPT ![u] = n]
    BY <1>3, <2>1, <2>2 DEF m_uid
  <2>4. Connected' = (Connected \ Ghosts(m)) \cup {u}
    BY <2>3, NullFresh DEF NamesAfterQuit, Connected
  <2> QED BY <1>1, <1>2, <2>3, <2>4, LoginOpens DEF Opens
<1>4. CASE target = Null
  <2>1. /\ svid' = [svid EXCEPT ![u] = Null]
        /\ UNCHANGED <<account, authed_nick>>
    BY <1>4 DEF m_uid
  <2>2. svid' = svid
    BY <1>1, <2>1 DEF SessionInv, TypeInv, TypeOK
  <2>3. Q = {}
    BY <1>4, NullFresh DEF SessionInv, TypeInv, TypeOK
  <2>4. PICK R : R = {} /\ name' = [NamesAfterQuit(R) EXCEPT ![u] = n]
    BY <2>3 DEF m_uid
  <2>5. Connected' = Connected \cup {u}
    BY <2>4, NullFresh DEF NamesAfterQuit, Connected
  <2> QED BY <1>1, <1>2, <2>1, <2>2, <2>5 DEF Appears, SameSessions
<1> QED BY <1>3, <1>4

\* A rename without links leaves the sessions alone.
LEMMA RenameStep ==
  ASSUME SessionInv, NEW u \in Nicks, NEW n \in Names, m_nick(u, n)
  PROVE  UNCHANGED <<users, Connected>> /\ SameSessions
<1>1. UNCHANGED Connected
  BY NullFresh DEF m_nick, Connected, SessionInv, TypeInv, TypeOK
<1>2. ~Linked(name[u], n)
  BY DEF Linked, find_link2, SessionInv
<1> QED BY <1>1, <1>2 DEF m_nick, SameSessions, accounts

\* Every step is a session step.
LEMMA NextIsSessionStep ==
  ASSUME StockCommands, SessionInv, [Next]_vars
  PROVE  SessionStep
<1> USE NullFresh
<1>1. ASSUME NEW u \in Nicks, NEW n \in Names, NEW s \in Names \cup {Null}, NEW r \in BOOLEAN,
             m_uid(u, n, s, r)
      PROVE SessionStep
  BY <1>1, UidStep DEF SessionStep
<1>2. ASSUME NEW u \in Nicks, NEW n \in Names, UserRenames(u, n)
      PROVE SessionStep
  BY <1>2, RenameStep DEF UserRenames, SessionStep
<1>3. ASSUME NEW n \in Names, SvsNickObeyed(n)
      PROVE SessionStep
  <2>1. CASE UNCHANGED <<sessions, guests, accounts>>
    BY <2>1 DEF SessionStep, SameSessions, sessions, accounts, Connected
  <2>2. CASE \E u \in Nicks, guest \in Names : m_nick(u, guest)
    BY <2>2, RenameStep DEF SessionStep
  <2> QED BY <1>3, <2>1, <2>2 DEF SvsNickObeyed
<1>4. ASSUME NEW Q \in SUBSET Nicks, userquit(Q), UNCHANGED accounts
      PROVE SessionStep
  BY <1>4, UserquitLeaves DEF SessionStep
<1>5. CASE cleanup_reconnect
  <2>1. Connected \in SUBSET Nicks
    BY DEF Connected
  <2>2. Connected' = Connected \ Connected
    BY <1>5 DEF cleanup_reconnect, Connected, NamesAfterQuit
  <2>3. Leaves(Connected)
    BY <1>5, <2>1, <2>2, QuitClosesBothEnds DEF cleanup_reconnect, Leaves, accounts
  <2> QED BY <2>1, <2>3 DEF SessionStep
<1>6. ASSUME NEW u \in Nicks, nick_identify(u)
      PROVE SessionStep
  <2>1. PICK n \in Names : /\ n \in users /\ account[u] = Null /\ u \in Connected
                          /\ user_login(Ghosts(n), u, n, n)
                          /\ name' = NamesAfterQuit(Ghosts(n))
                          /\ UNCHANGED <<users, links>>
    BY <1>6 DEF nick_identify, accounts, Connected, SessionInv, TypeInv, TypeOK
  <2>2. u \notin Ghosts(n)
    BY <2>1, GhostsAreHolders
  <2>3. Connected' = (Connected \ Ghosts(n)) \cup {u}
    BY <2>1, <2>2 DEF NamesAfterQuit, Connected
  <2>4. Opens(u, n)
    BY <2>1, <2>3, LoginOpens DEF Opens
  <2> QED BY <2>4 DEF SessionStep
<1>7. ASSUME NEW u \in Nicks, nick_register(u)
      PROVE SessionStep
  <2>1. PICK n \in Names : /\ n \notin users /\ account[u] = Null /\ u \in Connected
                          /\ \/ UNCHANGED <<account, svid, authed_nick, guests>>
                             \/ user_login({}, u, n, n)
                          /\ users' = users \cup {n}
                          /\ UNCHANGED <<name, links>>
    BY <1>7 DEF nick_register, find_account, Connected, SessionInv, TypeInv, TypeOK
  <2>2. Ghosts(n) = {} /\ UNCHANGED Connected
    BY <2>1, GhostsAreHolders DEF Connected
  <2>3. CASE UNCHANGED <<account, svid, authed_nick, guests>>
    BY <2>1, <2>2, <2>3 DEF SessionStep, Registers, SameSessions
  <2>4. CASE user_login({}, u, n, n)
    BY <2>1, <2>2, <2>4, LoginOpens DEF Opens, SessionStep
  <2> QED BY <2>1, <2>3, <2>4
<1>8. ASSUME NEW n \in Names, n \in users, userdrop(n)
      PROVE SessionStep
  BY <1>8, UserdropWithdraws DEF SessionStep
<1>9. ASSUME NEW u \in Nicks, nick_drop(u)
      PROVE SessionStep
  <2>1. find_account(u) \in Names /\ find_account(u) \in users
    BY <1>9 DEF nick_drop, MayCommand, find_account, IsAuthed, SessionInv, NoDanglingPointer,
                TypeInv, TypeOK, AuthedAreRegistered
  <2> QED BY <1>8, <1>9, <2>1 DEF nick_drop
<1>10. ASSUME UNCHANGED <<sessions, users, links>>
       PROVE SessionStep
  BY <1>10 DEF SessionStep, SameSessions, sessions, Connected
<1>11. ASSUME NEW n \in Names, oper_suspend(n)
       PROVE SessionStep
  <2>1. UNCHANGED <<name, users, links>> /\ n \in users /\ n \in suspended'
    BY <1>11 DEF oper_suspend
  <2>2. CASE authed_nick[n] = Null
    BY <1>11, <2>1, <2>2, <1>10 DEF oper_suspend, sessions
  <2>3. CASE authed_nick[n] # Null
    <3>1. PICK u \in Nicks : u = authed_nick[n] /\ user_logout(u, n)
      BY <1>11, <2>3 DEF oper_suspend, SessionInv, NoDanglingPointer, TypeInv, TypeOK
    <3>2. Ghosts(n) = {u}
      BY <3>1 DEF Ghosts
    <3>3. account' = NoSession(Ghosts(n)) /\ svid' = NoSession(Ghosts(n))
      <4>1. account' = [account EXCEPT ![u] = Null] /\ svid' = [svid EXCEPT ![u] = Null]
        BY <3>1 DEF user_logout
      <4>2. account \in [Nicks -> Names \cup {Null}] /\ svid = account
        BY DEF SessionInv, SvidNamesAccount, TypeInv, TypeOK
      <4> QED BY <3>2, <4>1, <4>2 DEF NoSession
    <3>4. UNCHANGED Connected
      BY <2>1 DEF Connected
    <3>5. Withdraws(n)
      BY <2>1, <3>1, <3>3, <3>4 DEF Withdraws, user_logout
    <3> QED BY <3>5 DEF SessionStep
  <2> QED BY <2>2, <2>3
<1>12. CASE UNCHANGED vars
  BY <1>10, <1>12 DEF vars, sessions
<1>13. CASE FromUplink
  <2>1. ASSUME NEW u \in Nicks, m_quit(u) PROVE SessionStep
    BY <1>4, <2>1 DEF m_quit, accounts
  <2>2. ASSUME NEW Q \in SUBSET Connected, m_squit(Q) PROVE SessionStep
    BY <1>4, <2>2 DEF m_squit, Connected, accounts
  <2> QED BY <1>1, <1>2, <1>3, <1>5, <1>13, <2>1, <2>2 DEF FromUplink
<1>14. CASE FromUsers
  <2>1. ASSUME NEW u \in Nicks, NEW n \in Names, nick_ghost(u, n) PROVE SessionStep
    BY <1>4, <2>1 DEF nick_ghost, accounts
  <2>2. ASSUME NEW u \in Nicks, nick_set_protect(u) PROVE SessionStep
    BY <1>10, <2>2 DEF nick_set_protect
  <2>3. ASSUME NEW u \in Nicks, NEW n \in Names PROVE ~nick_link(u, n) /\ ~nick_unlink(u, n)
    BY DEF StockCommands, nick_link, nick_unlink
  <2> QED BY <1>6, <1>7, <1>9, <1>14, <2>1, <2>2, <2>3 DEF FromUsers
<1>15. CASE FromOperators
  <2>1. ASSUME NEW n \in Names, oper_drop(n) PROVE SessionStep
    BY <1>8, <2>1 DEF oper_drop
  <2>2. ASSUME NEW n \in Names, oper_unsuspend(n) PROVE SessionStep
    BY <1>10, <2>2 DEF oper_unsuspend
  <2>3. ASSUME NEW u \in Nicks PROVE ~oper_forceauth(u)
    BY DEF StockCommands, oper_forceauth
  <2> QED BY <1>11, <1>15, <2>1, <2>2, <2>3 DEF FromOperators
<1>16. CASE FromMainLoop
  <2>1. ASSUME NEW n \in Names, CheckGuests(n) PROVE SessionStep
    BY <1>10, <2>1 DEF CheckGuests, accounts
  <2>2. ASSUME NEW n \in Names, checkexpired(n) PROVE SessionStep
    BY <1>8, <2>2 DEF checkexpired
  <2> QED BY <1>16, <2>1, <2>2 DEF FromMainLoop
<1> QED BY <1>12, <1>13, <1>14, <1>15, <1>16 DEF Next

\* A session step keeps the tables in step.
LEMMA SessionStepKeepsInv ==
  ASSUME SessionInv, TypeInv', SessionStep
  PROVE  SessionInv'
<1> USE NullFresh, FreedFresh
<1>1. CASE SameSessions /\ users \subseteq users' /\ Connected \subseteq Connected'
  BY <1>1 DEF SameSessions, SessionInv, TypeInv, NoDanglingPointer, SessionsAgree,
              SessionsHaveBothEnds, SvidNamesAccount
<1>2. ASSUME NEW u \in Nicks, NEW n \in Names, Opens(u, n)
      PROVE SessionInv'
  <2>1. /\ u \notin Ghosts(n)
        /\ \A v \in Nicks : v \in Ghosts(n) <=> account[v] = n
    BY <1>2, GhostsAreHolders DEF Opens
  <2>2. \A v \in Nicks : account'[v] = IF v = u THEN n
                                       ELSE IF v \in Ghosts(n) THEN Null ELSE account[v]
    BY <1>2 DEF Opens, NoSession
  <2>3. \A m \in Names : authed_nick'[m] = IF m = n THEN u ELSE authed_nick[m]
    BY <1>2 DEF Opens, SessionInv, TypeInv, TypeOK
  <2>4. links' = {} /\ SvidNamesAccount'
    BY <1>2 DEF Opens, SessionInv, SvidNamesAccount
  <2>5. NoDanglingPointer'
    BY <2>2, <2>3 DEF SessionInv, NoDanglingPointer
  <2>6. SessionsAgree'
    BY <1>2, <2>1, <2>2, <2>3 DEF Opens, SessionInv, SessionsAgree
  <2>7. SessionsHaveBothEnds'
    <3>1. \A m \in Names : m # n => authed_nick[m] \notin Ghosts(n)
      BY <2>1 DEF SessionInv, SessionsAgree, Ghosts
    <3> QED BY <1>2, <2>3, <3>1 DEF Opens, SessionInv, SessionsHaveBothEnds
  <2> QED BY <2>4, <2>5, <2>6, <2>7 DEF SessionInv
<1>3. ASSUME NEW Q \in SUBSET Nicks, Leaves(Q)
      PROVE SessionInv'
  <2>1. \A v \in Nicks : account'[v] = IF v \in Q THEN Null ELSE account[v]
    BY <1>3 DEF Leaves, NoSession
  <2>2. \A m \in Names : authed_nick'[m] = IF authed_nick[m] \in Q THEN Null ELSE authed_nick[m]
    BY <1>3 DEF Leaves
  <2>3. links' = {} /\ SvidNamesAccount'
    BY <1>3 DEF Leaves, SessionInv, SvidNamesAccount
  <2>4. NoDanglingPointer'
    BY <2>1, <2>2 DEF SessionInv, NoDanglingPointer
  <2>5. SessionsAgree'
    BY <2>1, <2>2 DEF SessionInv, SessionsAgree
  <2>6. SessionsHaveBothEnds'
    BY <1>3, <2>2 DEF Leaves, SessionInv, SessionsHaveBothEnds
  <2> QED BY <2>3, <2>4, <2>5, <2>6 DEF SessionInv
<1>4. ASSUME NEW n \in Names, Withdraws(n)
      PROVE SessionInv'
  <2>1. \A v \in Nicks : v \in Ghosts(n) <=> account[v] = n
    BY GhostsAreHolders
  <2>2. \A v \in Nicks : account'[v] = IF v \in Ghosts(n) THEN Null ELSE account[v]
    BY <1>4 DEF Withdraws, NoSession
  <2>3. \A m \in Names : authed_nick'[m] = IF m = n THEN Null ELSE authed_nick[m]
    BY <1>4 DEF Withdraws, SessionInv, TypeInv, TypeOK
  <2>4. links' = {} /\ SvidNamesAccount'
    BY <1>4 DEF Withdraws, SessionInv, SvidNamesAccount
  <2>5. NoDanglingPointer'
    BY <2>2, <2>3 DEF SessionInv, NoDanglingPointer
  <2>6. SessionsAgree'
    BY <2>1, <2>2, <2>3 DEF SessionInv, SessionsAgree
  <2>7. SessionsHaveBothEnds'
    BY <1>4, <2>3 DEF Withdraws, SessionInv, SessionsHaveBothEnds
  <2> QED BY <2>4, <2>5, <2>6, <2>7 DEF SessionInv
<1> QED BY <1>1, <1>2, <1>3, <1>4 DEF SessionStep, Appears, Registers

\* The services start with the tables in step.
LEMMA SessionInit == Init => SessionInv
BY TypeInit, NullFresh, FreedFresh
   DEF Init, SessionInv, NoDanglingPointer, SessionsAgree, SessionsHaveBothEnds, SvidNamesAccount

\* The inductive step of SessionInv.
LEMMA SessionNext == StockCommands /\ SessionInv /\ [Next]_vars => SessionInv' /\ SessionStep
BY TypeNext, NextIsSessionStep, SessionStepKeepsInv DEF SessionInv

\* SessionInv holds at all times.
LEMMA SessionInvariant == StockCommands => (Spec => []SessionInv)
<1> SUFFICES ASSUME StockCommands PROVE Spec => []SessionInv
  OBVIOUS
<1>1. SessionInv /\ [Next]_vars => SessionInv'
  BY SessionNext
<1> QED BY <1>1, SessionInit, PTL DEF Spec

\* No handler leaves a pointer to a freed nick or account behind.
THEOREM NoUseAfterFree == StockCommands => (Spec => []NoDanglingPointer)
BY SessionInvariant, PTL DEF SessionInv

\* nick->account and user->authed_nick always mirror each other.
THEOREM SessionTablesAgree == StockCommands => (Spec => []SessionsAgree)
BY SessionInvariant, PTL DEF SessionInv

\* A session always joins a connection and a registered account.
THEOREM SessionEndsExist == StockCommands => (Spec => []SessionsHaveBothEnds)
BY SessionInvariant, PTL DEF SessionInv

\* The network's SVIDs are the services' sessions.
THEOREM SvidsFollowSessions == StockCommands => (Spec => []SvidNamesAccount)
BY SessionInvariant, PTL DEF SessionInv

\* An account is never shared by two connections.
THEOREM ExclusiveSessions == StockCommands => (Spec => []OneSessionPerAccount)
<1>1. SessionInv => OneSessionPerAccount
  BY DEF SessionInv, SessionsAgree, OneSessionPerAccount
<1> QED BY <1>1, SessionInvariant, PTL

\* A session ends only with its nick, its account or a suspension.
THEOREM SessionEnds == StockCommands => (Spec => SessionsEndForAReason)
<1> DEFINE Ends == \A u \in Nicks : account[u] \notin {Null, account'[u]} =>
                     /\ account'[u] = Null
                     /\ \/ name'[u] = Null
                        \/ account[u] \notin users'
                        \/ account[u] \in suspended'
<1> SUFFICES ASSUME StockCommands PROVE Spec => SessionsEndForAReason
  OBVIOUS
<1>1. ASSUME SessionInv, [Next]_vars PROVE [Ends]_vars
  <2> SUFFICES ASSUME NEW v \in Nicks, account[v] \notin {Null, account'[v]}
               PROVE  /\ account'[v] = Null
                      /\ \/ name'[v] = Null
                         \/ account[v] \notin users'
                         \/ account[v] \in suspended'
    OBVIOUS
  <2>1. CASE SameSessions
    BY <2>1 DEF SameSessions
  <2>2. ASSUME NEW u \in Nicks, NEW n \in Names, Opens(u, n)
        PROVE account'[v] = Null /\ name'[v] = Null
    <3>1. v # u /\ v \in Ghosts(n) /\ account'[v] = Null
      BY <2>2 DEF Opens, NoSession
    <3> QED BY <2>2, <3>1 DEF Opens, Connected
  <2>3. ASSUME NEW Q \in SUBSET Nicks, Leaves(Q)
        PROVE account'[v] = Null /\ name'[v] = Null
    BY <2>3 DEF Leaves, NoSession, Connected
  <2>4. ASSUME NEW n \in Names, Withdraws(n)
        PROVE /\ account'[v] = Null
              /\ account[v] \notin users' \/ account[v] \in suspended'
    BY <1>1, <2>4, GhostsAreHolders DEF Withdraws, NoSession
  <2> QED BY <1>1, <2>1, <2>2, <2>3, <2>4, SessionNext DEF SessionStep, Appears, Registers
<1>2. Spec => []SessionInv /\ [][Next]_vars
  BY SessionInvariant, PTL DEF Spec
<1> QED BY <1>1, <1>2, PTL DEF SessionsEndForAReason

-----------------------------------------------------------------------------
(* The tables implement Registry *)

LEMMA StepRefines ==
  ASSUME SessionInv, SessionStep
  PROVE  [Abstract!RegistryNext]_<<Connected, users, account>>
<1> USE NullFresh
<1>1. CASE UNCHANGED <<users, Connected>> /\ SameSessions
  BY <1>1 DEF SameSessions
<1>2. ASSUME NEW u \in Nicks, Appears(u)
      PROVE Abstract!Appear(u)
  BY <1>2 DEF Appears, SameSessions, Abstract!Appear
<1>3. ASSUME NEW u \in Nicks, NEW n \in Names, Registers(u, n)
      PROVE Abstract!Register(u, n)
  BY <1>3 DEF Registers, SameSessions, Abstract!Register
<1>4. ASSUME NEW n \in Names
      PROVE  /\ Abstract!Holders(n) = Ghosts(n)
             /\ Abstract!Close(Ghosts(n)) = NoSession(Ghosts(n))
  BY GhostsAreHolders DEF Abstract!Holders, Abstract!Close, NoSession
<1>5. ASSUME NEW u \in Nicks, NEW n \in Names, Opens(u, n)
      PROVE Abstract!Appear(u) \/ Abstract!Identify(u, n) \/ Abstract!Register(u, n)
  <2>1. account' = Abstract!Open(Abstract!Holders(n), u, n)
    BY <1>4, <1>5 DEF Opens, Abstract!Open
  <2>2. CASE n \in users /\ u \notin Connected
    BY <1>4, <1>5, <2>1, <2>2 DEF Opens, Abstract!Appear
  <2>3. CASE n \in users /\ u \in Connected
    <3>1. u \notin Ghosts(n)
      BY <1>5, GhostsAreHolders DEF Opens
    <3>2. Connected' = Connected \ Abstract!Holders(n)
      BY <1>4, <1>5, <2>3, <3>1 DEF Opens
    <3> QED BY <1>5, <2>1, <2>3, <3>2 DEF Opens, Abstract!Identify
  <2>4. CASE n \notin users
    <3>1. Ghosts(n) = {}
      BY <2>4, GhostsAreHolders
    <3> QED BY <1>4, <1>5, <2>1, <2>4, <3>1 DEF Opens, Abstract!Register
  <2> QED BY <2>2, <2>3, <2>4
<1>6. ASSUME NEW Q \in SUBSET Nicks, Leaves(Q)
      PROVE Abstract!Leave(Q)
  BY <1>6 DEF Leaves, NoSession, Abstract!Leave, Abstract!Close
<1>7. ASSUME NEW n \in Names, Withdraws(n)
      PROVE Abstract!Withdraw(n)
  BY <1>4, <1>7 DEF Withdraws, Abstract!Withdraw
<1> QED BY <1>1, <1>2, <1>3, <1>5, <1>6, <1>7 DEF SessionStep, Abstract!RegistryNext

\* NickServ's tables keep the promise of Registry.
THEOREM RefinesRegistry == StockCommands => (Spec => SessionsAreExclusive)
<1> SUFFICES ASSUME StockCommands PROVE Spec => SessionsAreExclusive
  OBVIOUS
<1>1. Init => Abstract!RegistryInit
  BY DEF Init, Abstract!RegistryInit, Connected
<1>2. SessionInv /\ [Next]_vars => [Abstract!RegistryNext]_<<Connected, users, account>>
  BY SessionNext, StepRefines
<1> QED BY <1>1, <1>2, SessionInvariant, PTL
        DEF Spec, SessionsAreExclusive, Abstract!RegistrySpec, Abstract!rvars

PromiseInv == Abstract!RegistryTypeOK /\ Abstract!Exclusive

\* Every step of the promise keeps sessions exclusive.
LEMMA PromiseStep ==
  ASSUME PromiseInv, [Abstract!RegistryNext]_(Abstract!rvars)
  PROVE  PromiseInv'
<1> USE NullFresh
<1>1. ASSUME NEW u \in Nicks, Abstract!Appear(u)
      PROVE PromiseInv'
  <2>1. CASE Connected' = Connected \cup {u} /\ UNCHANGED <<account, users>>
    BY <2>1 DEF PromiseInv, Abstract!RegistryTypeOK, Abstract!Exclusive
  <2>2. ASSUME NEW n \in users, Connected' = (Connected \ Abstract!Holders(n)) \cup {u},
               account' = Abstract!Open(Abstract!Holders(n), u, n), UNCHANGED users
        PROVE  PromiseInv'
    BY <2>2 DEF PromiseInv, Abstract!RegistryTypeOK, Abstract!Exclusive,
                Abstract!Holders, Abstract!Open, Abstract!Close
  <2> QED BY <1>1, <2>1, <2>2 DEF Abstract!Appear
<1>2. ASSUME NEW Q \in SUBSET Nicks, Abstract!Leave(Q)
      PROVE PromiseInv'
  BY <1>2 DEF Abstract!Leave, PromiseInv, Abstract!RegistryTypeOK, Abstract!Exclusive, Abstract!Close
<1>3. ASSUME NEW u \in Nicks, NEW n \in Names, Abstract!Identify(u, n)
      PROVE PromiseInv'
  BY <1>3 DEF Abstract!Identify, PromiseInv, Abstract!RegistryTypeOK, Abstract!Exclusive,
              Abstract!Holders, Abstract!Open, Abstract!Close
<1>4. ASSUME NEW u \in Nicks, NEW n \in Names, Abstract!Register(u, n)
      PROVE PromiseInv'
  BY <1>4 DEF Abstract!Register, PromiseInv, Abstract!RegistryTypeOK, Abstract!Exclusive,
              Abstract!Open, Abstract!Close
<1>5. ASSUME NEW n \in Names, Abstract!Withdraw(n)
      PROVE PromiseInv'
  BY <1>5 DEF Abstract!Withdraw, PromiseInv, Abstract!RegistryTypeOK, Abstract!Exclusive,
              Abstract!Holders, Abstract!Close
<1>6. CASE UNCHANGED Abstract!rvars
  BY <1>6 DEF Abstract!rvars, PromiseInv, Abstract!RegistryTypeOK, Abstract!Exclusive
<1> QED BY <1>1, <1>2, <1>3, <1>4, <1>5, <1>6 DEF Abstract!RegistryNext

\* What NickServ promises makes every session exclusive, whatever tables keep it.
THEOREM RegistryExclusive == Abstract!RegistrySpec => []Abstract!Exclusive
<1>1. Abstract!RegistryInit => PromiseInv
  BY NullFresh DEF Abstract!RegistryInit, PromiseInv, Abstract!RegistryTypeOK, Abstract!Exclusive
<1>2. PromiseInv /\ [Abstract!RegistryNext]_(Abstract!rvars) => PromiseInv'
  BY PromiseStep
<1>3. PromiseInv => Abstract!Exclusive
  BY DEF PromiseInv
<1> QED BY <1>1, <1>2, <1>3, PTL DEF Abstract!RegistrySpec

-----------------------------------------------------------------------------
(***************************************************************************)
(* Guests.  These hold with every command, LINK and FORCEAUTH included.    *)
(***************************************************************************)
GuestInv == TypeInv /\ GuestsHoldNames

\* userquit takes the guest entries of the nicks that leave.
LEMMA GuestsUserquit ==
  ASSUME GuestInv, NEW Q \in SUBSET Nicks, name' = NamesAfterQuit(Q),
         guests' = GuestsAfterQuit(Q), UNCHANGED users
  PROVE  GuestsHoldNames'
<1> SUFFICES ASSUME NEW n \in guests' PROVE n \in users' /\ \E v \in Nicks : name'[v] = n
  BY DEF GuestsHoldNames, Free
<1>1. n \in guests /\ n \notin {name[u] : u \in Q}
  BY DEF GuestsAfterQuit
<1>2. PICK v \in Nicks : name[v] = n
  BY <1>1 DEF GuestInv, GuestsHoldNames, Free
<1>3. v \notin Q /\ name'[v] = n
  BY <1>1, <1>2 DEF NamesAfterQuit
<1> QED BY <1>1, <1>3 DEF GuestInv, GuestsHoldNames

\* The nick that logs in was connected and stays, or was not and has a free name.
LEMMA GuestsLogin ==
  ASSUME GuestInv, NEW Q \in SUBSET Nicks, NEW u \in Nicks, NEW n, NEW m,
         guests' \subseteq GuestsAfterQuit(Q), UNCHANGED users,
         \/ name' = NamesAfterQuit(Q)
         \/ name[u] = Null /\ name' = [NamesAfterQuit(Q) EXCEPT ![u] = n]
  PROVE  GuestsHoldNames'
<1> SUFFICES ASSUME NEW k \in guests' PROVE k \in users' /\ \E v \in Nicks : name'[v] = k
  BY DEF GuestsHoldNames, Free
<1>1. k \in guests /\ k \notin {name[w] : w \in Q}
  BY DEF GuestsAfterQuit
<1>2. PICK v \in Nicks : name[v] = k /\ k \in Names
  BY <1>1 DEF GuestInv, GuestsHoldNames, Free, TypeInv, TypeOK
<1>3. v \notin Q /\ name'[v] = k
  BY <1>1, <1>2, NullFresh DEF NamesAfterQuit
<1> QED BY <1>1, <1>3 DEF GuestInv, GuestsHoldNames

\* A rename takes the entry of the old name with it.
LEMMA GuestsRename ==
  ASSUME GuestInv, NEW u \in Nicks, NEW n \in Names, m_nick(u, n)
  PROVE  GuestsHoldNames'
<1>1. /\ name' = [name EXCEPT ![u] = n] /\ UNCHANGED users
      /\ \A k \in guests' : (k \in guests /\ k # name[u]) \/ (k = n /\ n \in users)
  BY DEF m_nick, accounts
<1> SUFFICES ASSUME NEW k \in guests' PROVE k \in users' /\ \E v \in Nicks : name'[v] = k
  BY DEF GuestsHoldNames, Free
<1>2. CASE k = n /\ n \in users
  BY <1>1, <1>2 DEF GuestInv, TypeInv, TypeOK
<1>3. CASE k \in guests /\ k # name[u]
  <2>1. PICK v \in Nicks : name[v] = k
    BY <1>3 DEF GuestInv, GuestsHoldNames, Free
  <2>2. v # u /\ name'[v] = k
    BY <1>1, <1>3, <2>1 DEF GuestInv, TypeInv, TypeOK
  <2> QED BY <1>1, <1>3, <2>2 DEF GuestInv, GuestsHoldNames
<1> QED BY <1>1, <1>2, <1>3

\* Every handler keeps the entries on registered names that are held.
LEMMA GuestsNext == GuestInv /\ [Next]_vars => GuestInv'
<1> SUFFICES ASSUME GuestInv, [Next]_vars PROVE GuestsHoldNames'
  BY TypeNext DEF GuestInv
<1> USE NullFresh, FreedFresh
<1>1. ASSUME NEW u \in Nicks, NEW n \in Names, NEW s \in Names \cup {Null}, NEW r \in BOOLEAN,
             m_uid(u, n, s, r)
      PROVE GuestsHoldNames'
  <2> DEFINE sasl == SaslAccount(n, s)
             byMode == /\ r /\ sasl = Null
                       /\ n \in users /\ ~IsAuthed(n) /\ n \notin suspended
             target == IF byMode THEN n ELSE sasl
             Q == IF sasl = Null THEN {} ELSE Ghosts(sasl)
  <2>1. /\ Q \in SUBSET Nicks /\ name[u] = Null /\ UNCHANGED users
        /\ name' = [NamesAfterQuit(Q) EXCEPT ![u] = n]
    BY <1>1 DEF m_uid, Ghosts, accounts
  <2>2. CASE target # Null
    <3>1. guests' \subseteq GuestsAfterQuit(Q)
      BY <1>1, <2>2 DEF m_uid, user_login
    <3> HIDE DEF Q
    <3> QED BY <2>1, <3>1, GuestsLogin
  <2>3. CASE target = Null
    <3>1. Q = {}
      BY <2>3 DEF GuestInv, TypeInv, TypeOK
    <3>2. PICK R : R = {} /\ name' = [NamesAfterQuit(R) EXCEPT ![u] = n]
      BY <2>1, <3>1
    <3>3. \A k \in guests' : k \in guests \/ (k = n /\ n \in users)
      BY <1>1, <2>3 DEF m_uid
    <3>4. name' = [name EXCEPT ![u] = n]
      BY <3>2 DEF NamesAfterQuit, GuestInv, TypeInv, TypeOK
    <3> QED BY <2>1, <3>3, <3>4 DEF GuestInv, GuestsHoldNames, Free, TypeInv, TypeOK
  <2> QED BY <2>2, <2>3
<1>2. ASSUME NEW u \in Nicks, NEW n \in Names, m_nick(u, n)
      PROVE GuestsHoldNames'
  BY <1>2, GuestsRename
<1>3. ASSUME NEW n \in Names, SvsNickObeyed(n)
      PROVE GuestsHoldNames'
  <2>1. CASE UNCHANGED <<sessions, guests, accounts>>
    BY <2>1 DEF sessions, accounts, GuestInv, GuestsHoldNames, Free
  <2> QED BY <1>2, <1>3, <2>1 DEF SvsNickObeyed
<1>4. ASSUME NEW Q \in SUBSET Nicks, userquit(Q), UNCHANGED accounts
      PROVE GuestsHoldNames'
  BY <1>4, GuestsUserquit DEF userquit, accounts
<1>5. CASE cleanup_reconnect
  BY <1>5 DEF cleanup_reconnect, GuestsHoldNames
<1>6. ASSUME NEW u \in Nicks, nick_identify(u)
      PROVE GuestsHoldNames'
  <2>1. PICK n : /\ user_login(Ghosts(n), u, n, n)
                 /\ name' = NamesAfterQuit(Ghosts(n))
                 /\ UNCHANGED users
    BY <1>6 DEF nick_identify, accounts
  <2>2. guests' \subseteq GuestsAfterQuit(Ghosts(n)) /\ Ghosts(n) \in SUBSET Nicks
    BY <2>1 DEF user_login, Ghosts
  <2> QED BY <2>1, <2>2, GuestsLogin
<1>7. ASSUME UNCHANGED name, guests' \subseteq guests, users \subseteq users'
      PROVE GuestsHoldNames'
  BY <1>7 DEF GuestInv, GuestsHoldNames, Free
<1>8. ASSUME NEW u \in Nicks, NEW nm, NEW n, user_login({}, u, nm, n)
      PROVE guests' \subseteq guests
  BY <1>8 DEF user_login, GuestsAfterQuit
<1>9. ASSUME NEW n, userdrop(n)
      PROVE GuestsHoldNames'
  BY <1>9 DEF userdrop, WithoutAccount, GuestInv, GuestsHoldNames, Free
<1>10. CASE UNCHANGED vars
  BY <1>7, <1>10 DEF vars
<1>11. CASE FromUplink
  <2>1. ASSUME NEW u \in Nicks, m_quit(u) PROVE GuestsHoldNames'
    BY <1>4, <2>1 DEF m_quit, accounts
  <2>2. ASSUME NEW Q \in SUBSET Connected, m_squit(Q) PROVE GuestsHoldNames'
    BY <1>4, <2>2 DEF m_squit, Connected, accounts
  <2> QED BY <1>1, <1>2, <1>3, <1>5, <1>11, <2>1, <2>2 DEF FromUplink, UserRenames
<1>12. CASE FromUsers
  <2>1. ASSUME NEW u \in Nicks, nick_register(u) PROVE GuestsHoldNames'
    BY <1>7, <1>8, <2>1 DEF nick_register
  <2>2. ASSUME NEW u \in Nicks, NEW n \in Names, nick_ghost(u, n) PROVE GuestsHoldNames'
    BY <1>4, <2>2 DEF nick_ghost, accounts
  <2>3. ASSUME NEW u \in Nicks, nick_drop(u) PROVE GuestsHoldNames'
    BY <1>9, <2>3 DEF nick_drop
  <2>4. ASSUME NEW u \in Nicks, NEW n \in Names,
               nick_set_protect(u) \/ nick_link(u, n) \/ nick_unlink(u, n)
        PROVE GuestsHoldNames'
    BY <1>7, <2>4 DEF nick_set_protect, nick_link, nick_unlink, sessions
  <2> QED BY <1>6, <1>7, <1>12, <2>1, <2>2, <2>3, <2>4 DEF FromUsers, nick_set_protect, sessions
<1>13. CASE FromOperators
  <2>1. ASSUME NEW u \in Nicks, oper_forceauth(u) PROVE GuestsHoldNames'
    BY <1>7, <1>8, <2>1 DEF oper_forceauth, accounts
  <2>2. ASSUME NEW n \in Names, oper_suspend(n) \/ oper_unsuspend(n) PROVE GuestsHoldNames'
    BY <1>7, <2>2 DEF oper_suspend, oper_unsuspend, sessions
  <2> QED BY <1>9, <1>13, <2>1, <2>2 DEF FromOperators, oper_drop
<1>14. CASE FromMainLoop
  <2>1. ASSUME NEW n \in Names, CheckGuests(n) PROVE GuestsHoldNames'
    BY <1>7, <2>1 DEF CheckGuests, sessions, accounts
  <2> QED BY <1>9, <1>14, <2>1 DEF FromMainLoop, checkexpired
<1> QED BY <1>10, <1>11, <1>12, <1>13, <1>14 DEF Next

\* CheckGuests never asks for the rename of somebody who took a name that is
\* no longer registered, or of nobody.
THEOREM GuestsCorrect == Spec => []GuestsHoldNames
<1>1. Init => GuestInv
  BY TypeInit DEF Init, GuestInv, GuestsHoldNames
<1>2. GuestInv => GuestsHoldNames
  BY DEF GuestInv
<1> QED BY <1>1, <1>2, GuestsNext, PTL DEF Spec

\* The uplink never lets two connections share a name.
NamesUnique == \A u, v \in Nicks : name[u] # Null /\ name[u] = name[v] => u = v

NameInv == TypeInv /\ NamesUnique

\* Every handler keeps the names unique.
LEMMA NamesNext == NameInv /\ [Next]_vars => NameInv'
<1> SUFFICES ASSUME NameInv, [Next]_vars PROVE NamesUnique'
  BY TypeNext DEF NameInv
<1>1. ASSUME NEW Q, name' = NamesAfterQuit(Q)
      PROVE NamesUnique'
  BY <1>1 DEF NamesAfterQuit, NameInv, NamesUnique
<1>2. ASSUME NEW Q, NEW u \in Nicks, NEW n \in Names, Free(n),
             name' = [NamesAfterQuit(Q) EXCEPT ![u] = n]
      PROVE NamesUnique'
  BY <1>2 DEF NamesAfterQuit, NameInv, NamesUnique, Free
<1>3. ASSUME NEW u \in Nicks, NEW n \in Names, m_nick(u, n), Free(n) \/ n = name[u]
      PROVE NamesUnique'
  <2>1. name' = [name EXCEPT ![u] = n]
    BY <1>3 DEF m_nick
  <2> QED BY <1>3, <2>1 DEF NameInv, NamesUnique, Free, TypeInv, TypeOK
<1>4. ASSUME UNCHANGED name
      PROVE NamesUnique'
  BY <1>4 DEF NameInv, NamesUnique
<1>5. CASE FromUplink
  <2>1. ASSUME NEW u \in Nicks, NEW n \in Names, NEW s, NEW r, m_uid(u, n, s, r)
        PROVE NamesUnique'
    <3>1. PICK Q : Free(n) /\ name' = [NamesAfterQuit(Q) EXCEPT ![u] = n]
      BY <2>1 DEF m_uid
    <3> QED BY <1>2, <3>1
  <2>2. ASSUME NEW n \in Names, SvsNickObeyed(n) PROVE NamesUnique'
    BY <1>3, <1>4, <2>2 DEF SvsNickObeyed, sessions
  <2>3. CASE (\E u \in Nicks : m_quit(u)) \/ (\E Q \in SUBSET Connected : m_squit(Q)) \/ cleanup_reconnect
    BY <1>1, <2>3 DEF m_quit, m_squit, userquit, cleanup_reconnect
  <2> QED BY <1>3, <1>5, <2>1, <2>2, <2>3 DEF FromUplink, UserRenames
<1>6. CASE FromUsers
  <2>1. ASSUME NEW u \in Nicks, nick_identify(u) PROVE NamesUnique'
    BY <1>1, <2>1 DEF nick_identify
  <2>2. ASSUME NEW u \in Nicks, NEW n \in Names, nick_ghost(u, n) PROVE NamesUnique'
    BY <1>1, <2>2 DEF nick_ghost, userquit
  <2> QED BY <1>4, <1>6, <2>1, <2>2 DEF FromUsers, nick_register, nick_drop, userdrop,
             nick_set_protect, nick_link, nick_unlink, sessions
<1>7. CASE FromOperators
  BY <1>4, <1>7 DEF FromOperators, oper_drop, userdrop, oper_forceauth, oper_suspend,
                    oper_unsuspend, sessions
<1>8. CASE FromMainLoop
  BY <1>4, <1>8 DEF FromMainLoop, CheckGuests, checkexpired, userdrop, sessions
<1>9. CASE UNCHANGED vars
  BY <1>4, <1>9 DEF vars
<1> QED BY <1>5, <1>6, <1>7, <1>8, <1>9 DEF Next

\* How an entry may go in a step.
GuestEnd(n) ==
  \/ n \in svsnick'
  \/ n \notin users'
  \/ \A u \in Nicks : name[u] = n => name'[u] # n \/ account'[u] = n

\* The entries that a step takes away, action by action.
LEMMA GuestStep ==
  ASSUME "caserename" \notin Features, NameInv, GuestInv, [Next]_vars
  PROVE  \A n \in guests \ guests' : GuestEnd(n)
<1> SUFFICES ASSUME NEW g \in guests, g \notin guests' PROVE GuestEnd(g)
  OBVIOUS
<1> USE NullFresh, FreedFresh
<1>1. g \in Names /\ g # Null
  BY DEF GuestInv, TypeInv, TypeOK
<1>2. ASSUME NEW Q \in SUBSET Nicks, g \notin GuestsAfterQuit(Q),
             \A v \in Q : name'[v] # g
      PROVE GuestEnd(g)
  <2>1. PICK w \in Q : name[w] = g
    BY <1>2 DEF GuestsAfterQuit
  <2>2. \A v \in Nicks : name[v] = g => v = w
    BY <1>1, <2>1 DEF NameInv, NamesUnique
  <2> QED BY <1>2, <2>1, <2>2 DEF GuestEnd
<1>3. ASSUME NEW Q \in SUBSET Nicks, NEW u \in Nicks, NEW n \in Names, NEW m \in Names,
             u \notin Q, user_login(Q, u, n, m),
             \/ Free(n) /\ name' = [NamesAfterQuit(Q) EXCEPT ![u] = n]
             \/ name[u] = n /\ name' = NamesAfterQuit(Q)
      PROVE GuestEnd(g)
  <2>1. \A v \in Q : name'[v] # g
    BY <1>1, <1>3 DEF NamesAfterQuit
  <2>2. CASE g \notin GuestsAfterQuit(Q)
    BY <1>2, <2>1, <2>2
  <2>3. CASE g \in GuestsAfterQuit(Q)
    <3>1. g = n /\ g = m
      BY <1>3, <2>3 DEF user_login
    <3>2. account'[u] = g
      BY <1>3, <3>1 DEF user_login, AccountsAfterQuit
    <3>3. \A v \in Nicks : name[v] = g => v = u
      BY <1>1, <1>3, <3>1 DEF NameInv, NamesUnique, Free
    <3> QED BY <3>2, <3>3 DEF GuestEnd
  <2> QED BY <2>2, <2>3
<1>4. ASSUME NEW u \in Nicks, NEW n \in Names, m_nick(u, n), Free(n)
      PROVE GuestEnd(g)
  <2>1. name' = [name EXCEPT ![u] = n] /\ name[u] # Null /\ n # name[u]
    BY <1>4 DEF m_nick, Free
  <2>2. CASE g = name[u]
    <3>1. \A v \in Nicks : name[v] = g => v = u
      BY <1>1, <2>2 DEF NameInv, NamesUnique
    <3> QED BY <2>1, <2>2, <3>1 DEF GuestEnd, NameInv, TypeInv, TypeOK
  <2>3. CASE g # name[u]
    <3>1. g = n
      BY <1>4, <2>1, <2>3 DEF m_nick
    <3> QED BY <1>4, <3>1 DEF GuestEnd, Free
  <2> QED BY <2>2, <2>3
<1>5. ASSUME NEW n, userdrop(n) PROVE GuestEnd(g)
  BY <1>5 DEF userdrop, WithoutAccount, GuestEnd
<1>6. CASE FromUplink
  <2>1. ASSUME NEW u \in Nicks, NEW n \in Names, NEW s \in Names \cup {Null}, NEW r \in BOOLEAN,
               m_uid(u, n, s, r)
        PROVE GuestEnd(g)
    <3> DEFINE sasl == SaslAccount(n, s)
               byMode == /\ r /\ sasl = Null
                         /\ n \in users /\ ~IsAuthed(n) /\ n \notin suspended
               target == IF byMode THEN n ELSE sasl
               Q == IF sasl = Null THEN {} ELSE Ghosts(sasl)
    <3>1. Q \in SUBSET Nicks /\ name[u] = Null /\ Free(n)
      BY <2>1 DEF m_uid, Ghosts
    <3>2. name' = [NamesAfterQuit(Q) EXCEPT ![u] = n]
      BY <2>1 DEF m_uid
    <3>3. target # Null
      BY <2>1 DEF m_uid
    <3>4. target \in Names /\ user_login(Q, u, n, target)
      BY <2>1, <3>3 DEF m_uid, SaslAccount, NameInv, TypeInv, TypeOK
    <3> HIDE DEF Q, target
    <3>5. CASE u \notin Q
      BY <1>3, <3>1, <3>2, <3>4, <3>5
    <3>6. CASE u \in Q
      <4>1. g # n
        BY <3>1 DEF GuestInv, GuestsHoldNames, Free
      <4>2. g \notin GuestsAfterQuit(Q)
        BY <3>4, <4>1 DEF user_login
      <4>3. \A v \in Q : name'[v] # g
        BY <1>1, <3>1, <3>2, <4>1 DEF NamesAfterQuit
      <4> QED BY <1>2, <3>1, <4>2, <4>3
    <3> QED BY <3>5, <3>6
  <2>2. ASSUME NEW u \in Nicks, NEW n \in Names, UserRenames(u, n) PROVE GuestEnd(g)
    BY <1>4, <2>2 DEF UserRenames
  <2>3. ASSUME NEW n \in Names, SvsNickObeyed(n) PROVE GuestEnd(g)
    BY <1>4, <2>3 DEF SvsNickObeyed
  <2>4. ASSUME NEW Q \in SUBSET Nicks, userquit(Q) PROVE GuestEnd(g)
    BY <1>1, <1>2, <2>4 DEF userquit, NamesAfterQuit
  <2>5. CASE cleanup_reconnect
    BY <1>1, <2>5 DEF cleanup_reconnect, GuestEnd, NamesAfterQuit, Connected
  <2>6. ASSUME NEW u \in Nicks, m_quit(u) PROVE GuestEnd(g)
    BY <2>4, <2>6 DEF m_quit
  <2>7. ASSUME NEW Q \in SUBSET Connected, m_squit(Q) PROVE GuestEnd(g)
    BY <2>4, <2>7 DEF m_squit, Connected
  <2> QED BY <1>6, <2>1, <2>2, <2>3, <2>5, <2>6, <2>7 DEF FromUplink
<1>7. CASE FromUsers
  <2>1. ASSUME NEW u \in Nicks, nick_identify(u) PROVE GuestEnd(g)
    <3>1. PICK n \in Names : /\ n \in users /\ name[u] = n /\ account[u] = Null
                            /\ user_login(Ghosts(n), u, n, n)
                            /\ name' = NamesAfterQuit(Ghosts(n))
      BY <2>1 DEF nick_identify, NameInv, TypeInv, TypeOK
    <3>2. Ghosts(n) \in SUBSET Nicks
      BY DEF Ghosts
    <3>3. CASE u \notin Ghosts(n)
      BY <1>3, <3>1, <3>2, <3>3
    <3>4. CASE u \in Ghosts(n)
      <4>1. \A v \in Ghosts(n) : name'[v] # g
        BY <1>1, <3>1, <3>2 DEF NamesAfterQuit
      <4>2. g \notin GuestsAfterQuit(Ghosts(n))
        BY <3>1, <3>4 DEF user_login, GuestsAfterQuit
      <4> QED BY <1>2, <3>2, <4>1, <4>2
    <3> QED BY <3>3, <3>4
  <2>2. ASSUME NEW u \in Nicks, nick_register(u) PROVE GuestEnd(g)
    <3>1. PICK n \in Names : n = name[u] /\ n \notin users /\ user_login({}, u, n, n)
      BY <2>2 DEF nick_register, find_account, NameInv, TypeInv, TypeOK
    <3>2. g = n
      BY <3>1 DEF user_login, GuestsAfterQuit
    <3> QED BY <3>1, <3>2 DEF GuestInv, GuestsHoldNames
  <2>3. ASSUME NEW u \in Nicks, NEW n \in Names, nick_ghost(u, n) PROVE GuestEnd(g)
    BY <1>1, <1>2, <2>3 DEF nick_ghost, userquit, NamesAfterQuit
  <2> QED BY <1>5, <1>7, <2>1, <2>2, <2>3 DEF FromUsers, nick_drop, nick_set_protect,
             nick_link, nick_unlink
<1>8. CASE FromOperators
  <2>1. ASSUME NEW u \in Nicks, oper_forceauth(u) PROVE GuestEnd(g)
    <3>1. PICK n \in Names : n = name[u] /\ user_login({}, u, n, n) /\ name' = name
      BY <2>1 DEF oper_forceauth, NameInv, TypeInv, TypeOK
    <3>2. name' = NamesAfterQuit({})
      BY <3>1 DEF NamesAfterQuit, NameInv, TypeInv, TypeOK
    <3> QED BY <1>3, <3>1, <3>2
  <2> QED BY <1>5, <1>8, <2>1 DEF FromOperators, oper_drop, oper_suspend, oper_unsuspend
<1>9. CASE FromMainLoop
  BY <1>5, <1>9 DEF FromMainLoop, checkexpired, CheckGuests, GuestEnd
<1>10. CASE UNCHANGED vars
  BY <1>10 DEF vars
<1> QED BY <1>6, <1>7, <1>8, <1>9, <1>10 DEF Next

\* A name stays on notice until its rename is asked for, its account goes, or
\* its holder leaves it or identifies.
THEOREM GuestEnds == "caserename" \notin Features => (Spec => GuestsEndForAReason)
<1> SUFFICES ASSUME "caserename" \notin Features PROVE Spec => GuestsEndForAReason
  OBVIOUS
<1>1. Init => NameInv /\ GuestInv
  BY TypeInit DEF Init, NameInv, NamesUnique, GuestInv, GuestsHoldNames
<1>2. NameInv /\ GuestInv /\ [Next]_vars => NameInv' /\ GuestInv'
  BY NamesNext, GuestsNext
<1>3. NameInv /\ GuestInv /\ [Next]_vars => [\A n \in guests \ guests' : GuestEnd(n)]_vars
  BY GuestStep
<1> QED BY <1>1, <1>2, <1>3, PTL DEF Spec, GuestsEndForAReason, GuestEnd
=============================================================================
