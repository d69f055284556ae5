------------------------------ MODULE Registry ------------------------------
(***************************************************************************)
(* What NickServ promises about identification, without the tables that    *)
(* keep it: a connection is identified to at most one account, an account  *)
(* has at most one connection identified to it, whoever identifies to an   *)
(* account that is in use disconnects the previous holder, and a session   *)
(* ends only with its connection, its account or the account's suspension. *)
(***************************************************************************)
CONSTANTS Nicks, Names, Null

VARIABLES
  online,      \* the connections
  registered,  \* the accounts
  session      \* the account each connection is identified to, or Null

rvars == <<online, registered, session>>

RegistryTypeOK ==
  /\ online \subseteq Nicks
  /\ registered \subseteq Names
  /\ session \in [Nicks -> Names \cup {Null}]

Holders(n) == {u \in Nicks : session[u] = n}

RegistryInit ==
  /\ online = {}
  /\ registered \subseteq Names
  /\ session = [u \in Nicks |-> Null]

\* The sessions once those of Q are over and u, if any, has opened one to n.
Close(Q)      == [u \in Nicks |-> IF u \in Q THEN Null ELSE session[u]]
Open(Q, u, n) == [Close(Q) EXCEPT ![u] = n]

\* A connection appears, identified (SASL, umode +r) or not.
Appear(u) ==
  /\ u \notin online
  /\ \/ online' = online \cup {u} /\ UNCHANGED session
     \/ \E n \in registered :
          /\ online' = (online \ Holders(n)) \cup {u}
          /\ session' = Open(Holders(n), u, n)
  /\ UNCHANGED registered

Leave(Q) ==
  /\ online' = online \ Q
  /\ session' = Close(Q)
  /\ UNCHANGED registered

\* A connection identifies; the previous holder is disconnected.
Identify(u, n) ==
  /\ u \in online /\ session[u] = Null
  /\ n \in registered
  /\ online' = online \ Holders(n)
  /\ session' = Open(Holders(n), u, n)
  /\ UNCHANGED registered

Register(u, n) ==
  /\ u \in online /\ session[u] = Null
  /\ n \notin registered
  /\ registered' = registered \cup {n}
  /\ session' = session \/ session' = Open({}, u, n)
  /\ UNCHANGED online

\* An account is dropped, or suspended: its session is over.
Withdraw(n) ==
  /\ n \in registered
  /\ registered' \in {registered, registered \ {n}}
  /\ session' = Close(Holders(n))
  /\ UNCHANGED online

RegistryNext ==
  \/ \E u \in Nicks : Appear(u)
  \/ \E Q \in SUBSET Nicks : Leave(Q)
  \/ \E u \in Nicks, n \in Names : Identify(u, n) \/ Register(u, n)
  \/ \E n \in Names : Withdraw(n)

RegistrySpec == RegistryInit /\ [][RegistryNext]_rvars

\* No two connections share an account, and a session joins a connection and an
\* account that exist.
Exclusive ==
  /\ \A u, v \in Nicks : session[u] # Null /\ session[u] = session[v] => u = v
  /\ \A u \in Nicks : session[u] # Null => u \in online /\ session[u] \in registered
=============================================================================
