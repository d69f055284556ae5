------------------------------- MODULE Flood -------------------------------
(***************************************************************************)
(* Flood control: how m_privmsg counts the messages of one connection in   *)
(* windows of MessageFlood's seconds and ignores who sent too many, while  *)
(* the settings may be read again.  Only messages to the services by a     *)
(* user who is no operator are counted, and only these are modelled; the   *)
(* counters of two connections have nothing in common.                     *)
(*                                                                         *)
(* Operators ending in _slip are faulty variants, used by no specification *)
(* (README, "What the properties can see").                                *)
(***************************************************************************)
EXTENDS Integers, Sequences

CONSTANTS
  Settings, \* what MessageFlood and IgnoreTime may be set to
  MaxTime,  \* bound: seconds
  MaxHeard  \* bound: messages that get through

ASSUME FloodSettings == Settings \subseteq [nb : Nat \ {0}, time : Nat, ignore : Nat]

VARIABLES
  clock,      \* time(NULL)
  set,        \* the settings in force
  ignored, ignoretime, msgtime, msgnb,   \* those of the nick
  got,        \* when the messages that got through were sent, since the nick appeared
  reread      \* the settings were read again since then

counters == <<ignored, ignoretime, msgtime, msgnb>>
floodvars == <<clock, set, counters, got, reread>>

GetsThrough == got' = Append(got, clock)

\* The message is the first one, or the first after a window.
Expired == clock - msgtime > set.time
Restarts == msgtime = 0 \/ msgnb = 0 \/ (Expired /\ msgnb <= set.nb)

Floods_slip == msgnb >= set.nb /\ ~Restarts   \* the window may be long over

Full_slip == msgnb > set.nb

Full == msgnb >= set.nb

Floods == msgtime # 0 /\ msgnb # 0 /\ ~Expired /\ Full

\* The first message after the time of ignorance ends it; it is not counted.
Forgive ==
  /\ ignored /\ clock - ignoretime > set.ignore
  /\ ignored' = FALSE /\ ignoretime' = 0
  /\ GetsThrough /\ UNCHANGED <<msgtime, msgnb>>

StartWindow ==
  /\ ~ignored /\ Restarts
  /\ msgtime' = clock /\ msgnb' = 1
  /\ GetsThrough /\ UNCHANGED <<ignored, ignoretime>>

\* The message that is too many is lost.
Ignore ==
  /\ ~ignored /\ Floods
  /\ ignored' = TRUE /\ ignoretime' = clock
  /\ UNCHANGED <<msgtime, msgnb, got>>

Count ==
  /\ ~ignored /\ ~Restarts /\ ~Floods
  /\ msgnb' = msgnb + 1
  /\ GetsThrough /\ UNCHANGED <<ignored, ignoretime, msgtime>>

\* A message to the services; of one who is ignored nothing is seen.
m_privmsg ==
  /\ Len(got) < MaxHeard
  /\ Forgive \/ StartWindow \/ Ignore \/ Count
  /\ UNCHANGED <<clock, set, reread>>

\* The configuration is read again, by SIGHUP or an operator.
oper_rehash == set' \in Settings /\ reread' = TRUE /\ UNCHANGED <<clock, counters, got>>

\* The user quits and comes back.
new_nick ==
  /\ ignored' = FALSE /\ ignoretime' = 0 /\ msgtime' = 0 /\ msgnb' = 0
  /\ got' = <<>> /\ reread' = FALSE
  /\ UNCHANGED <<clock, set>>

Second == clock < MaxTime /\ clock' = clock + 1 /\ UNCHANGED <<set, counters, got, reread>>

FloodInit ==
  /\ clock = 1 /\ set \in Settings
  /\ ignored = FALSE /\ ignoretime = 0 /\ msgtime = 0 /\ msgnb = 0
  /\ got = <<>> /\ reread = FALSE

FloodNext == m_privmsg \/ oper_rehash \/ new_nick \/ Second

FloodSpec == FloodInit /\ [][FloodNext]_floodvars

-----------------------------------------------------------------------------
(* Properties *)

\* Nowhere more than twice the number of messages in the time, two windows'.
Holds(s) == \A i \in 1 .. Len(got) : i + 2 * s.nb <= Len(got) => got[i + 2 * s.nb] - got[i] > s.time

\* Whatever pauses a user makes, at most twice MessageFlood's number of messages
\* get through in any of its seconds: a window may end right before the next
\* begins, and the message that ends a time of ignorance is not counted
\* ("the number of messages per X seconds a user (opers excluded) can send to
\* the services", docs/static/child.conf).
FloodIsBounded == ~reread /\ set.ignore >= set.time => Holds(set)

\* Nobody is ignored who did not just send as many messages in as many seconds,
\* of those that got through, whatever settings were read in between.
OnlyFloodersAreIgnored ==
  [][ignored' /\ ~ignored =>
       /\ Len(got) >= set.nb
       /\ \A i \in 1 .. Len(got) : i > Len(got) - set.nb => clock - got[i] <= set.time]_floodvars
=============================================================================
