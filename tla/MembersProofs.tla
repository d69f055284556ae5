--------------------------- MODULE MembersProofs ----------------------------
(***************************************************************************)
(* Proofs about Members, for any finite sets of connections and channels   *)
(* and any bounds: what the services' lists keep, what is missing from     *)
(* them at rest, and what STRICTOP leaves.                                 *)
(***************************************************************************)
EXTENDS Members, FiniteSetTheorems, WellFoundedInduction, TLAPS

-----------------------------------------------------------------------------
(* Numbers and loops *)

LEMMA Least ==
  ASSUME NEW S \in SUBSET Nat, S # {}
  PROVE  \E x \in S : \A y \in S : x <= y
<1>1. PICK R : R = OpToRel(<, Nat)
  OBVIOUS
<1>2. IsWellFoundedOn(R, Nat)
  BY <1>1, NatLessThanWellFounded
<1>3. PICK x \in S : \A y \in S : ~(<<y, x>> \in R)
  BY <1>2, WFMin
<1>4. \A y \in S : <<y, x>> \in R <=> y < x
  BY <1>1 DEF OpToRel
<1>5. \A y \in S : y \in Nat /\ x \in Nat /\ ~(y < x)
  BY <1>3, <1>4
<1> QED BY <1>5

\* The turns from k on, up to the last one.
LEMMA Counting ==
  ASSUME NEW n \in Nat, NEW k \in 0 .. n, NEW S, k \in S,
         \A i \in (k + 1) .. n : i - 1 \in S => i \in S
  PROVE  n \in S
<1> SUFFICES ASSUME n \notin S PROVE FALSE
  OBVIOUS
<1>0. (k .. n) \ S \in SUBSET Nat /\ (k .. n) \ S # {}
  OBVIOUS
<1>1. PICK x \in (k .. n) \ S : \A y \in (k .. n) \ S : x <= y
  BY <1>0, Least
<1>2. x \in (k + 1) .. n
  BY <1>1
<1>3. x - 1 \in k .. n /\ x - 1 \notin (k .. n) \ S
  BY <1>1, <1>2
<1> QED BY <1>1, <1>2, <1>3

\* A loop that stays within a set, turn by turn, has a function of its turns.
Within(step, n, Set) == \A i \in 1 .. n : \A x \in Set : step[i][x] \in Set

\* The function of the turns of a loop that starts with T.
TurnsOf(step, n, Set, T, f) ==
  f \in [0 .. n -> Set] /\ f[0] = T /\ \A i \in 1 .. n : f[i] = step[i][f[i - 1]]

LEMMA Loop ==
  ASSUME NEW n \in Nat, NEW Set, NEW T \in Set, NEW step, Within(step, n, Set)
  PROVE  \E f : TurnsOf(step, n, Set, T, f)
<1>1. PICK S : S = {m \in 0 .. n : \E f \in [0 .. m -> Set] :
                      f[0] = T /\ \A i \in 1 .. m : f[i] = step[i][f[i - 1]]}
  OBVIOUS
<1>2. 0 \in S
  <2>1. PICK f : f = [i \in 0 .. 0 |-> T]
    OBVIOUS
  <2>2. f \in [0 .. 0 -> Set] /\ f[0] = T /\ 0 \in 0 .. n /\ 1 .. 0 = {}
    BY <2>1
  <2> QED BY <1>1, <2>2
<1>3. ASSUME NEW i \in (0 + 1) .. n, i - 1 \in S PROVE i \in S
  <2>1. PICK f \in [0 .. (i - 1) -> Set] :
          f[0] = T /\ \A j \in 1 .. (i - 1) : f[j] = step[j][f[j - 1]]
    BY <1>1, <1>3
  <2>2. i \in 1 .. n /\ i - 1 \in 0 .. (i - 1) /\ i # 0
    BY <1>3
  <2>3. PICK x : x = step[i][f[i - 1]]
    OBVIOUS
  <2>4. f[i - 1] \in Set
    BY <2>1, <2>2
  <2>5. x \in Set
    BY <2>2, <2>3, <2>4 DEF Within
  <2>6. PICK g : g = [j \in 0 .. i |-> IF j = i THEN x ELSE f[j]]
    OBVIOUS
  <2>7. g \in [0 .. i -> Set]
    BY <2>2, <2>5, <2>6
  <2>8. g[0] = T
    BY <2>1, <2>2, <2>6
  <2>9. ASSUME NEW j \in 1 .. i PROVE g[j] = step[j][g[j - 1]]
    <3>1. j - 1 \in 0 .. i /\ j - 1 # i /\ j \in 0 .. i
      BY <2>2, <2>9
    <3>2. g[j - 1] = f[j - 1]
      BY <2>6, <3>1
    <3>3. CASE j = i
      BY <2>3, <2>6, <3>1, <3>2, <3>3
    <3>4. CASE j # i
      <4>1. j \in 1 .. (i - 1)
        BY <2>9, <3>4
      <4> QED BY <2>1, <2>6, <3>1, <3>2, <3>4, <4>1
    <3> QED BY <3>3, <3>4
  <2>10. i \in 0 .. n
    BY <2>2
  <2> QED BY <1>1, <2>7, <2>8, <2>9, <2>10
<1>4. n \in S
  <2>1. 0 \in 0 .. n
    OBVIOUS
  <2> QED BY <1>2, <1>3, <2>1, Counting
<1>5. PICK f \in [0 .. n -> Set] : f[0] = T /\ \A i \in 1 .. n : f[i] = step[i][f[i - 1]]
  BY <1>1, <1>4
<1> QED BY <1>5 DEF TurnsOf

-----------------------------------------------------------------------------
(* Types *)

Lists == UNION {[D -> Seq(Member)] : D \in SUBSET Chans}

NetLine ==
  [type : {"KILL"}, nick : Nicks]
  \cup [type : {"KICK"}, nick : Nicks, chan : Chans]
  \cup [type : {"MODE"}, nick : Nicks, chan : Chans, what : BOOLEAN, flags : SUBSET Statuses]

Told ==
  [type : {"UID"}, nick : Nicks, svid : Users \cup {None}]
  \cup [type : {"QUIT"}, nicks : SUBSET Nicks]
  \cup [type : {"JOIN", "PART", "KICK"}, nick : Nicks, chan : Chans]
  \cup [type : {"SJOIN"}, chan : Chans, list : Seq(Member)]
  \cup [type : {"KICK"}, nick : {Bot}, by : Nicks, chan : Chans]
  \cup [type : {"MODE"}, nick : Nicks, chan : Chans, status : Statuses, what : {TRUE}]
  \cup [type : {"MODE"}, nick : Nicks \cup {Bot}, by : Nicks, chan : Chans, status : Statuses,
        what : {FALSE}]
  \cup [type : {"TOPIC"}, chan : Chans]

TableSet == [wchans : Lists, sent : Seq(NetLine), fault : BOOLEAN]

LEMMA ListsDef ==
  ASSUME NEW w
  PROVE  w \in Lists <=> /\ w = [c \in DOMAIN w |-> w[c]]
                        /\ DOMAIN w \subseteq Chans
                        /\ \A c \in DOMAIN w : w[c] \in Seq(Member)
<1>1. ASSUME w \in Lists PROVE /\ w = [c \in DOMAIN w |-> w[c]]
                              /\ DOMAIN w \subseteq Chans
                              /\ \A c \in DOMAIN w : w[c] \in Seq(Member)
  <2>1. PICK D \in SUBSET Chans : w \in [D -> Seq(Member)]
    BY <1>1 DEF Lists
  <2> QED BY <2>1
<1>2. ASSUME w = [c \in DOMAIN w |-> w[c]], DOMAIN w \subseteq Chans,
             \A c \in DOMAIN w : w[c] \in Seq(Member)
      PROVE  w \in Lists
  <2>1. w \in [DOMAIN w -> Seq(Member)] /\ DOMAIN w \in SUBSET Chans
    BY <1>2
  <2> QED BY <2>1 DEF Lists
<1> QED BY <1>1, <1>2

LEMMA TableFields ==
  ASSUME NEW T \in TableSet
  PROVE  T.wchans \in Lists /\ T.sent \in Seq(NetLine) /\ T.fault \in BOOLEAN
  BY DEF TableSet

LEMMA ToldLine ==
  ASSUME NEW l \in Told
  PROVE  /\ l.type = "UID" => l.nick \in Nicks /\ l.svid \in Users \cup {None}
         /\ l.type = "QUIT" => l.nicks \in SUBSET Nicks
         /\ l.type \in {"JOIN", "PART"} => l.nick \in Nicks /\ l.chan \in Chans
         /\ l.type = "SJOIN" => l.chan \in Chans /\ l.list \in Seq(Member)
         /\ l.type = "KICK" => l.chan \in Chans /\ (l.nick \in Nicks \/ (l.nick = Bot /\ l.by \in Nicks))
         /\ l.type = "MODE" => /\ l.chan \in Chans /\ l.status \in Statuses /\ l.what \in BOOLEAN
                              /\ (l.what => l.nick \in Nicks)
  BY DEF Told

LEMMA ToldSets ==
  /\ [type : {"UID"}, nick : Nicks, svid : Users \cup {None}] \subseteq Told
  /\ [type : {"QUIT"}, nicks : SUBSET Nicks] \subseteq Told
  /\ [type : {"JOIN", "PART", "KICK"}, nick : Nicks, chan : Chans] \subseteq Told
  /\ [type : {"SJOIN"}, chan : Chans, list : Seq(Member)] \subseteq Told
  /\ [type : {"KICK"}, nick : {Bot}, by : Nicks, chan : Chans] \subseteq Told
  /\ [type : {"MODE"}, nick : Nicks, chan : Chans, status : Statuses, what : {TRUE}] \subseteq Told
  /\ [type : {"MODE"}, nick : Nicks \cup {Bot}, by : Nicks, chan : Chans, status : Statuses,
      what : {FALSE}] \subseteq Told
  /\ [type : {"TOPIC"}, chan : Chans] \subseteq Told
  BY DEF Told

LEMMA SentLine ==
  ASSUME NEW l \in NetLine
  PROVE  /\ l.nick \in Nicks /\ l.type \in {"KILL", "KICK", "MODE"}
         /\ l.type # "KILL" => l.chan \in Chans
         /\ l.type = "MODE" => l.what \in BOOLEAN /\ l.flags \in SUBSET Statuses
  BY DEF NetLine

-----------------------------------------------------------------------------
(* The tables a handler works on *)

LEMMA WithListFields ==
  ASSUME NEW T \in TableSet, NEW c \in Chans, NEW list \in Seq(Member)
  PROVE  /\ WithList(T, c, list) \in TableSet
         /\ WithList(T, c, list).sent = T.sent
         /\ WithList(T, c, list).fault = T.fault
         /\ DOMAIN WithList(T, c, list).wchans = DOMAIN T.wchans \cup {c}
         /\ WithList(T, c, list).wchans[c] = list
         /\ \A d \in DOMAIN T.wchans \ {c} : WithList(T, c, list).wchans[d] = T.wchans[d]
<1>1. PICK w : w = Put(T.wchans, c, list)
  OBVIOUS
<1>2. WithList(T, c, list) = [T EXCEPT !.wchans = w]
  BY <1>1 DEF WithList
<1>3. T.wchans \in Lists
  BY DEF TableSet
<1>4. /\ w = [d \in DOMAIN T.wchans \cup {c} |-> IF d = c THEN list ELSE T.wchans[d]]
  BY <1>1 DEF Put
<1>5. w \in Lists
  BY <1>3, <1>4, ListsDef
<1> QED BY <1>2, <1>4, <1>5 DEF TableSet

LEMMA Found ==
  ASSUME NEW T \in TableSet, NEW c, NEW n, Exists(T, c)
  PROVE  /\ T.wchans[c] \in Seq(Member)
         /\ find_member(T, c, n) \in 0 .. Len(T.wchans[c])
         /\ find_member(T, c, n) # 0 => T.wchans[c][find_member(T, c, n)].nick = n
         /\ find_member(T, c, n) = 0 => \A i \in 1 .. Len(T.wchans[c]) : T.wchans[c][i].nick # n
<1>1. T.wchans[c] \in Seq(Member)
  BY TableFields, ListsDef DEF Exists
<1>2. PICK I : I = {i \in 1 .. Len(T.wchans[c]) : T.wchans[c][i].nick = n}
  OBVIOUS
<1>3. find_member(T, c, n) = IF I # {} THEN Min(I) ELSE 0
  BY <1>2 DEF find_member, SelectInSeq
<1>4. CASE I # {}
  <2>1. I \in SUBSET Nat
    BY <1>2
  <2>2. Min(I) \in I
    BY <1>4, <2>1, Least DEF Min
  <2>3. Min(I) # 0
    BY <1>2, <2>2
  <2> QED BY <1>1, <1>2, <1>3, <1>4, <2>2, <2>3
<1>5. CASE I = {}
  BY <1>1, <1>2, <1>3, <1>5
<1> QED BY <1>4, <1>5

LEMMA ConcatIndex ==
  ASSUME NEW S, NEW s \in Seq(S), NEW t \in Seq(S)
  PROVE  /\ s \o t \in Seq(S) /\ Len(s) \in Nat /\ Len(t) \in Nat /\ Len(s \o t) = Len(s) + Len(t)
         /\ \A i \in 1 .. Len(s) : (s \o t)[i] = s[i]
         /\ \A i \in 1 .. Len(t) : (s \o t)[Len(s) + i] = t[i]
  OBVIOUS

LEMMA Removed ==
  ASSUME NEW list \in Seq(Member), NEW k \in 1 .. Len(list)
  PROVE  /\ RemoveAt(list, k) \in Seq(Member)
         /\ \A i \in 1 .. Len(RemoveAt(list, k)) :
              \E j \in 1 .. Len(list) : RemoveAt(list, k)[i] = list[j]
         /\ \A j \in 1 .. Len(list) : j # k =>
              \E i \in 1 .. Len(RemoveAt(list, k)) : RemoveAt(list, k)[i] = list[j]
<1>1. PICK s, t : s = SubSeq(list, 1, k - 1) /\ t = SubSeq(list, k + 1, Len(list))
  OBVIOUS
<1>2. Len(list) \in Nat /\ k \in Nat /\ k >= 1 /\ k <= Len(list)
  OBVIOUS
<1>3. s \in Seq(Member) /\ Len(s) = k - 1 /\ \A i \in 1 .. k - 1 : s[i] = list[i]
  BY <1>1, <1>2
<1>4. t \in Seq(Member) /\ Len(t) = Len(list) - k /\ \A i \in 1 .. Len(list) - k : t[i] = list[k + i]
  BY <1>1, <1>2
<1>5. PICK r : r = s \o t
  OBVIOUS
<1>6. /\ r \in Seq(Member) /\ Len(r) = Len(list) - 1
      /\ \A i \in 1 .. k - 1 : r[i] = list[i]
      /\ \A i \in k .. Len(list) - 1 : r[i] = list[i + 1]
  <2>0. s \in Seq(Member) /\ t \in Seq(Member)
    BY <1>3, <1>4
  <2>1. /\ r \in Seq(Member) /\ Len(r) = Len(s) + Len(t)
        /\ \A i \in 1 .. Len(s) : r[i] = s[i]
        /\ \A i \in 1 .. Len(t) : r[Len(s) + i] = t[i]
    BY <2>0, <1>5, ConcatIndex
  <2>2. \A i \in 1 .. k - 1 : r[i] = list[i]
    BY <1>3, <2>1
  <2>3. ASSUME NEW i \in k .. Len(list) - 1 PROVE r[i] = list[i + 1]
    <3>1. PICK j : j = i - (k - 1)
      OBVIOUS
    <3>2. j \in 1 .. Len(t) /\ Len(s) + j = i /\ k + j = i + 1
      BY <1>2, <1>3, <1>4, <3>1
    <3>3. r[Len(s) + j] = t[j] /\ t[j] = list[k + j]
      BY <1>4, <2>1, <3>2
    <3> QED BY <3>2, <3>3
  <2>4. Len(r) = Len(list) - 1
    BY <1>2, <1>3, <1>4, <2>1
  <2> QED BY <2>1, <2>2, <2>3, <2>4
<1>7. RemoveAt(list, k) = r
  BY <1>1, <1>5 DEF RemoveAt
<1>8. ASSUME NEW i \in 1 .. Len(r) PROVE \E j \in 1 .. Len(list) : r[i] = list[j]
  <2>1. CASE i <= k - 1
    BY <1>2, <1>6, <2>1
  <2>2. CASE i > k - 1
    <3>1. i \in k .. Len(list) - 1 /\ i + 1 \in 1 .. Len(list)
      BY <1>2, <1>6, <2>2
    <3> QED BY <1>6, <3>1
  <2> QED BY <1>2, <1>6, <2>1, <2>2
<1>9. ASSUME NEW j \in 1 .. Len(list), j # k PROVE \E i \in 1 .. Len(r) : r[i] = list[j]
  <2>1. CASE j < k
    <3>1. j \in 1 .. k - 1 /\ j \in 1 .. Len(r)
      BY <1>2, <1>6, <2>1
    <3> QED BY <1>6, <3>1
  <2>2. CASE j > k
    <3>1. j - 1 \in k .. Len(list) - 1 /\ j - 1 \in 1 .. Len(r) /\ (j - 1) + 1 = j
      BY <1>2, <1>6, <2>2
    <3>2. r[j - 1] = list[(j - 1) + 1]
      BY <1>6, <3>1
    <3> QED BY <3>1, <3>2
  <2> QED BY <1>2, <1>9, <2>1, <2>2
<1> QED BY <1>6, <1>7, <1>8, <1>9

\* What a handler keeps: the members P, each listed unless it has been expelled, lists of the
\* nicks N, no empty lists but those of E, and the lines L.
Listed(w, c, n) == c \in DOMAIN w /\ \E i \in 1 .. Len(w[c]) : w[c][i].nick = n

Expels(l, c, n) == l.nick = n /\ (l.type = "KILL" \/ (l.type = "KICK" /\ l.chan = c))

Expelled(q, c, n) == \E i \in 1 .. Len(q) : Expels(q[i], c, n)

Sends(q, l) == \E i \in 1 .. Len(q) : q[i] = l

Good(P, N, E, L) ==
  {T \in TableSet :
     /\ \A c \in Chans, n \in Nicks : <<c, n>> \in P => Listed(T.wchans, c, n) \/ Expelled(T.sent, c, n)
     /\ \A c \in DOMAIN T.wchans : \A i \in 1 .. Len(T.wchans[c]) : T.wchans[c][i].nick \in N
     /\ \A c \in DOMAIN T.wchans : T.wchans[c] = <<>> => c \in E
     /\ \A l \in L : Sends(T.sent, l)}

LEMMA GoodList ==
  ASSUME NEW P, NEW N, NEW E, NEW L, NEW T \in Good(P, N, E, L), NEW c \in Chans, NEW list \in Seq(Member),
         list = <<>> => c \in E,
         \A i \in 1 .. Len(list) : list[i].nick \in N,
         \A n \in Nicks : <<c, n>> \in P /\ Listed(T.wchans, c, n) => \E i \in 1 .. Len(list) : list[i].nick = n
  PROVE  WithList(T, c, list) \in Good(P, N, E, L)
<1>1. PICK W : W = WithList(T, c, list)
  OBVIOUS
<1>2. /\ T \in TableSet
      /\ \A d \in Chans, n \in Nicks : <<d, n>> \in P => Listed(T.wchans, d, n) \/ Expelled(T.sent, d, n)
      /\ \A d \in DOMAIN T.wchans : \A i \in 1 .. Len(T.wchans[d]) : T.wchans[d][i].nick \in N
      /\ \A d \in DOMAIN T.wchans : T.wchans[d] = <<>> => d \in E
      /\ \A l \in L : Sends(T.sent, l)
  BY DEF Good
<1>3. /\ W \in TableSet /\ W.sent = T.sent
      /\ DOMAIN W.wchans = DOMAIN T.wchans \cup {c}
      /\ W.wchans[c] = list
      /\ \A d \in DOMAIN T.wchans \ {c} : W.wchans[d] = T.wchans[d]
  BY <1>1, <1>2, WithListFields
<1>4. ASSUME NEW d \in Chans, NEW n \in Nicks, <<d, n>> \in P
      PROVE  Listed(W.wchans, d, n) \/ Expelled(W.sent, d, n)
  <2>1. CASE Expelled(T.sent, d, n)
    BY <1>3, <2>1
  <2>2. CASE Listed(T.wchans, d, n) /\ d = c
    <3>1. \E i \in 1 .. Len(list) : list[i].nick = n
      BY <1>4, <2>2
    <3> QED BY <1>3, <2>2, <3>1 DEF Listed
  <2>3. CASE Listed(T.wchans, d, n) /\ d # c
    BY <1>3, <2>3 DEF Listed
  <2> QED BY <1>2, <1>4, <2>1, <2>2, <2>3
<1>5. \A d \in DOMAIN W.wchans : \A i \in 1 .. Len(W.wchans[d]) : W.wchans[d][i].nick \in N
  BY <1>2, <1>3
<1>6. \A d \in DOMAIN W.wchans : W.wchans[d] = <<>> => d \in E
  BY <1>2, <1>3
<1> QED BY <1>1, <1>2, <1>3, <1>4, <1>5, <1>6 DEF Good

LEMMA AppendIndex ==
  ASSUME NEW S, NEW q \in Seq(S), NEW l \in S
  PROVE  /\ Append(q, l) \in Seq(S) /\ Len(q) \in Nat /\ Len(Append(q, l)) = Len(q) + 1
         /\ Append(q, l)[Len(q) + 1] = l
         /\ \A i \in 1 .. Len(q) : Append(q, l)[i] = q[i]
  OBVIOUS

LEMMA GoodSend ==
  ASSUME NEW P, NEW N, NEW E, NEW L, NEW T \in Good(P, N, E, L), NEW l \in NetLine
  PROVE  /\ Send(T, l) \in Good(P, N, E, L \cup {l}) /\ Send(T, l).wchans = T.wchans
<1>1. PICK q : q = Append(T.sent, l)
  OBVIOUS
<1>2. T \in TableSet /\ T.sent \in Seq(NetLine)
  BY DEF Good, TableSet
<1>3. PICK W : W = Send(T, l)
  OBVIOUS
<1>4. W = [T EXCEPT !.sent = q]
  BY <1>1, <1>3 DEF Send
<1>5. /\ q \in Seq(NetLine) /\ Len(T.sent) \in Nat /\ Len(q) = Len(T.sent) + 1 /\ q[Len(T.sent) + 1] = l
      /\ \A i \in 1 .. Len(T.sent) : q[i] = T.sent[i]
  BY <1>1, <1>2, AppendIndex
<1>6. W \in TableSet /\ W.wchans = T.wchans /\ W.sent = q
  BY <1>2, <1>4, <1>5 DEF TableSet
<1>7. \A i \in 1 .. Len(T.sent) : i \in 1 .. Len(q) /\ q[i] = T.sent[i]
  BY <1>5
<1>8. \A c, n : Expelled(T.sent, c, n) => Expelled(q, c, n)
  BY <1>7 DEF Expelled
<1>9. \A m : Sends(T.sent, m) => Sends(q, m)
  BY <1>7 DEF Sends
<1>10. Sends(q, l)
  <2>1. Len(T.sent) + 1 \in 1 .. Len(q)
    BY <1>5
  <2> QED BY <1>5, <2>1 DEF Sends
<1>11. W \in Good(P, N, E, L \cup {l})
  BY <1>6, <1>8, <1>9, <1>10 DEF Good
<1> QED BY <1>3, <1>6, <1>11

LEMMA GoodLess ==
  ASSUME NEW P, NEW N, NEW E, NEW L, NEW P2 \in SUBSET P, NEW N2, N \subseteq N2, NEW E2, E \subseteq E2,
         NEW L2 \in SUBSET L
  PROVE  Good(P, N, E, L) \subseteq Good(P2, N2, E2, L2)
  BY DEF Good

LEMMA GoodExpelled ==
  ASSUME NEW P, NEW N, NEW E, NEW L, NEW c, NEW n, NEW T \in Good(P \ {<<c, n>>}, N, E, L),
         Expelled(T.sent, c, n)
  PROVE  T \in Good(P, N, E, L)
<1>1. \A d, m : <<d, m>> = <<c, n>> => d = c /\ m = n
  OBVIOUS
<1>2. \A d, m : <<d, m>> \in P => (<<d, m>> \in P \ {<<c, n>>}) \/ (d = c /\ m = n)
  BY <1>1
<1> QED BY <1>2 DEF Good

LEMMA GoodLists ==
  ASSUME NEW P, NEW N, NEW E, NEW L, NEW T \in Good(P, N, E, L)
  PROVE  /\ T \in TableSet
         /\ DOMAIN T.wchans \subseteq Chans
         /\ \A c \in DOMAIN T.wchans : /\ T.wchans[c] \in Seq(Member)
                                     /\ \A i \in 1 .. Len(T.wchans[c]) : T.wchans[c][i].nick \in N
  BY TableFields, ListsDef DEF Good

LEMMA MemberIsListed ==
  ASSUME NEW T \in TableSet, NEW c, NEW n
  PROVE  IsMember(T, c, n) <=> Listed(T.wchans, c, n)
<1>1. CASE ~Exists(T, c)
  BY <1>1 DEF IsMember, find_member, Listed, Exists
<1>2. CASE Exists(T, c)
  BY <1>2, Found DEF IsMember, Listed, Exists
<1> QED BY <1>1, <1>2

LEMMA GoodFaulty ==
  ASSUME NEW P, NEW N, NEW E, NEW L, NEW T \in Good(P, N, E, L)
  PROVE  Faulty(T) \in Good(P, N, E, L) /\ Faulty(T).sent = T.sent /\ Faulty(T).wchans = T.wchans
<1>1. PICK W : W = Faulty(T)
  OBVIOUS
<1>2. T \in TableSet
  BY DEF Good
<1>3. W = [T EXCEPT !.fault = TRUE]
  BY <1>1 DEF Faulty
<1>4. W \in TableSet /\ W.wchans = T.wchans /\ W.sent = T.sent
  BY <1>2, <1>3 DEF TableSet
<1> QED BY <1>1, <1>4 DEF Good

LEMMA GoodCreate ==
  ASSUME NEW P, NEW N, NEW E, NEW L, NEW T \in Good(P, N, E, L), NEW c \in Chans,
         c \notin DOMAIN T.wchans => c \in E
  PROVE  /\ CreateWchan(T, c) \in Good(P, N, E, L)
         /\ CreateWchan(T, c).sent = T.sent
         /\ c \in DOMAIN CreateWchan(T, c).wchans
<1>1. CASE Exists(T, c)
  BY <1>1 DEF CreateWchan, Exists
<1>2. CASE ~Exists(T, c)
  <2>1. CreateWchan(T, c) = WithList(T, c, <<>>) /\ c \in E /\ \A n : ~Listed(T.wchans, c, n)
    BY <1>2 DEF CreateWchan, Exists, Listed
  <2>2. <<>> \in Seq(Member) /\ 1 .. Len(<<>>) = {}
    OBVIOUS
  <2>3. WithList(T, c, <<>>) \in Good(P, N, E, L)
    BY <2>1, <2>2, GoodList
  <2>4. T \in TableSet
    BY DEF Good
  <2>5. WithList(T, c, <<>>).sent = T.sent /\ c \in DOMAIN WithList(T, c, <<>>).wchans
    <3>1. PICK e : e = <<>>
      OBVIOUS
    <3>2. e \in Seq(Member)
      BY <2>2, <3>1
    <3>3. WithList(T, c, e).sent = T.sent /\ DOMAIN WithList(T, c, e).wchans = DOMAIN T.wchans \cup {c}
      BY <2>4, <3>2, WithListFields
    <3> QED BY <3>1, <3>3
  <2> QED BY <2>1, <2>3, <2>5
<1> QED BY <1>1, <1>2

LEMMA GoodAdd ==
  ASSUME NEW P, NEW N, NEW E, NEW L, NEW T \in Good(P, N, E, L), NEW c \in DOMAIN T.wchans,
         NEW n \in N \cap Nicks, NEW flags \in SUBSET Statuses
  PROVE  /\ AddUserToWchan(T, n, c, flags) \in Good(P \cup {<<c, n>>}, N, E, L)
         /\ AddUserToWchan(T, n, c, flags).sent = T.sent
         /\ AddUserToWchan(T, n, c, flags).fault = T.fault
         /\ c \in DOMAIN AddUserToWchan(T, n, c, flags).wchans
<1>1. PICK m, list : m = [nick |-> n, flags |-> flags] /\ list = Append(T.wchans[c], m)
  OBVIOUS
<1>2. /\ T \in TableSet /\ c \in Chans /\ T.wchans[c] \in Seq(Member) /\ m \in Member /\ m.nick = n
      /\ \A i \in 1 .. Len(T.wchans[c]) : T.wchans[c][i].nick \in N
  BY <1>1, GoodLists DEF Member
<1>3. /\ list \in Seq(Member) /\ Len(T.wchans[c]) \in Nat /\ Len(list) = Len(T.wchans[c]) + 1
      /\ list[Len(T.wchans[c]) + 1] = m
      /\ \A i \in 1 .. Len(T.wchans[c]) : list[i] = T.wchans[c][i]
  BY <1>1, <1>2, AppendIndex
<1>4. Len(list) \in 1 .. Len(list) /\ list[Len(list)].nick = n /\ list # <<>>
  BY <1>2, <1>3
<1>5. \A i \in 1 .. Len(T.wchans[c]) : i \in 1 .. Len(list)
  BY <1>3
<1>6. \A i \in 1 .. Len(list) : list[i].nick \in N
  <2> TAKE i \in 1 .. Len(list)
  <2>1. i \in 1 .. Len(T.wchans[c]) \/ i = Len(T.wchans[c]) + 1
    BY <1>3
  <2> QED BY <1>2, <1>3, <2>1
<1>7. \A k \in Nicks : Listed(T.wchans, c, k) => \E i \in 1 .. Len(list) : list[i].nick = k
  BY <1>3, <1>5 DEF Listed
<1>8. PICK W : W = WithList(T, c, list)
  OBVIOUS
<1>9. W \in Good(P, N, E, L)
  BY <1>2, <1>3, <1>4, <1>6, <1>7, <1>8, GoodList
<1>10. W.sent = T.sent /\ W.fault = T.fault /\ c \in DOMAIN W.wchans /\ W.wchans[c] = list
  BY <1>2, <1>3, <1>8, WithListFields
<1>11. Listed(W.wchans, c, n)
  BY <1>4, <1>10 DEF Listed
<1>12. \A d, k : <<d, k>> \in P \cup {<<c, n>>} => <<d, k>> \in P \/ (d = c /\ k = n)
  OBVIOUS
<1>13. W \in Good(P \cup {<<c, n>>}, N, E, L)
  BY <1>9, <1>11, <1>12 DEF Good
<1>14. AddUserToWchan(T, n, c, flags) = W
  BY <1>1, <1>8 DEF AddUserToWchan
<1> QED BY <1>10, <1>13, <1>14

LEMMA GoodFlags ==
  ASSUME NEW P, NEW N, NEW E, NEW L, NEW T \in Good(P, N, E, L), NEW c, NEW n, IsMember(T, c, n),
         NEW flags \in SUBSET Statuses
  PROVE  /\ SetFlags(T, c, n, flags) \in Good(P, N, E, L)
         /\ SetFlags(T, c, n, flags).sent = T.sent
         /\ DOMAIN SetFlags(T, c, n, flags).wchans = DOMAIN T.wchans
<1>1. PICK k, list, new : /\ k = find_member(T, c, n) /\ list = T.wchans[c]
                         /\ new = [list EXCEPT ![k] = [nick |-> n, flags |-> flags]]
  OBVIOUS
<1>2. T \in TableSet /\ c \in DOMAIN T.wchans /\ c \in Chans /\ k # 0
  BY <1>1, GoodLists DEF IsMember, find_member, Exists
<1>3. /\ list \in Seq(Member) /\ Len(list) \in Nat /\ k \in 1 .. Len(list) /\ list[k].nick = n
      /\ \A i \in 1 .. Len(list) : list[i].nick \in N
  <2>1. /\ list \in Seq(Member) /\ k \in 0 .. Len(list) /\ list[k].nick = n
        /\ \A i \in 1 .. Len(list) : list[i].nick \in N
    BY <1>1, <1>2, Found, GoodLists DEF Exists
  <2> QED BY <1>2, <2>1
<1>4. [nick |-> n, flags |-> flags] \in Member
  <2>1. list[k] \in Member
    BY <1>3
  <2> QED BY <1>3, <2>1 DEF Member
<1>5. new \in Seq(Member) /\ Len(new) = Len(list)
  BY <1>1, <1>3, <1>4
<1>6. \A i \in 1 .. Len(list) : new[i].nick = list[i].nick
  <2> TAKE i \in 1 .. Len(list)
  <2>1. new[i] = IF i = k THEN [nick |-> n, flags |-> flags] ELSE list[i]
    BY <1>1, <1>3
  <2> QED BY <1>3, <2>1
<1>7. new # <<>>
  BY <1>3, <1>5
<1>8. \A i \in 1 .. Len(new) : new[i].nick \in N
  BY <1>3, <1>5, <1>6
<1>9. \A m \in Nicks : Listed(T.wchans, c, m) => \E i \in 1 .. Len(new) : new[i].nick = m
  BY <1>1, <1>5, <1>6 DEF Listed
<1>10. WithList(T, c, new) \in Good(P, N, E, L)
  BY <1>2, <1>5, <1>7, <1>8, <1>9, GoodList
<1>11. SetFlags(T, c, n, flags) = WithList(T, c, new)
  BY <1>1 DEF SetFlags
<1>12. WithList(T, c, new).sent = T.sent /\ DOMAIN WithList(T, c, new).wchans = DOMAIN T.wchans \cup {c}
  BY <1>2, <1>5, WithListFields
<1> QED BY <1>2, <1>10, <1>11, <1>12

\* A record of n goes: he may be listed no more.
LEMMA GoodDelete ==
  ASSUME NEW P, NEW N, NEW E, NEW L, NEW T \in Good(P, N, E, L), NEW c, NEW n
  PROVE  /\ DeleteUserFromWchan(T, n, c) \in Good(P \ {<<c, n>>}, N, E, L)
         /\ DeleteUserFromWchan(T, n, c).sent = T.sent
         /\ \A d \in DOMAIN T.wchans \ {c} : d \in DOMAIN DeleteUserFromWchan(T, n, c).wchans
<1>1. CASE ~IsMember(T, c, n)
  <2>1. T \in Good(P \ {<<c, n>>}, N, E, L)
    BY GoodLess
  <2> QED BY <1>1, <2>1 DEF DeleteUserFromWchan
<1>2. CASE IsMember(T, c, n)
  <2>1. PICK k, list, rest : k = find_member(T, c, n) /\ list = T.wchans[c] /\ rest = RemoveAt(list, k)
    OBVIOUS
  <2>2. T \in TableSet /\ c \in DOMAIN T.wchans /\ c \in Chans /\ k # 0
    BY <1>2, <2>1, GoodLists DEF IsMember, find_member, Exists
  <2>3. /\ list \in Seq(Member) /\ k \in 1 .. Len(list) /\ list[k].nick = n
        /\ \A i \in 1 .. Len(list) : list[i].nick \in N
    <3>1. /\ list \in Seq(Member) /\ k \in 0 .. Len(list) /\ list[k].nick = n
          /\ \A i \in 1 .. Len(list) : list[i].nick \in N
      BY <2>1, <2>2, Found, GoodLists DEF Exists
    <3> QED BY <2>2, <3>1
  <2>4. /\ rest \in Seq(Member)
        /\ \A i \in 1 .. Len(rest) : \E j \in 1 .. Len(list) : rest[i] = list[j]
        /\ \A j \in 1 .. Len(list) : j # k => \E i \in 1 .. Len(rest) : rest[i] = list[j]
    <3>1. list \in Seq(Member) /\ k \in 1 .. Len(list) /\ rest = RemoveAt(list, k)
      BY <2>1, <2>3
    <3> HIDE <2>1, <2>3
    <3>2. /\ RemoveAt(list, k) \in Seq(Member)
          /\ \A i \in 1 .. Len(RemoveAt(list, k)) : \E j \in 1 .. Len(list) : RemoveAt(list, k)[i] = list[j]
          /\ \A j \in 1 .. Len(list) : j # k =>
               \E i \in 1 .. Len(RemoveAt(list, k)) : RemoveAt(list, k)[i] = list[j]
      BY <3>1, Removed
    <3> QED BY <3>1, <3>2
  <2>5. T \in Good(P \ {<<c, n>>}, N, E, L)
    BY GoodLess
  <2>6. ASSUME NEW m \in Nicks, m # n, Listed(T.wchans, c, m) PROVE \E i \in 1 .. Len(rest) : rest[i].nick = m
    <3>1. PICK j \in 1 .. Len(list) : list[j].nick = m
      BY <2>1, <2>6 DEF Listed
    <3> QED BY <2>3, <2>4, <2>6, <3>1
  <2>7. CASE rest # <<>>
    <3>1. \A i \in 1 .. Len(rest) : rest[i].nick \in N
      BY <2>3, <2>4
    <3>2. \A m \in Nicks : <<c, m>> \in P \ {<<c, n>>} => m # n
      OBVIOUS
    <3>3. WithList(T, c, rest) \in Good(P \ {<<c, n>>}, N, E, L)
      BY <2>2, <2>4, <2>5, <2>6, <2>7, <3>1, <3>2, GoodList
    <3>4. DeleteUserFromWchan(T, n, c) = WithList(T, c, rest)
      BY <1>2, <2>1, <2>7 DEF DeleteUserFromWchan
    <3> QED BY <2>2, <2>4, <3>3, <3>4, WithListFields
  <2>8. CASE rest = <<>>
    <3>1. PICK w : w = [d \in DOMAIN T.wchans \ {c} |-> T.wchans[d]]
      OBVIOUS
    <3>2. PICK W : W = DeleteUserFromWchan(T, n, c)
      OBVIOUS
    <3>3. W = [T EXCEPT !.wchans = w]
      BY <1>2, <2>1, <2>8, <3>1, <3>2 DEF DeleteUserFromWchan, Restrict
    <3>4. w \in Lists
      BY <2>2, <3>1, TableFields, ListsDef
    <3>5. W \in TableSet /\ W.wchans = w /\ W.sent = T.sent
      BY <2>2, <3>3, <3>4 DEF TableSet
    <3>6. \A d, m : Listed(T.wchans, d, m) /\ d # c => Listed(w, d, m)
      BY <3>1 DEF Listed
    <3>7. \A m \in Nicks : m # n => ~Listed(T.wchans, c, m)
      <4>1. Len(rest) = 0
        BY <2>8
      <4> QED BY <2>6, <4>1
    <3>8. ASSUME NEW d \in Chans, NEW m \in Nicks, <<d, m>> \in P \ {<<c, n>>}
          PROVE  Listed(W.wchans, d, m) \/ Expelled(W.sent, d, m)
      <4>1. d # c \/ m # n
        BY <3>8
      <4>2. Listed(T.wchans, d, m) \/ Expelled(T.sent, d, m)
        BY <3>8 DEF Good
      <4> QED BY <3>5, <3>6, <3>7, <4>1, <4>2
    <3>9. W \in Good(P \ {<<c, n>>}, N, E, L)
      BY <3>1, <3>5, <3>8 DEF Good
    <3> QED BY <3>1, <3>2, <3>5, <3>9
  <2> QED BY <2>7, <2>8
<1> QED BY <1>1, <1>2

LEMMA DeleteFields ==
  ASSUME NEW T \in TableSet, NEW c, NEW n
  PROVE  DeleteUserFromWchan(T, n, c).sent = T.sent /\ DeleteUserFromWchan(T, n, c).fault = T.fault
<1>1. PICK rest : rest = RemoveAt(T.wchans[c], find_member(T, c, n))
  OBVIOUS
<1>2. CASE ~IsMember(T, c, n)
  BY <1>2 DEF DeleteUserFromWchan
<1>3. CASE IsMember(T, c, n) /\ rest = <<>>
  BY <1>1, <1>3 DEF DeleteUserFromWchan, TableSet
<1>4. CASE IsMember(T, c, n) /\ rest # <<>>
  BY <1>1, <1>4 DEF DeleteUserFromWchan, TableSet, WithList
<1> QED BY <1>2, <1>3, <1>4

\* KickUser tells whom it takes from the list, if it does anything.
LEMMA GoodKick ==
  ASSUME NEW P, NEW N, NEW E, NEW L, NEW T \in Good(P, N, E, L), NEW c \in Chans, NEW n, nicks \subseteq Nicks
  PROVE  /\ KickUser(T, n, c) \in Good(P, N, E, L)
         /\ KickUser(T, n, c).fault = T.fault
         /\ KickUser(T, n, c) = T \/ KickUser(T, n, c).sent # <<>>
<1>1. CASE n \notin nicks \ Nokick
  BY <1>1 DEF KickUser
<1>2. CASE n \in nicks \ Nokick
  <2>1. PICK D, l : D = DeleteUserFromWchan(T, n, c) /\ l = [type |-> "KICK", nick |-> n, chan |-> c]
    OBVIOUS
  <2>2. l \in NetLine /\ l.type = "KICK" /\ l.nick = n /\ l.chan = c
    BY <1>2, <2>1 DEF NetLine
  <2>3. T \in TableSet
    BY DEF Good
  <2>4. D \in Good(P \ {<<c, n>>}, N, E, L) /\ D.fault = T.fault
    BY <2>1, <2>3, GoodDelete, DeleteFields
  <2>5. PICK W : W = Send(D, l)
    OBVIOUS
  <2>6. W \in Good(P \ {<<c, n>>}, N, E, L \cup {l})
    BY <2>2, <2>4, <2>5, GoodSend
  <2>7. PICK i \in 1 .. Len(W.sent) : W.sent[i] = l
    BY <2>6 DEF Good, Sends
  <2>8. Expelled(W.sent, c, n)
    BY <2>2, <2>7 DEF Expelled, Expels
  <2>9. W \in Good(P, N, E, L \cup {l})
    BY <2>6, <2>8, GoodExpelled
  <2>10. W \in Good(P, N, E, L)
    BY <2>9, GoodLess
  <2>11. W.sent # <<>>
    <3>1. SUFFICES ASSUME W.sent = <<>> PROVE FALSE
      OBVIOUS
    <3>2. Len(W.sent) = 0
      BY <3>1
    <3> QED BY <2>7, <3>2
  <2>12. D \in TableSet
    BY <2>4 DEF Good
  <2>13. W.fault = T.fault
    BY <2>4, <2>5, <2>12 DEF Send, TableSet
  <2>14. KickUser(T, n, c) = W
    BY <1>2, <2>1, <2>5 DEF KickUser
  <2> QED BY <2>10, <2>11, <2>13, <2>14
<1> QED BY <1>1, <1>2

LEMMA FlagsAreStatuses ==
  ASSUME NEW T \in TableSet, NEW c, NEW n, IsMember(T, c, n)
  PROVE  FlagsOf(T, c, n) \in SUBSET Statuses /\ n \in Nicks /\ c \in DOMAIN T.wchans /\ c \in Chans
<1>1. Exists(T, c)
  BY DEF IsMember, find_member
<1>2. PICK k, list : k = find_member(T, c, n) /\ list = T.wchans[c]
  OBVIOUS
<1>3. list \in Seq(Member) /\ k \in 0 .. Len(list) /\ k # 0 /\ list[k].nick = n
  BY <1>1, <1>2, Found DEF IsMember
<1>4. Len(list) \in Nat
  BY <1>3
<1>5. k \in 1 .. Len(list)
  BY <1>3, <1>4
<1>6. list[k] \in Member
  BY <1>3, <1>5
<1>7. T.wchans \in Lists
  BY TableFields
<1> QED BY <1>1, <1>2, <1>3, <1>6, <1>7, ListsDef DEF Exists, FlagsOf, Member

LEMMA GoodStatus ==
  ASSUME NEW P, NEW N, NEW E, NEW L, NEW T \in Good(P, N, E, L), NEW c, NEW n, NEW flags \in SUBSET Statuses,
         NEW what \in BOOLEAN
  PROVE  /\ SetStatus(T, n, c, flags, what) \in Good(P, N, E, L)
         /\ SetStatus(T, n, c, flags, what).fault = T.fault
         /\ DOMAIN SetStatus(T, n, c, flags, what).wchans = DOMAIN T.wchans
<1>1. CASE ~IsMember(T, c, n) \/ flags = {}
  BY <1>1 DEF SetStatus
<1>2. CASE IsMember(T, c, n) /\ flags # {}
  <2>1. PICK new, l, D : /\ new = (IF what THEN FlagsOf(T, c, n) \cup flags ELSE FlagsOf(T, c, n) \ flags)
                        /\ l = [type |-> "MODE", nick |-> n, chan |-> c, what |-> what, flags |-> flags]
                        /\ D = SetFlags(T, c, n, new)
    OBVIOUS
  <2>2. T \in TableSet
    BY DEF Good
  <2>3. FlagsOf(T, c, n) \in SUBSET Statuses /\ n \in Nicks /\ c \in Chans
    BY <1>2, <2>2, FlagsAreStatuses
  <2>4. new \in SUBSET Statuses
    BY <2>1, <2>3
  <2>5. l \in NetLine
    BY <2>1, <2>3 DEF NetLine
  <2>6. D \in Good(P, N, E, L) /\ DOMAIN D.wchans = DOMAIN T.wchans
    BY <1>2, <2>1, <2>4, GoodFlags
  <2>7. D.fault = T.fault
    BY <2>1, <2>2 DEF SetFlags, WithList, TableSet
  <2>8. PICK W : W = Send(D, l)
    OBVIOUS
  <2>9. W \in Good(P, N, E, L \cup {l}) /\ W.wchans = D.wchans
    BY <2>5, <2>6, <2>8, GoodSend
  <2>10. W \in Good(P, N, E, L)
    BY <2>9, GoodLess
  <2>12. D \in TableSet
    BY <2>6 DEF Good
  <2>13. W.fault = T.fault
    BY <2>7, <2>8, <2>12 DEF Send, TableSet
  <2>14. SetStatus(T, n, c, flags, what) = W
    BY <1>2, <2>1, <2>8 DEF SetStatus
  <2> QED BY <2>6, <2>9, <2>10, <2>13, <2>14
<1> QED BY <1>1, <1>2

\* sync_cflag takes a channel away only with a kick.
LEMMA GoodSync ==
  ASSUME NEW P, NEW N, NEW E, NEW L, NEW T \in Good(P, N, E, L), NEW c \in Chans, NEW u, nicks \subseteq Nicks,
         access[c][u] \in Cflag
  PROVE  /\ sync_cflag(T, u, c) \in Good(P, N, E, L)
         /\ sync_cflag(T, u, c).fault = T.fault
         /\ DOMAIN T.wchans \subseteq DOMAIN sync_cflag(T, u, c).wchans \/ sync_cflag(T, u, c).sent # <<>>
<1>1. PICK x, given1 : /\ x = access[c][u]
                      /\ given1 = (IF "AXXFLAGS" \notin options[c] /\ x.auto \subseteq FlagsOf(T, c, u) THEN T
                                   ELSE SetStatus(T, u, c, x.auto, TRUE))
  OBVIOUS
<1>2. PICK taken : taken = IF x.strips THEN SetStatus(given1, u, c, FlagsOf(given1, c, u), FALSE) ELSE given1
  OBVIOUS
<1>3. x.auto \in SUBSET Statuses
  BY <1>1 DEF Cflag
<1>4. given1 \in Good(P, N, E, L) /\ given1.fault = T.fault /\ DOMAIN given1.wchans = DOMAIN T.wchans
  <2>1. PICK yes \in BOOLEAN : yes = TRUE
    OBVIOUS
  <2>2. /\ SetStatus(T, u, c, x.auto, TRUE) \in Good(P, N, E, L)
        /\ SetStatus(T, u, c, x.auto, TRUE).fault = T.fault
        /\ DOMAIN SetStatus(T, u, c, x.auto, TRUE).wchans = DOMAIN T.wchans
    <3>1. /\ SetStatus(T, u, c, x.auto, yes) \in Good(P, N, E, L)
          /\ SetStatus(T, u, c, x.auto, yes).fault = T.fault
          /\ DOMAIN SetStatus(T, u, c, x.auto, yes).wchans = DOMAIN T.wchans
      BY <1>3, GoodStatus
    <3> QED BY <2>1, <3>1
  <2> QED BY <1>1, <2>2
<1>5. taken \in Good(P, N, E, L) /\ taken.fault = T.fault /\ DOMAIN taken.wchans = DOMAIN T.wchans
  <2>1. CASE ~x.strips
    BY <1>2, <1>4, <2>1
  <2>2. CASE x.strips /\ ~IsMember(given1, c, u)
    BY <1>2, <1>4, <2>2 DEF SetStatus
  <2>3. CASE x.strips /\ IsMember(given1, c, u)
    <3>1. given1 \in TableSet
      BY <1>4 DEF Good
    <3>2. FlagsOf(given1, c, u) \in SUBSET Statuses
      BY <2>3, <3>1, FlagsAreStatuses
    <3>3. PICK flags : flags = FlagsOf(given1, c, u)
      OBVIOUS
    <3>4. flags \in SUBSET Statuses
      BY <3>2, <3>3
    <3>6. PICK no \in BOOLEAN : no = FALSE
      OBVIOUS
    <3>7. /\ SetStatus(given1, u, c, flags, no) \in Good(P, N, E, L)
          /\ SetStatus(given1, u, c, flags, no).fault = given1.fault
          /\ DOMAIN SetStatus(given1, u, c, flags, no).wchans = DOMAIN given1.wchans
      BY <1>4, <3>4, GoodStatus
    <3>5. /\ SetStatus(given1, u, c, flags, FALSE) \in Good(P, N, E, L)
          /\ SetStatus(given1, u, c, flags, FALSE).fault = given1.fault
          /\ DOMAIN SetStatus(given1, u, c, flags, FALSE).wchans = DOMAIN given1.wchans
      BY <3>6, <3>7
    <3> QED BY <1>2, <1>4, <2>3, <3>3, <3>5
  <2> QED BY <2>1, <2>2, <2>3
<1>6. /\ KickUser(taken, u, c) \in Good(P, N, E, L) /\ KickUser(taken, u, c).fault = taken.fault
      /\ KickUser(taken, u, c) = taken \/ KickUser(taken, u, c).sent # <<>>
  BY <1>5, GoodKick
<1>7. sync_cflag(T, u, c) \in {T, taken, KickUser(taken, u, c)}
  BY <1>1, <1>2 DEF sync_cflag
<1> QED BY <1>5, <1>6, <1>7

-----------------------------------------------------------------------------
(* Whole nicks that go *)

LEMMA RemainingList ==
  ASSUME NEW list \in Seq(Member), NEW Q
  PROVE  /\ Remaining(list, Q) \in Seq(Member)
         /\ \A i \in 1 .. Len(Remaining(list, Q)) :
              \E j \in 1 .. Len(list) : Remaining(list, Q)[i] = list[j] /\ list[j].nick \notin Q
         /\ \A j \in 1 .. Len(list) : list[j].nick \notin Q =>
              \E i \in 1 .. Len(Remaining(list, Q)) : Remaining(list, Q)[i] = list[j]
<1>1. PICK n : n = Len(list)
  OBVIOUS
<1>2. n \in Nat /\ \A i \in 1 .. n : list[i] \in Member
  BY <1>1
<1>3. PICK step : step = [i \in 1 .. n |-> [x \in Seq(Member) |->
                            IF list[i].nick \in Q THEN x ELSE Append(x, list[i])]]
  OBVIOUS
<1>4. Within(step, n, Seq(Member))
  BY <1>2, <1>3 DEF Within
<1>5. <<>> \in Seq(Member)
  OBVIOUS
<1>6. PICK f \in [0 .. n -> Seq(Member)] : f[0] = <<>> /\ \A i \in 1 .. n : f[i] = step[i][f[i - 1]]
  <2>1. PICK G, e : G = Seq(Member) /\ e = <<>>
    OBVIOUS
  <2>2. n \in Nat /\ e \in G /\ Within(step, n, G)
    BY <1>2, <1>4, <1>5, <2>1
  <2>3. \E f : TurnsOf(step, n, G, e, f)
    BY <2>2, Loop, Zenon
  <2> QED BY <2>1, <2>3 DEF TurnsOf
<1>7. ASSUME NEW i \in 0 .. n, i # 0
      PROVE  /\ i - 1 \in 0 .. n /\ i \in 1 .. n /\ f[i - 1] \in Seq(Member)
             /\ step[i][f[i - 1]] = IF list[i].nick \in Q THEN f[i - 1] ELSE Append(f[i - 1], list[i])
  BY <1>2, <1>3, <1>7
<1>8. f = [i \in 0 .. n |-> IF i = 0 THEN <<>>
                           ELSE IF list[i].nick \in Q THEN f[i - 1] ELSE Append(f[i - 1], list[i])]
  BY <1>6, <1>7
<1>9. PICK g : g = CHOOSE h : h = [i \in 0 .. n |-> IF i = 0 THEN <<>>
                           ELSE IF list[i].nick \in Q THEN h[i - 1] ELSE Append(h[i - 1], list[i])]
  OBVIOUS
<1>10. g = [i \in 0 .. n |-> IF i = 0 THEN <<>>
                           ELSE IF list[i].nick \in Q THEN g[i - 1] ELSE Append(g[i - 1], list[i])]
  BY <1>8, <1>9
<1>11. Remaining(list, Q) = g[n]
  BY <1>1, <1>9 DEF Remaining
<1>12. PICK S : S = {i \in 0 .. n :
         /\ g[i] \in Seq(Member)
         /\ \A k \in 1 .. Len(g[i]) : \E j \in 1 .. n : g[i][k] = list[j] /\ list[j].nick \notin Q
         /\ \A j \in 1 .. i : list[j].nick \notin Q => \E k \in 1 .. Len(g[i]) : g[i][k] = list[j]}
  OBVIOUS
<1>13. 0 \in S
  <2>1. 0 \in 0 .. n /\ g[0] = <<>> /\ 1 .. 0 = {}
    BY <1>2, <1>10
  <2>2. g[0] \in Seq(Member) /\ Len(g[0]) = 0 /\ 1 .. 0 = {}
    BY <2>1
  <2>3. \A k \in 1 .. Len(g[0]) : FALSE
    BY <2>2
  <2>4. \A j \in 1 .. 0 : FALSE
    OBVIOUS
  <2> QED BY <1>12, <2>1, <2>2, <2>3, <2>4
<1>14. ASSUME NEW i \in (0 + 1) .. n, i - 1 \in S PROVE i \in S
  <2>1. i \in 0 .. n /\ i \in 1 .. n /\ i # 0
    BY <1>2
  <2>2. g[i] = IF list[i].nick \in Q THEN g[i - 1] ELSE Append(g[i - 1], list[i])
    BY <1>10, <2>1
  <2>3. PICK s : s = g[i - 1]
    OBVIOUS
  <2>4. /\ s \in Seq(Member)
        /\ \A k \in 1 .. Len(s) : \E j \in 1 .. n : s[k] = list[j] /\ list[j].nick \notin Q
        /\ \A j \in 1 .. (i - 1) : list[j].nick \notin Q => \E k \in 1 .. Len(s) : s[k] = list[j]
    BY <1>12, <1>14, <2>3
  <2>5. \A j \in 1 .. i : j \in 1 .. (i - 1) \/ j = i
    BY <2>1
  <2>6. CASE list[i].nick \in Q
    <3>1. g[i] = s
      BY <2>2, <2>3, <2>6
    <3> QED BY <1>12, <2>1, <2>4, <2>5, <2>6, <3>1
  <2>7. CASE list[i].nick \notin Q
    <3>1. PICK t : t = Append(s, list[i])
      OBVIOUS
    <3>2. g[i] = t
      BY <2>2, <2>3, <2>7, <3>1
    <3>3. /\ t \in Seq(Member) /\ Len(s) \in Nat /\ Len(t) = Len(s) + 1 /\ t[Len(s) + 1] = list[i]
          /\ \A k \in 1 .. Len(s) : t[k] = s[k]
      <4>1. list[i] \in Member
        BY <1>2, <2>1
      <4> QED BY <2>4, <3>1, <4>1, AppendIndex
    <3>4. ASSUME NEW k \in 1 .. Len(t) PROVE \E j \in 1 .. n : t[k] = list[j] /\ list[j].nick \notin Q
      <4>1. k \in 1 .. Len(s) \/ k = Len(s) + 1
        BY <3>3
      <4> QED BY <2>1, <2>4, <2>7, <3>3, <4>1
    <3>5. \A k \in 1 .. Len(s) : k \in 1 .. Len(t)
      BY <3>3
    <3>6. Len(s) + 1 \in 1 .. Len(t)
      BY <3>3
    <3>7. ASSUME NEW j \in 1 .. i, list[j].nick \notin Q PROVE \E k \in 1 .. Len(t) : t[k] = list[j]
      BY <2>4, <2>5, <3>3, <3>5, <3>6, <3>7
    <3> QED BY <1>12, <2>1, <3>2, <3>3, <3>4, <3>7
  <2> QED BY <2>6, <2>7
<1>15. n \in S
  <2>1. 0 \in 0 .. n
    BY <1>2
  <2> QED BY <1>2, <1>13, <1>14, <2>1, Counting
<1> QED BY <1>1, <1>11, <1>12, <1>15

LEMMA GoodQuit ==
  ASSUME NEW P, NEW N, NEW E, NEW L, NEW T \in Good(P, N, E, L), NEW Q
  PROVE  DeleteUsersFromWchans(T, Q) \in Good(P \ (Chans \X Q), N \ Q, E, L)
<1>1. PICK left : left = {c \in DOMAIN T.wchans : \/ T.wchans[c] = <<>>
                                                 \/ \E i \in DOMAIN T.wchans[c] : T.wchans[c][i].nick \notin Q}
  OBVIOUS
<1>2. PICK w, W : w = [c \in left |-> Remaining(T.wchans[c], Q)] /\ W = DeleteUsersFromWchans(T, Q)
  OBVIOUS
<1>3. W = [T EXCEPT !.wchans = w]
  BY <1>1, <1>2 DEF DeleteUsersFromWchans
<1>4. /\ T \in TableSet /\ DOMAIN T.wchans \subseteq Chans
      /\ \A c \in DOMAIN T.wchans : /\ T.wchans[c] \in Seq(Member)
                                  /\ \A i \in 1 .. Len(T.wchans[c]) : T.wchans[c][i].nick \in N
  BY GoodLists
<1>5. ASSUME NEW c \in left
      PROVE  /\ c \in DOMAIN T.wchans /\ T.wchans[c] \in Seq(Member)
             /\ w[c] \in Seq(Member)
             /\ \A i \in 1 .. Len(w[c]) : \E j \in 1 .. Len(T.wchans[c]) :
                  w[c][i] = T.wchans[c][j] /\ T.wchans[c][j].nick \notin Q
             /\ \A j \in 1 .. Len(T.wchans[c]) : T.wchans[c][j].nick \notin Q =>
                  \E i \in 1 .. Len(w[c]) : w[c][i] = T.wchans[c][j]
  <2>1. c \in DOMAIN T.wchans /\ T.wchans[c] \in Seq(Member) /\ w[c] = Remaining(T.wchans[c], Q)
    BY <1>1, <1>2, <1>4
  <2>2. PICK list : list = T.wchans[c]
    OBVIOUS
  <2>3. list \in Seq(Member) /\ w[c] = Remaining(list, Q)
    BY <2>1, <2>2
  <2>4. /\ Remaining(list, Q) \in Seq(Member)
        /\ \A i \in 1 .. Len(Remaining(list, Q)) :
             \E j \in 1 .. Len(list) : Remaining(list, Q)[i] = list[j] /\ list[j].nick \notin Q
        /\ \A j \in 1 .. Len(list) : list[j].nick \notin Q =>
             \E i \in 1 .. Len(Remaining(list, Q)) : Remaining(list, Q)[i] = list[j]
    BY <2>3, RemainingList
  <2> QED BY <2>1, <2>2, <2>3, <2>4
<1>6. w \in Lists
  <2>1. w = [c \in DOMAIN w |-> w[c]] /\ DOMAIN w = left /\ left \subseteq Chans
    BY <1>1, <1>2, <1>4
  <2> QED BY <1>5, <2>1, ListsDef
<1>7. W \in TableSet /\ W.wchans = w /\ W.sent = T.sent
  BY <1>3, <1>4, <1>6 DEF TableSet
<1>8. ASSUME NEW c \in Chans, NEW n \in Nicks, <<c, n>> \in P \ (Chans \X Q)
      PROVE  Listed(W.wchans, c, n) \/ Expelled(W.sent, c, n)
  <2>1. n \notin Q
    BY <1>8
  <2>2. CASE Expelled(T.sent, c, n)
    BY <1>7, <2>2
  <2>3. CASE Listed(T.wchans, c, n)
    <3>1. PICK j \in 1 .. Len(T.wchans[c]) : T.wchans[c][j].nick = n
      BY <2>3 DEF Listed
    <3>2. c \in DOMAIN T.wchans /\ DOMAIN T.wchans[c] = 1 .. Len(T.wchans[c])
      BY <1>4, <2>3 DEF Listed
    <3>3. c \in left
      BY <1>1, <2>1, <3>1, <3>2
    <3>4. PICK i \in 1 .. Len(w[c]) : w[c][i] = T.wchans[c][j]
      BY <1>5, <2>1, <3>1, <3>3
    <3> QED BY <1>2, <1>7, <3>1, <3>3, <3>4 DEF Listed
  <2>4. <<c, n>> \in P
    BY <1>8
  <2>5. Listed(T.wchans, c, n) \/ Expelled(T.sent, c, n)
    BY <2>4 DEF Good
  <2> QED BY <2>2, <2>3, <2>5
<1>9. \A c \in DOMAIN w : \A i \in 1 .. Len(w[c]) : w[c][i].nick \in N \ Q
  <2> SUFFICES ASSUME NEW c \in left, NEW i \in 1 .. Len(w[c]) PROVE w[c][i].nick \in N \ Q
    BY <1>2
  <2>1. PICK j \in 1 .. Len(T.wchans[c]) : w[c][i] = T.wchans[c][j] /\ T.wchans[c][j].nick \notin Q
    BY <1>5
  <2>2. c \in DOMAIN T.wchans
    BY <1>5
  <2>3. T.wchans[c][j].nick \in N
    BY <1>4, <2>2
  <2> QED BY <2>1, <2>3
<1>10. ASSUME NEW c \in DOMAIN w, w[c] = <<>> PROVE c \in E
  <2>1. c \in left /\ Len(w[c]) = 0
    BY <1>2, <1>10
  <2>2. ~\E j \in 1 .. Len(T.wchans[c]) : T.wchans[c][j].nick \notin Q
    BY <1>5, <2>1
  <2>3. DOMAIN T.wchans[c] = 1 .. Len(T.wchans[c])
    BY <1>5, <2>1
  <2>4. T.wchans[c] = <<>> /\ c \in DOMAIN T.wchans
    BY <1>1, <2>1, <2>2, <2>3
  <2> QED BY <2>4 DEF Good
<1>11. \A l \in L : Sends(W.sent, l)
  BY <1>7 DEF Good
<1> QED BY <1>2, <1>7, <1>8, <1>9, <1>10, <1>11 DEF Good

\* SetToSeq lists a finite set.
LEMMA Elements ==
  ASSUME NEW S, IsFiniteSet(S)
  PROVE  /\ SetToSeq(S) \in Seq(S)
         /\ \A x \in S : Sends(SetToSeq(S), x)
<1>1. PICK n, f : n = Cardinality(S) /\ f = SetToSeq(S)
  OBVIOUS
<1>2. n \in Nat /\ \E g : g \in Bijection(1 .. n, S)
  BY <1>1, FS_CardinalityType DEF ExistsBijection
<1>3. \E g \in [1 .. n -> S] : IsInjective(g)
  BY <1>2 DEF Bijection, Injection
<1>4. f \in [1 .. n -> S] /\ IsInjective(f)
  BY <1>1, <1>3 DEF SetToSeq
<1>5. f \in Injection(1 .. n, S)
  BY <1>4 DEF Injection
<1>6. Cardinality(1 .. n) = Cardinality(S)
  BY <1>1, <1>2, FS_Interval
<1>7. f \in Surjection(1 .. n, S)
  BY <1>5, <1>6, FS_Injection
<1>8. f \in Seq(S) /\ Len(f) = n
  BY <1>2, <1>4
<1> QED BY <1>1, <1>7, <1>8 DEF Surjection, Sends

LEMMA GoodKilled ==
  ASSUME NEW P, NEW N, NEW E, NEW L, NEW T \in Good(P, N, E, L), NEW Q \in SUBSET Nicks
  PROVE  /\ Killed(T, Q) \in Good(P, N \ Q, E, L)
         /\ Killed(T, Q).fault = T.fault
         /\ \A n \in Q : Sends(Killed(T, Q).sent, [type |-> "KILL", nick |-> n])
<1>1. PICK kill : kill = [n \in Q |-> [type |-> "KILL", nick |-> n]]
  OBVIOUS
<1>2. PICK K : K = {[type |-> "KILL", nick |-> n] : n \in Q}
  OBVIOUS
<1>3. IsFiniteSet(K)
  <2>1. IsFiniteSet(Q)
    BY Finite, FS_Subset
  <2>2. kill \in Surjection(Q, K)
    BY <1>1, <1>2 DEF Surjection
  <2> QED BY <2>1, <2>2, FS_Surjection
<1>4. PICK s : s = SetToSeq(K)
  OBVIOUS
<1>5. s \in Seq(K) /\ \A x \in K : Sends(s, x)
  BY <1>3, <1>4, Elements
<1>6. K \subseteq NetLine
  BY <1>2 DEF NetLine
<1>7. s \in Seq(NetLine)
  BY <1>5, <1>6
<1>8. PICK D : D = DeleteUsersFromWchans(T, Q)
  OBVIOUS
<1>9. D \in Good(P \ (Chans \X Q), N \ Q, E, L)
  BY <1>8, GoodQuit
<1>10. D \in TableSet /\ D.sent \in Seq(NetLine)
  BY <1>9, TableFields DEF Good
<1>11. PICK q, W : q = D.sent \o s /\ W = [D EXCEPT !.sent = q]
  OBVIOUS
<1>12. Killed(T, Q) = W
  BY <1>2, <1>4, <1>8, <1>11 DEF Killed
<1>13. /\ q \in Seq(NetLine) /\ Len(D.sent) \in Nat /\ Len(s) \in Nat /\ Len(q) = Len(D.sent) + Len(s)
       /\ \A i \in 1 .. Len(D.sent) : q[i] = D.sent[i]
       /\ \A i \in 1 .. Len(s) : q[Len(D.sent) + i] = s[i]
  BY <1>7, <1>10, <1>11, ConcatIndex
<1>14. \A l : Sends(D.sent, l) => Sends(q, l)
  BY <1>13 DEF Sends
<1>15. \A l : Sends(s, l) => Sends(q, l)
  <2> SUFFICES ASSUME NEW l, NEW i \in 1 .. Len(s), s[i] = l PROVE Sends(q, l)
    BY DEF Sends
  <2>1. Len(D.sent) + i \in 1 .. Len(q)
    BY <1>13
  <2> QED BY <1>13, <2>1 DEF Sends
<1>16. ASSUME NEW n \in Q PROVE Sends(q, [type |-> "KILL", nick |-> n])
  <2>1. [type |-> "KILL", nick |-> n] \in K
    BY <1>2
  <2> QED BY <1>5, <1>15, <2>1
<1>17. ASSUME NEW n \in Q, NEW c PROVE Expelled(q, c, n)
  <2>1. PICK l : l = [type |-> "KILL", nick |-> n]
    OBVIOUS
  <2>2. PICK i \in 1 .. Len(q) : q[i] = l
    BY <1>16, <2>1 DEF Sends
  <2> QED BY <2>1, <2>2 DEF Expelled, Expels
<1>18. W \in TableSet /\ W.sent = q /\ W.wchans = D.wchans /\ W.fault = D.fault
  BY <1>10, <1>11, <1>13 DEF TableSet
<1>19. \A c, n : Expelled(D.sent, c, n) => Expelled(q, c, n)
  BY <1>13 DEF Expelled
<1>20. ASSUME NEW c \in Chans, NEW n \in Nicks, <<c, n>> \in P
       PROVE  Listed(W.wchans, c, n) \/ Expelled(W.sent, c, n)
  <2>1. CASE n \in Q
    BY <1>17, <1>18, <2>1
  <2>2. CASE n \notin Q
    <3>1. <<c, n>> \in P \ (Chans \X Q)
      BY <1>20, <2>2
    <3>2. Listed(D.wchans, c, n) \/ Expelled(D.sent, c, n)
      BY <1>9, <3>1 DEF Good
    <3> QED BY <1>18, <1>19, <3>2
  <2> QED BY <2>1, <2>2
<1>21. W \in Good(P, N \ Q, E, L)
  BY <1>9, <1>14, <1>18, <1>20 DEF Good
<1>22. D.fault = T.fault
  <2>1. T \in TableSet
    BY DEF Good
  <2> QED BY <1>8, <2>1 DEF DeleteUsersFromWchans, TableSet
<1> QED BY <1>12, <1>16, <1>18, <1>21, <1>22

-----------------------------------------------------------------------------
(* Loops *)

\* A loop that never leaves a set ends in it.
LEMMA Turns ==
  ASSUME NEW n \in Nat, NEW Set, NEW g, g[0] \in Set,
         \A i \in 1 .. n : g[i - 1] \in Set => g[i] \in Set
  PROVE  g[n] \in Set
<1>1. PICK S : S = {i \in 0 .. n : g[i] \in Set}
  OBVIOUS
<1>2. 0 \in S /\ 0 \in 0 .. n
  BY <1>1
<1>3. ASSUME NEW i \in (0 + 1) .. n, i - 1 \in S PROVE i \in S
  BY <1>1, <1>3
<1>4. n \in S
  BY <1>2, <1>3, Counting
<1> QED BY <1>1, <1>4

LEMMA GoodKickAll ==
  ASSUME NEW P, NEW N, NEW E, NEW L, NEW T \in Good(P, N, E, L), NEW Q, NEW c \in Chans, nicks \subseteq Nicks,
         NEW list \in Seq(Member), list = wchans[c]
  PROVE  KickAll(T, Q, c) \in Good(P, N, E, L)
<1>1. PICK n, G : n = Len(list) /\ G = Good(P, N, E, L)
  OBVIOUS
<1>2. n \in Nat /\ T \in G
  BY <1>1
<1>3. PICK step : step = [i \in 1 .. n |-> [t \in G |->
                            IF list[i].nick \in Q THEN KickUser(t, list[i].nick, c) ELSE t]]
  OBVIOUS
<1>4. \A i \in 1 .. n : \A t \in G : step[i][t] = IF list[i].nick \in Q THEN KickUser(t, list[i].nick, c) ELSE t
  BY <1>3
<1>5. Within(step, n, G)
  <2> SUFFICES ASSUME NEW i \in 1 .. n, NEW t \in G PROVE step[i][t] \in G
    BY DEF Within
  <2>1. KickUser(t, list[i].nick, c) \in G
    BY <1>1, GoodKick
  <2> QED BY <1>4, <2>1
<1>6. PICK f \in [0 .. n -> G] : f[0] = T /\ \A i \in 1 .. n : f[i] = step[i][f[i - 1]]
  <2>1. \E f : TurnsOf(step, n, G, T, f)
    BY <1>2, <1>5, Loop, Zenon
  <2> QED BY <2>1 DEF TurnsOf
<1>7. f = [i \in 0 .. n |-> IF i = 0 THEN T ELSE
                           IF list[i].nick \in Q THEN KickUser(f[i - 1], list[i].nick, c) ELSE f[i - 1]]
  <2>1. ASSUME NEW i \in 0 .. n, i # 0
        PROVE  f[i] = IF list[i].nick \in Q THEN KickUser(f[i - 1], list[i].nick, c) ELSE f[i - 1]
    <3>1. i \in 1 .. n /\ i - 1 \in 0 .. n /\ f[i - 1] \in G
      BY <1>2, <1>6, <2>1
    <3> QED BY <1>4, <1>6, <3>1
  <2> QED BY <1>6, <2>1
<1>8. PICK g : g = CHOOSE h : h = [i \in 0 .. n |-> IF i = 0 THEN T ELSE
                           IF list[i].nick \in Q THEN KickUser(h[i - 1], list[i].nick, c) ELSE h[i - 1]]
  OBVIOUS
<1>9. g = [i \in 0 .. n |-> IF i = 0 THEN T ELSE
                           IF list[i].nick \in Q THEN KickUser(g[i - 1], list[i].nick, c) ELSE g[i - 1]]
  BY <1>7, <1>8
<1>10. KickAll(T, Q, c) = g[n]
  BY <1>1, <1>8 DEF KickAll, Through
<1>11. g[0] \in G
  BY <1>2, <1>9
<1>12. ASSUME NEW i \in 1 .. n, g[i - 1] \in G PROVE g[i] \in G
  <2>1. i \in 0 .. n /\ i # 0
    BY <1>2
  <2>2. g[i] = step[i][g[i - 1]]
    BY <1>4, <1>9, <1>12, <2>1
  <2> QED BY <1>5, <1>12, <2>2 DEF Within
<1>13. g[n] \in G
  <2>1. \A i \in 1 .. n : g[i - 1] \in G => g[i] \in G
    BY <1>12
  <2> HIDE <1>12
  <2> QED BY <1>2, <1>11, <2>1, Turns
<1> QED BY <1>1, <1>10, <1>13

LEMMA AccessIsCflag ==
  ASSUME TypeOK, NEW c \in Chans, NEW u \in Users \cup {None}, HasAccess(u, c)
  PROVE  access[c][u] \in Cflag
<1>1. u \in Users /\ access[c][u] # None
  BY DEF HasAccess
<1>2. setting \in Settings /\ access[c][u] \in setting.accesses
  BY <1>1 DEF TypeOK
<1> QED BY <1>1, <1>2, SettingsKnown

\* The nick's account is one there is.
LEMMA AccountOf ==
  ASSUME TypeOK, NEW n \in Nicks
  PROVE  find_account(n) \in Users \cup {None}
  BY DEF TypeOK, find_account

\* !opall and the like.
LEMMA GoodGiveAll ==
  ASSUME NEW P, NEW N, NEW E, NEW L, NEW T \in Good(P, N, E, L), NEW s \in Statuses, NEW c,
         NEW list \in Seq(Member), list = wchans[c]
  PROVE  GiveAll(T, c, s) \in Good(P, N, E, L)
<1>1. PICK n, G : n = Len(list) /\ G = Good(P, N, E, L)
  OBVIOUS
<1>2. n \in Nat /\ T \in G
  BY <1>1
<1>3. PICK step : step = [i \in 1 .. n |-> [t \in G |-> IF s \in list[i].flags THEN t ELSE SetStatus(t, list[i].nick, c, {s}, TRUE)]]
  OBVIOUS
<1>4. \A i \in 1 .. n : \A t \in G : step[i][t] = IF s \in list[i].flags THEN t ELSE SetStatus(t, list[i].nick, c, {s}, TRUE)
  BY <1>3
<1>5. Within(step, n, G)
  <2> SUFFICES ASSUME NEW i \in 1 .. n, NEW t \in G PROVE step[i][t] \in G
    BY DEF Within
  <2>0. PICK S : S = {s}
    OBVIOUS
  <2>1. PICK yes \in BOOLEAN : yes = TRUE
    OBVIOUS
  <2>2. S \in SUBSET Statuses
    BY <2>0
  <2>3. SetStatus(t, list[i].nick, c, S, yes) \in G
    BY <1>1, <2>2, GoodStatus
  <2> QED BY <1>4, <2>0, <2>1, <2>3
<1>6. PICK f \in [0 .. n -> G] : f[0] = T /\ \A i \in 1 .. n : f[i] = step[i][f[i - 1]]
  <2>1. \E f : TurnsOf(step, n, G, T, f)
    BY <1>2, <1>5, Loop, Zenon
  <2> QED BY <2>1 DEF TurnsOf
<1>7. f = [i \in 0 .. n |-> IF i = 0 THEN T ELSE IF s \in list[i].flags THEN f[i - 1] ELSE SetStatus(f[i - 1], list[i].nick, c, {s}, TRUE)]
  <2>1. ASSUME NEW i \in 0 .. n, i # 0 PROVE f[i] = IF s \in list[i].flags THEN f[i - 1] ELSE SetStatus(f[i - 1], list[i].nick, c, {s}, TRUE)
    <3>1. i \in 1 .. n /\ i - 1 \in 0 .. n /\ f[i - 1] \in G
      BY <1>2, <1>6, <2>1
    <3> QED BY <1>4, <1>6, <3>1
  <2> QED BY <1>6, <2>1
<1>8. PICK g : g = CHOOSE h : h = [i \in 0 .. n |-> IF i = 0 THEN T ELSE IF s \in list[i].flags THEN h[i - 1] ELSE SetStatus(h[i - 1], list[i].nick, c, {s}, TRUE)]
  OBVIOUS
<1>9. g = [i \in 0 .. n |-> IF i = 0 THEN T ELSE IF s \in list[i].flags THEN g[i - 1] ELSE SetStatus(g[i - 1], list[i].nick, c, {s}, TRUE)]
  BY <1>7, <1>8
<1>10. GiveAll(T, c, s) = g[n]
  BY <1>1, <1>8 DEF GiveAll, Through
<1>11. g[0] \in G
  BY <1>2, <1>9
<1>12. ASSUME NEW i \in 1 .. n, g[i - 1] \in G PROVE g[i] \in G
  <2>1. i \in 0 .. n /\ i # 0
    BY <1>2
  <2>2. g[i] = step[i][g[i - 1]]
    BY <1>4, <1>9, <1>12, <2>1
  <2> QED BY <1>5, <1>12, <2>2 DEF Within
<1>13. g[n] \in G
  <2>1. \A i \in 1 .. n : g[i - 1] \in G => g[i] \in G
    BY <1>12
  <2> HIDE <1>12
  <2> QED BY <1>2, <1>11, <2>1, Turns
<1> QED BY <1>1, <1>10, <1>13

LEMMA GoodResync ==
  ASSUME NEW P, NEW N, NEW E, NEW L, NEW T \in Good(P, N, E, L), NEW c \in Chans, NEW m \in Member, TypeOK
  PROVE  ResyncMember(T, c, m) \in Good(P, N, E, L)
<1>1. PICK u, S : u = find_account(m.nick) /\ S = sync_cflag(T, u, c)
  OBVIOUS
<1>2. CASE T.fault \/ u = None \/ ~IsMember(T, c, m.nick)
  BY <1>1, <1>2 DEF ResyncMember
<1>3. CASE /\ ~(T.fault \/ u = None \/ ~IsMember(T, c, m.nick))
           /\ ~IsAuthed(u) \/ ~HasAccess(u, c)
  <2>0. PICK flags : flags = FlagsOf(T, c, m.nick)
    OBVIOUS
  <2>1. PICK no \in BOOLEAN : no = FALSE
    OBVIOUS
  <2>2. flags \in SUBSET Statuses
    <3>1. T \in TableSet
      BY DEF Good
    <3> QED BY <1>3, <2>0, <3>1, FlagsAreStatuses
  <2>3. SetStatus(T, m.nick, c, flags, no) \in Good(P, N, E, L)
    BY <2>2, GoodStatus
  <2> QED BY <1>1, <1>3, <2>0, <2>1, <2>3 DEF ResyncMember
<1>4. CASE /\ ~(T.fault \/ u = None \/ ~IsMember(T, c, m.nick))
           /\ ~(~IsAuthed(u) \/ ~HasAccess(u, c))
  <2>1. access[c][u] \in Cflag /\ nicks \subseteq Nicks
    <3>1. m.nick \in Nicks
      BY DEF Member
    <3>2. HasAccess(u, c)
      BY <1>4
    <3>3. u \in Users \cup {None}
      BY <1>1, <3>1 DEF TypeOK, find_account
    <3> QED BY <3>2, <3>3, AccessIsCflag DEF TypeOK
  <2>2. S \in Good(P, N, E, L)
    BY <1>1, <2>1, GoodSync
  <2>3. Faulty(S) \in Good(P, N, E, L)
    BY <2>2, GoodFaulty
  <2>4. ResyncMember(T, c, m) \in {S, Faulty(S)}
    BY <1>1, <1>4 DEF ResyncMember
  <2> QED BY <2>2, <2>3, <2>4
<1> QED BY <1>2, <1>3, <1>4

\* CHAN RESYNC.
LEMMA GoodResyncAll ==
  ASSUME NEW P, NEW N, NEW E, NEW L, NEW T \in Good(P, N, E, L), NEW c \in Chans, TypeOK,
         NEW list \in Seq(Member), list = wchans[c]
  PROVE  acl_resync(T, c) \in Good(P, N, E, L)
<1>1. PICK n, G : n = Len(list) /\ G = Good(P, N, E, L)
  OBVIOUS
<1>2. n \in Nat /\ T \in G
  BY <1>1
<1>3. PICK step : step = [i \in 1 .. n |-> [t \in G |-> ResyncMember(t, c, list[i])]]
  OBVIOUS
<1>4. \A i \in 1 .. n : \A t \in G : step[i][t] = ResyncMember(t, c, list[i])
  BY <1>3
<1>5. Within(step, n, G)
  <2> SUFFICES ASSUME NEW i \in 1 .. n, NEW t \in G PROVE step[i][t] \in G
    BY DEF Within
  <2>1. list[i] \in Member
    BY <1>1
  <2>2. ResyncMember(t, c, list[i]) \in G
    BY <1>1, <2>1, GoodResync
  <2> QED BY <1>4, <2>2
<1>6. PICK f \in [0 .. n -> G] : f[0] = T /\ \A i \in 1 .. n : f[i] = step[i][f[i - 1]]
  <2>1. \E f : TurnsOf(step, n, G, T, f)
    BY <1>2, <1>5, Loop, Zenon
  <2> QED BY <2>1 DEF TurnsOf
<1>7. f = [i \in 0 .. n |-> IF i = 0 THEN T ELSE ResyncMember(f[i - 1], c, list[i])]
  <2>1. ASSUME NEW i \in 0 .. n, i # 0 PROVE f[i] = ResyncMember(f[i - 1], c, list[i])
    <3>1. i \in 1 .. n /\ i - 1 \in 0 .. n /\ f[i - 1] \in G
      BY <1>2, <1>6, <2>1
    <3> QED BY <1>4, <1>6, <3>1
  <2> QED BY <1>6, <2>1
<1>8. PICK g : g = CHOOSE h : h = [i \in 0 .. n |-> IF i = 0 THEN T ELSE ResyncMember(h[i - 1], c, list[i])]
  OBVIOUS
<1>9. g = [i \in 0 .. n |-> IF i = 0 THEN T ELSE ResyncMember(g[i - 1], c, list[i])]
  BY <1>7, <1>8
<1>10. acl_resync(T, c) = g[n]
  BY <1>1, <1>8 DEF acl_resync, Through
<1>11. g[0] \in G
  BY <1>2, <1>9
<1>12. ASSUME NEW i \in 1 .. n, g[i - 1] \in G PROVE g[i] \in G
  <2>1. i \in 0 .. n /\ i # 0
    BY <1>2
  <2>2. g[i] = step[i][g[i - 1]]
    BY <1>4, <1>9, <1>12, <2>1
  <2> QED BY <1>5, <1>12, <2>2 DEF Within
<1>13. g[n] \in G
  <2>1. \A i \in 1 .. n : g[i - 1] \in G => g[i] \in G
    BY <1>12
  <2> HIDE <1>12
  <2> QED BY <1>2, <1>11, <2>1, Turns
<1> QED BY <1>1, <1>10, <1>13

\* The channels of a user who has just identified.
LEMMA GoodSyncUser ==
  ASSUME NEW P, NEW N, NEW E, NEW L, NEW T \in Good(P, N, E, L), NEW u \in Users, TypeOK,
         NEW list \in Seq(Chans)
  PROVE  sync_user(T, u, list) \in Good(P, N, E, L)
<1>1. PICK n, G : n = Len(list) /\ G = Good(P, N, E, L)
  OBVIOUS
<1>2. n \in Nat /\ T \in G
  BY <1>1
<1>3. PICK step : step = [i \in 1 .. n |-> [t \in G |-> IF HasAccess(u, list[i]) THEN sync_cflag(t, u, list[i]) ELSE t]]
  OBVIOUS
<1>4. \A i \in 1 .. n : \A t \in G : step[i][t] = IF HasAccess(u, list[i]) THEN sync_cflag(t, u, list[i]) ELSE t
  BY <1>3
<1>5. Within(step, n, G)
  <2> SUFFICES ASSUME NEW i \in 1 .. n, NEW t \in G PROVE step[i][t] \in G
    BY DEF Within
  <2>1. list[i] \in Chans /\ nicks \subseteq Nicks
    BY <1>1 DEF TypeOK
  <2>2. CASE HasAccess(u, list[i])
    <3>1. access[list[i]][u] \in Cflag
      BY <2>1, <2>2, AccessIsCflag
    <3>2. sync_cflag(t, u, list[i]) \in G
      BY <1>1, <2>1, <3>1, GoodSync
    <3> QED BY <1>4, <2>2, <3>2
  <2> QED BY <1>4, <2>2
<1>6. PICK f \in [0 .. n -> G] : f[0] = T /\ \A i \in 1 .. n : f[i] = step[i][f[i - 1]]
  <2>1. \E f : TurnsOf(step, n, G, T, f)
    BY <1>2, <1>5, Loop, Zenon
  <2> QED BY <2>1 DEF TurnsOf
<1>7. f = [i \in 0 .. n |-> IF i = 0 THEN T ELSE IF HasAccess(u, list[i]) THEN sync_cflag(f[i - 1], u, list[i]) ELSE f[i - 1]]
  <2>1. ASSUME NEW i \in 0 .. n, i # 0 PROVE f[i] = IF HasAccess(u, list[i]) THEN sync_cflag(f[i - 1], u, list[i]) ELSE f[i - 1]
    <3>1. i \in 1 .. n /\ i - 1 \in 0 .. n /\ f[i - 1] \in G
      BY <1>2, <1>6, <2>1
    <3> QED BY <1>4, <1>6, <3>1
  <2> QED BY <1>6, <2>1
<1>8. PICK g : g = CHOOSE h : h = [i \in 0 .. n |-> IF i = 0 THEN T ELSE IF HasAccess(u, list[i]) THEN sync_cflag(h[i - 1], u, list[i]) ELSE h[i - 1]]
  OBVIOUS
<1>9. g = [i \in 0 .. n |-> IF i = 0 THEN T ELSE IF HasAccess(u, list[i]) THEN sync_cflag(g[i - 1], u, list[i]) ELSE g[i - 1]]
  BY <1>7, <1>8
<1>10. sync_user(T, u, list) = g[n]
  BY <1>1, <1>8 DEF sync_user, Through
<1>11. g[0] \in G
  BY <1>2, <1>9
<1>12. ASSUME NEW i \in 1 .. n, g[i - 1] \in G PROVE g[i] \in G
  <2>1. i \in 0 .. n /\ i # 0
    BY <1>2
  <2>2. g[i] = step[i][g[i - 1]]
    BY <1>4, <1>9, <1>12, <2>1
  <2> QED BY <1>5, <1>12, <2>2 DEF Within
<1>13. g[n] \in G
  <2>1. \A i \in 1 .. n : g[i - 1] \in G => g[i] \in G
    BY <1>12
  <2> HIDE <1>12
  <2> QED BY <1>2, <1>11, <2>1, Turns
<1> QED BY <1>1, <1>10, <1>13

LEMMA GoodMore ==
  ASSUME NEW P, NEW N, NEW E, NEW L, NEW T \in Good(P, N, E, L), NEW c, NEW n,
         Listed(T.wchans, c, n) \/ Expelled(T.sent, c, n)
  PROVE  T \in Good(P \cup {<<c, n>>}, N, E, L)
<1>1. \A d, m : <<d, m>> \in P \cup {<<c, n>>} => <<d, m>> \in P \/ (d = c /\ m = n)
  OBVIOUS
<1> QED BY <1>1 DEF Good

\* SJOIN: the channel is there, or somebody has been kicked.
Held(T, c) == (c \in DOMAIN T.wchans \/ T.sent # <<>>) /\ (T.fault => T.sent # <<>>)

LEMMA GoodSjoinNick ==
  ASSUME NEW P, NEW E, NEW L, NEW N, N = nicks, NEW T \in Good(P, N, E, L), NEW c \in Chans, Held(T, c),
         NEW e \in Member, TypeOK
  PROVE  /\ SjoinNick(T, c, e) \in Good(P, N, E, L)
         /\ Held(SjoinNick(T, c, e), c)
         /\ \/ SjoinNick(T, c, e).fault \/ e.nick \notin N
            \/ SjoinNick(T, c, e) \in Good(P \cup {<<c, e.nick>>}, N, E, L)
<1>1. PICK u, A, S, n : /\ u = find_account(e.nick) /\ A = AddUserToWchan(T, e.nick, c, e.flags)
                       /\ S = sync_cflag(A, u, c) /\ n = e.nick
  OBVIOUS
<1>2. n \in Nicks /\ e.flags \in SUBSET Statuses /\ nicks \subseteq Nicks /\ T \in TableSet
  BY <1>1 DEF Member, TypeOK, Good
<1>3. CASE T.fault \/ n \notin N
  BY <1>1, <1>3 DEF SjoinNick
<1>4. CASE ~T.fault /\ n \in N /\ ~Exists(T, c)
  <2>1. SjoinNick(T, c, e) = Faulty(T)
    BY <1>1, <1>4 DEF SjoinNick
  <2>2. Faulty(T) \in Good(P, N, E, L) /\ Faulty(T).sent = T.sent /\ Faulty(T).wchans = T.wchans
    BY GoodFaulty
  <2>3. Faulty(T).fault = TRUE
    BY <1>2 DEF Faulty, TableSet
  <2> QED BY <1>4, <2>1, <2>2, <2>3 DEF Held, Exists
<1>5. CASE ~T.fault /\ n \in N /\ Exists(T, c) /\ IsMember(T, c, n)
  <2>1. SjoinNick(T, c, e) = T
    BY <1>1, <1>5 DEF SjoinNick
  <2>2. Listed(T.wchans, c, n)
    BY <1>2, <1>5, MemberIsListed
  <2> QED BY <1>1, <2>1, <2>2, GoodMore
<1>6. CASE ~T.fault /\ n \in N /\ Exists(T, c) /\ ~IsMember(T, c, n)
  <2>1. n \in N \cap Nicks /\ c \in DOMAIN T.wchans
    BY <1>2, <1>6 DEF Exists
  <2>2. /\ A \in Good(P \cup {<<c, n>>}, N, E, L) /\ A.sent = T.sent /\ A.fault = T.fault
        /\ c \in DOMAIN A.wchans
    BY <1>1, <1>2, <2>1, GoodAdd
  <2>3. CASE ~(IsAuthed(u) /\ HasAccess(u, c))
    <3>1. SjoinNick(T, c, e) = A
      BY <1>1, <1>6, <2>3 DEF SjoinNick
    <3>2. A \in Good(P, N, E, L)
      BY <2>2, GoodLess
    <3> QED BY <1>1, <1>6, <2>2, <3>1, <3>2 DEF Held
  <2>4. CASE IsAuthed(u) /\ HasAccess(u, c)
    <3>1. SjoinNick(T, c, e) = S
      BY <1>1, <1>6, <2>4 DEF SjoinNick
    <3>2. access[c][u] \in Cflag
      BY <1>1, <1>2, <2>4, AccountOf, AccessIsCflag
    <3>3. /\ S \in Good(P \cup {<<c, n>>}, N, E, L) /\ S.fault = A.fault
          /\ DOMAIN A.wchans \subseteq DOMAIN S.wchans \/ S.sent # <<>>
      BY <1>1, <1>2, <2>2, <3>2, GoodSync
    <3>4. S \in Good(P, N, E, L)
      BY <3>3, GoodLess
    <3>5. Held(S, c)
      BY <1>6, <2>2, <3>3 DEF Held
    <3> QED BY <1>1, <3>1, <3>3, <3>4, <3>5
  <2> QED BY <2>3, <2>4
<1> QED BY <1>3, <1>4, <1>5, <1>6

\* Who has come with the first i records of a list.
Came(c, list, i) == {<<c, n>> : n \in {list[j].nick : j \in 1 .. i} \cap nicks}

LEMMA GoodSjoin ==
  ASSUME NEW P, NEW E, NEW L, NEW N, N = nicks, NEW T \in Good(P, N, E, L), NEW c \in Chans, Held(T, c),
         NEW list \in Seq(Member), TypeOK
  PROVE  /\ SjoinEach(T, c, list) \in Good(P, N, E, L)
         /\ Held(SjoinEach(T, c, list), c)
         /\ \/ SjoinEach(T, c, list).fault
            \/ SjoinEach(T, c, list) \in Good(P \cup Came(c, list, Len(list)), N, E, L)
<1>1. PICK n, G : n = Len(list) /\ G = {t \in Good(P, N, E, L) : Held(t, c)}
  OBVIOUS
<1>2. n \in Nat /\ T \in G
  BY <1>1
<1>3. PICK step : step = [i \in 1 .. n |-> [t \in G |-> SjoinNick(t, c, list[i])]]
  OBVIOUS
<1>4. \A i \in 1 .. n : \A t \in G : step[i][t] = SjoinNick(t, c, list[i])
  BY <1>3
<1>5. ASSUME NEW i \in 1 .. n, NEW t \in G
      PROVE  /\ SjoinNick(t, c, list[i]) \in G
             /\ \A P2 : t \in Good(P2, N, E, L) =>
                  \/ SjoinNick(t, c, list[i]).fault
                  \/ /\ list[i].nick \notin N
                     /\ SjoinNick(t, c, list[i]) \in Good(P2, N, E, L)
                  \/ SjoinNick(t, c, list[i]) \in Good(P2 \cup {<<c, list[i].nick>>}, N, E, L)
  <2>1. list[i] \in Member /\ t \in Good(P, N, E, L) /\ Held(t, c)
    BY <1>1
  <2>2. SjoinNick(t, c, list[i]) \in Good(P, N, E, L) /\ Held(SjoinNick(t, c, list[i]), c)
    BY <2>1, GoodSjoinNick
  <2>3. ASSUME NEW P2, t \in Good(P2, N, E, L)
        PROVE  \/ SjoinNick(t, c, list[i]).fault
               \/ /\ list[i].nick \notin N
                  /\ SjoinNick(t, c, list[i]) \in Good(P2, N, E, L)
               \/ SjoinNick(t, c, list[i]) \in Good(P2 \cup {<<c, list[i].nick>>}, N, E, L)
    BY <2>1, <2>3, GoodSjoinNick
  <2> QED BY <1>1, <2>2, <2>3
<1>6. Within(step, n, G)
  <2> SUFFICES ASSUME NEW i \in 1 .. n, NEW t \in G PROVE step[i][t] \in G
    BY DEF Within
  <2>1. SjoinNick(t, c, list[i]) \in G
    BY <1>5
  <2> QED BY <1>4, <2>1
<1>7. PICK f \in [0 .. n -> G] : f[0] = T /\ \A i \in 1 .. n : f[i] = step[i][f[i - 1]]
  <2>1. \E f : TurnsOf(step, n, G, T, f)
    BY <1>2, <1>6, Loop, Zenon
  <2> QED BY <2>1 DEF TurnsOf
<1>8. f = [i \in 0 .. n |-> IF i = 0 THEN T ELSE SjoinNick(f[i - 1], c, list[i])]
  <2>1. ASSUME NEW i \in 0 .. n, i # 0 PROVE f[i] = SjoinNick(f[i - 1], c, list[i])
    <3>1. i \in 1 .. n /\ i - 1 \in 0 .. n /\ f[i - 1] \in G
      BY <1>2, <1>7, <2>1
    <3> QED BY <1>4, <1>7, <3>1
  <2> QED BY <1>7, <2>1
<1>9. PICK g : g = CHOOSE h : h = [i \in 0 .. n |-> IF i = 0 THEN T ELSE SjoinNick(h[i - 1], c, list[i])]
  OBVIOUS
<1>10. g = [i \in 0 .. n |-> IF i = 0 THEN T ELSE SjoinNick(g[i - 1], c, list[i])]
  BY <1>8, <1>9
<1>11. SjoinEach(T, c, list) = g[n]
  BY <1>1, <1>9 DEF SjoinEach, Through
<1>12. PICK S : S = {i \in 0 .. n : g[i] \in G /\ (g[i].fault \/ g[i] \in Good(P \cup Came(c, list, i), N, E, L))}
  OBVIOUS
<1>13. 0 \in S
  <2>1. 0 \in 0 .. n /\ g[0] = T
    BY <1>2, <1>10
  <2>2. P \cup Came(c, list, 0) = P
    BY DEF Came
  <2> QED BY <1>2, <1>12, <2>1, <2>2
<1>14. ASSUME NEW i \in (0 + 1) .. n, i - 1 \in S PROVE i \in S
  <2>1. i \in 1 .. n /\ i \in 0 .. n /\ i # 0
    BY <1>2
  <2>2. PICK t, P2 : t = g[i - 1] /\ P2 = P \cup Came(c, list, i - 1)
    OBVIOUS
  <2>3. t \in G /\ (t.fault \/ t \in Good(P2, N, E, L))
    BY <1>12, <1>14, <2>2
  <2>4. g[i] = SjoinNick(t, c, list[i])
    BY <1>10, <2>1, <2>2
  <2>5. g[i] \in G
    BY <1>5, <2>1, <2>3, <2>4
  <2>6. CASE t.fault
    BY <1>12, <2>1, <2>3, <2>4, <2>5, <2>6 DEF SjoinNick
  <2>7. CASE ~t.fault
    <3>1. \/ g[i].fault \/ (list[i].nick \notin N /\ g[i] \in Good(P2, N, E, L))
          \/ g[i] \in Good(P2 \cup {<<c, list[i].nick>>}, N, E, L)
      BY <1>5, <2>1, <2>3, <2>4, <2>7
    <3>2. \A j \in 1 .. i : j \in 1 .. (i - 1) \/ j = i
      BY <2>1
    <3>3. list[i].nick \notin N => P \cup Came(c, list, i) \subseteq P2
      BY <2>2, <3>2 DEF Came
    <3>4. P \cup Came(c, list, i) \subseteq P2 \cup {<<c, list[i].nick>>}
      BY <2>2, <3>2 DEF Came
    <3>5. g[i].fault \/ g[i] \in Good(P \cup Came(c, list, i), N, E, L)
      BY <3>1, <3>3, <3>4, GoodLess
    <3> QED BY <1>12, <2>1, <2>5, <3>5
  <2> QED BY <2>6, <2>7
<1>15. n \in S
  <2>1. 0 \in 0 .. n
    BY <1>2
  <2> HIDE <1>14
  <2>2. \A i \in (0 + 1) .. n : i - 1 \in S => i \in S
    BY <1>14
  <2> QED BY <1>2, <1>13, <2>1, <2>2, Counting
<1> QED BY <1>1, <1>11, <1>12, <1>15

-----------------------------------------------------------------------------
(* What a handler leaves *)

Typed == TypeOK /\ wchans \in Lists /\ toServices \in Seq(Told) /\ toNet \in Seq(NetLine)

\* Lines of the network that put a nick into a channel, or take it out.
Comes(l, c, n) ==
  \/ l.type = "JOIN" /\ l.nick = n /\ l.chan = c
  \/ l.type = "SJOIN" /\ l.chan = c /\ \E i \in 1 .. Len(l.list) : l.list[i].nick = n

Departs(l, c, n) ==
  \/ l.type \in {"PART", "KICK"} /\ l.nick = n /\ l.chan = c
  \/ l.type = "QUIT" /\ n \in l.nicks
  \/ l.type = "UID" /\ l.nick = n

QuitSent(l, n) == l.type = "QUIT" /\ n \in l.nicks

KillSent(q, n) == \E i \in 1 .. Len(q) : q[i].type = "KILL" /\ q[i].nick = n

There == {p \in Chans \X Nicks : Listed(wchans, p[1], p[2])}

Full == {c \in DOMAIN wchans : wchans[c] # <<>>}

\* Whom the line l must leave in the lists.
Kept(l) == {p \in Chans \X (Nicks \ Nokick) : \/ (Listed(wchans, p[1], p[2]) /\ ~Departs(l, p[1], p[2]))
                                               \/ (Comes(l, p[1], p[2]) /\ p[2] \in nicks)}

Serves(T, K) ==
  /\ Leave(T)
  /\ T \in Good({}, nicks', Chans \ Full, {})
  /\ T \in Good(K, nicks', Chans \ Full, {}) \/ (T.fault /\ T.sent # <<>>)

LEMMA TablesGood ==
  ASSUME Typed, MembersAreOnline
  PROVE  /\ Tables \in Good(There, nicks, Chans \ Full, {})
         /\ Tables.sent = <<>> /\ Tables.fault = FALSE /\ Tables.wchans = wchans
<1>1. PICK T : T = Tables
  OBVIOUS
<1>2. T.sent = <<>> /\ T.fault = FALSE /\ T.wchans = wchans
  BY <1>1 DEF Tables
<1>3. T \in TableSet
  BY <1>1 DEF Tables, TableSet, Typed
<1>4. \A c \in DOMAIN wchans : /\ wchans[c] \in Seq(Member) /\ c \in Chans
                               /\ \A i \in 1 .. Len(wchans[c]) : wchans[c][i].nick \in nicks
  <2> SUFFICES ASSUME NEW c \in DOMAIN wchans
               PROVE  /\ wchans[c] \in Seq(Member) /\ c \in Chans
                      /\ \A i \in 1 .. Len(wchans[c]) : wchans[c][i].nick \in nicks
    OBVIOUS
  <2>1. wchans[c] \in Seq(Member) /\ c \in Chans
    BY DEF Typed, TypeOK
  <2>2. DOMAIN wchans[c] = 1 .. Len(wchans[c])
    BY <2>1
  <2> QED BY <2>1, <2>2 DEF MembersAreOnline
<1>5. \A c \in Chans, n \in Nicks : <<c, n>> \in There => Listed(wchans, c, n)
  BY DEF There
<1>6. \A c \in DOMAIN wchans : wchans[c] = <<>> => c \in Chans \ Full
  BY <1>4 DEF Full
<1>7. T \in Good(There, nicks, Chans \ Full, {})
  BY <1>2, <1>3, <1>4, <1>5, <1>6 DEF Good
<1> QED BY <1>1, <1>2, <1>7

LEMMA ServesIf ==
  ASSUME NEW P, NEW N, NEW L, NEW K, NEW T \in Good(P, N, Chans \ Full, L), N \subseteq nicks', K \subseteq P, Leave(T)
  PROVE  Serves(T, K)
<1>1. T \in Good(K, nicks', Chans \ Full, {}) /\ T \in Good({}, nicks', Chans \ Full, {})
  BY GoodLess
<1> QED BY <1>1 DEF Serves

LEMMA HeadTail ==
  ASSUME NEW S, NEW q \in Seq(S), q # <<>>
  PROVE  /\ Head(q) = q[1] /\ Head(q) \in S /\ Tail(q) \in Seq(S) /\ Len(q) \in Nat /\ Len(q) >= 1
         /\ Len(Tail(q)) = Len(q) - 1
         /\ \A i \in 1 .. Len(q) - 1 : Tail(q)[i] = q[i + 1]
  OBVIOUS

\* The line that arrives is one the network tells.
LEMMA LineTold ==
  ASSUME Typed, NEW type, Arrives(type)
  PROVE  /\ Line \in Told /\ Line.type = type /\ toServices # <<>> /\ ~fault
  BY HeadTail DEF Typed, Arrives, Line

\* Whose sessions end is killed.
LEMMA UidServes ==
  ASSUME Typed, MembersAreOnline, m_uid
  PROVE  \E T : Serves(T, Kept(Line)) /\ \A n \in nicks \ nicks' : KillSent(T.sent, n)
<1>1. PICK n, u, Q : /\ n = Line.nick
                    /\ u = (IF Line.svid = None THEN None ELSE IF n \in Users THEN n ELSE Line.svid)
                    /\ Q = (IF u = None THEN {} ELSE Sessions(u))
  OBVIOUS
<1>2. user_login(n, u, Q) /\ Leave(Killed(Tables, Q)) /\ Arrives("UID")
  BY <1>1 DEF m_uid
<1>3. PICK T : T = Killed(Tables, Q)
  OBVIOUS
<1>4. Q \in SUBSET Nicks
  BY <1>1 DEF Sessions, Typed, TypeOK
<1>5. /\ T \in Good(There, nicks \ Q, Chans \ Full, {})
      /\ \A k \in Q : Sends(T.sent, [type |-> "KILL", nick |-> k])
  BY <1>3, <1>4, TablesGood, GoodKilled
<1>6. Line.type = "UID"
  BY <1>2, LineTold
<1>7. Kept(Line) \subseteq There
  BY <1>6 DEF Kept, There, Comes
<1>8. nicks \ Q \subseteq nicks' /\ nicks \ nicks' \subseteq Q
  BY <1>2 DEF user_login
<1>9. Serves(T, Kept(Line))
  BY <1>2, <1>3, <1>5, <1>7, <1>8, ServesIf
<1>10. ASSUME NEW k \in Q PROVE KillSent(T.sent, k)
  <2>1. PICK i \in 1 .. Len(T.sent) : T.sent[i] = [type |-> "KILL", nick |-> k]
    BY <1>5 DEF Sends
  <2>2. T.sent[i].type = "KILL" /\ T.sent[i].nick = k
    BY <2>1
  <2> QED BY <2>2 DEF KillSent
<1> QED BY <1>8, <1>9, <1>10

LEMMA QuitServes ==
  ASSUME Typed, MembersAreOnline, m_quit
  PROVE  \E T : Serves(T, Kept(Line)) /\ nicks' = nicks \ Line.nicks
<1>1. PICK T, Q : T = DeleteUsersFromWchans(Tables, Q) /\ Q = Line.nicks
  OBVIOUS
<1>2. Arrives("QUIT") /\ nicks' = nicks \ Q /\ Leave(T)
  BY <1>1 DEF m_quit, Gone
<1>3. T \in Good(There \ (Chans \X Q), nicks \ Q, Chans \ Full, {})
  BY <1>1, TablesGood, GoodQuit
<1>4. Line.type = "QUIT"
  BY <1>2, LineTold
<1>5. Kept(Line) \subseteq There \ (Chans \X Q)
  BY <1>1, <1>4 DEF Kept, There, Comes, Departs
<1>6. Serves(T, Kept(Line))
  BY <1>2, <1>3, <1>5, ServesIf
<1> QED BY <1>1, <1>2, <1>6

LEMMA GoodGives ==
  ASSUME NEW P, NEW N, NEW E, NEW L, NEW T \in Good(P, N, E, L), NEW c, NEW n, NEW flags \in SUBSET Statuses
  PROVE  /\ SetStatus(T, n, c, flags, TRUE) \in Good(P, N, E, L)
         /\ SetStatus(T, n, c, flags, FALSE) \in Good(P, N, E, L)
<1>1. PICK yes \in BOOLEAN, no \in BOOLEAN : yes = TRUE /\ no = FALSE
  OBVIOUS
<1>2. SetStatus(T, n, c, flags, yes) \in Good(P, N, E, L)
  BY GoodStatus
<1>3. SetStatus(T, n, c, flags, no) \in Good(P, N, E, L)
  BY GoodStatus
<1> QED BY <1>1, <1>2, <1>3

LEMMA GoodGreeting ==
  ASSUME NEW P, NEW N, NEW E, NEW L, NEW T \in Good(P, N, E, L), NEW c \in Chans, NEW n \in Nicks, TypeOK,
         NEW u, u = find_account(n)
  PROVE  /\ Welcome(T, n, u, c) \in Good(P, N, E, L)
         /\ AutoStatus(T, n, u, c) \in Good(P, N, E, L)
<1>1. u \in Users \cup {None} /\ nicks \subseteq Nicks
  BY AccountOf DEF TypeOK
<1>2. ASSUME HasAccess(u, c) PROVE Welcome(T, n, u, c) \in Good(P, N, E, L)
  <2>1. access[c][u] \in Cflag
    BY <1>1, <1>2, AccessIsCflag
  <2>2. PICK flags : flags = access[c][u].auto
    OBVIOUS
  <2>3. flags \in SUBSET Statuses
    BY <2>1, <2>2 DEF Cflag
  <2>4. sync_cflag(T, u, c) \in Good(P, N, E, L)
    BY <1>1, <2>1, GoodSync
  <2>5. SetStatus(T, n, c, flags, TRUE) \in Good(P, N, E, L)
    BY <2>3, GoodGives
  <2>6. KickUser(T, u, c) \in Good(P, N, E, L)
    BY <1>1, GoodKick
  <2>7. Welcome(T, n, u, c) \in {T, sync_cflag(T, u, c), SetStatus(T, n, c, flags, TRUE), KickUser(T, u, c)}
    BY <2>2 DEF Welcome
  <2> QED BY <2>4, <2>5, <2>6, <2>7
<1>3. ASSUME ~HasAccess(u, c) PROVE Welcome(T, n, u, c) \in Good(P, N, E, L)
  BY <1>3 DEF Welcome
<1>4. AutoStatus(T, n, u, c) \in Good(P, N, E, L)
  <2>1. PICK flags : flags = {s \in Statuses : \/ s = "o" /\ HasOption(c, "AOP")
                                               \/ s = "v" /\ HasOption(c, "AVOICE")}
    OBVIOUS
  <2>2. flags \in SUBSET Statuses
    BY <2>1
  <2>3. SetStatus(T, n, c, flags, TRUE) \in Good(P, N, E, L)
    BY <2>2, GoodGives
  <2>4. AutoStatus(T, n, u, c) \in {T, SetStatus(T, n, c, flags, TRUE)}
    BY <2>1 DEF AutoStatus
  <2> QED BY <2>3, <2>4
<1>5. Welcome(T, n, u, c) \in Good(P, N, E, L)
  BY <1>2, <1>3
<1> QED BY <1>4, <1>5

LEMMA JoinServes ==
  ASSUME Typed, MembersAreOnline, m_join
  PROVE  \E T : Serves(T, Kept(Line)) /\ nicks' = nicks
<1>1. PICK n, c, u, C, J : /\ n = Line.nick /\ c = Line.chan /\ u = find_account(n)
                          /\ C = CreateWchan(Tables, c) /\ J = AddUserToWchan(C, n, c, {})
  OBVIOUS
<1>2. PICK W, greeted : W = Welcome(J, n, u, c) /\ greeted = AutoStatus(W, n, u, c)
  OBVIOUS
<1>3. \/ n \notin nicks /\ Handled(Tables)
      \/ n \in nicks /\ \E T \in {J, greeted, KickUser(greeted, n, c)} : Handled(T)
  <2>1. /\ n \notin nicks => Handled(Tables)
        /\ n \in nicks /\ ~Registered(c) => Handled(J)
        /\ n \in nicks /\ Registered(c) =>
             \E banned \in BOOLEAN : Handled(IF banned THEN KickUser(greeted, n, c) ELSE greeted)
    BY <1>1, <1>2, Zenon DEF m_join
  <2>2. CASE n \in nicks /\ Registered(c)
    <3>1. PICK banned \in BOOLEAN : Handled(IF banned THEN KickUser(greeted, n, c) ELSE greeted)
      BY <2>1, <2>2
    <3>2. (IF banned THEN KickUser(greeted, n, c) ELSE greeted) \in {greeted, KickUser(greeted, n, c)}
      OBVIOUS
    <3> QED BY <2>2, <3>1, <3>2
  <2> QED BY <2>1, <2>2
<1>14. Arrives("JOIN")
  BY DEF m_join
<1>4. /\ Line.type = "JOIN" /\ n \in Nicks /\ c \in Chans /\ TypeOK /\ nicks \subseteq Nicks
  <2>1. Line \in Told /\ Line.type = "JOIN"
    BY <1>14, LineTold
  <2> QED BY <1>1, <2>1, ToldLine DEF Typed, TypeOK
<1>5. Tables \in Good(There, nicks, Chans \ Full, {}) /\ Tables.wchans = wchans
  BY TablesGood
<1>6. CASE n \notin nicks /\ Handled(Tables)
  <2>1. Kept(Line) \subseteq There
    BY <1>1, <1>4, <1>6 DEF Kept, There, Comes
  <2>2. Leave(Tables) /\ nicks' = nicks
    BY <1>6 DEF Handled
  <2>3. Serves(Tables, Kept(Line))
    BY <1>5, <2>1, <2>2, ServesIf
  <2> QED BY <2>2, <2>3
<1>7. CASE n \in nicks /\ \E T \in {J, greeted, KickUser(greeted, n, c)} : Handled(T)
  <2>1. C \in Good(There, nicks, Chans \ Full, {}) /\ c \in DOMAIN C.wchans
    <3>1. c \notin DOMAIN Tables.wchans => c \in Chans \ Full
      BY <1>4, <1>5 DEF Full
    <3> QED BY <1>1, <1>4, <1>5, <3>1, GoodCreate
  <2>2. PICK P : P = There \cup {<<c, n>>}
    OBVIOUS
  <2>3. J \in Good(P, nicks, Chans \ Full, {})
    <3>1. PICK none \in SUBSET Statuses : none = {}
      OBVIOUS
    <3>2. n \in nicks \cap Nicks
      BY <1>4, <1>7
    <3>3. AddUserToWchan(C, n, c, none) \in Good(P, nicks, Chans \ Full, {})
      BY <2>1, <2>2, <3>2, GoodAdd
    <3> QED BY <1>1, <3>1, <3>3
  <2>4. W \in Good(P, nicks, Chans \ Full, {})
    BY <1>1, <1>2, <1>4, <2>3, GoodGreeting
  <2>5. greeted \in Good(P, nicks, Chans \ Full, {})
    BY <1>1, <1>2, <1>4, <2>4, GoodGreeting
  <2>6. KickUser(greeted, n, c) \in Good(P, nicks, Chans \ Full, {})
    BY <1>4, <2>5, GoodKick
  <2>7. PICK T \in {J, greeted, KickUser(greeted, n, c)} : Handled(T)
    BY <1>7
  <2>8. T \in Good(P, nicks, Chans \ Full, {}) /\ Leave(T) /\ nicks' = nicks
    BY <2>3, <2>5, <2>6, <2>7 DEF Handled
  <2>9. Kept(Line) \subseteq P
    BY <1>1, <1>4, <2>2 DEF Kept, There, Comes
  <2>10. Serves(T, Kept(Line))
    BY <2>8, <2>9, ServesIf
  <2> QED BY <2>8, <2>10
<1> QED BY <1>3, <1>6, <1>7

LEMMA SjoinServes ==
  ASSUME Typed, MembersAreOnline, m_sjoin
  PROVE  \E T : Serves(T, Kept(Line)) /\ nicks' = nicks
<1>1. PICK c, list, C, T : /\ c = Line.chan /\ list = Line.list /\ C = CreateWchan(Tables, c)
                          /\ T = SjoinEach(C, c, list)
  OBVIOUS
<1>2. Arrives("SJOIN") /\ Handled(T)
  BY <1>1 DEF m_sjoin
<1>3. Line.type = "SJOIN" /\ c \in Chans /\ list \in Seq(Member) /\ TypeOK
  <2>1. Line \in Told /\ Line.type = "SJOIN"
    BY <1>2, LineTold
  <2> QED BY <1>1, <2>1, ToldLine DEF Typed
<1>4. /\ Tables \in Good(There, nicks, Chans \ Full, {}) /\ Tables.wchans = wchans
      /\ Tables.fault = FALSE
  BY TablesGood
<1>5. C \in Good(There, nicks, Chans \ Full, {}) /\ c \in DOMAIN C.wchans /\ C.fault = FALSE
  <2>1. c \notin DOMAIN Tables.wchans => c \in Chans \ Full
    BY <1>3, <1>4 DEF Full
  <2>2. C.fault = FALSE
    <3>1. Tables \in TableSet
      BY <1>4 DEF Good
    <3> QED BY <1>1, <1>4, <3>1 DEF CreateWchan, WithList, TableSet
  <2> QED BY <1>1, <1>3, <1>4, <2>1, <2>2, GoodCreate
<1>6. Held(C, c)
  BY <1>5 DEF Held
<1>7. /\ T \in Good(There, nicks, Chans \ Full, {}) /\ Held(T, c)
      /\ T.fault \/ T \in Good(There \cup Came(c, list, Len(list)), nicks, Chans \ Full, {})
  BY <1>1, <1>3, <1>5, <1>6, GoodSjoin
<1>8. Kept(Line) \subseteq There \cup Came(c, list, Len(list))
  <2> SUFFICES ASSUME NEW d \in Chans, NEW n \in Nicks, <<d, n>> \in Kept(Line), ~Listed(wchans, d, n)
               PROVE  <<d, n>> \in Came(c, list, Len(list))
    BY DEF Kept, There
  <2>1. Comes(Line, d, n) /\ n \in nicks
    BY DEF Kept
  <2>2. d = c /\ \E i \in 1 .. Len(list) : list[i].nick = n
    BY <1>1, <1>3, <2>1 DEF Comes
  <2> QED BY <2>1, <2>2 DEF Came
<1>9. Leave(T) /\ nicks' = nicks
  BY <1>2 DEF Handled
<1>10. T \in Good({}, nicks', Chans \ Full, {})
  BY <1>7, <1>9, GoodLess
<1>11. CASE T.fault
  BY <1>7, <1>9, <1>10, <1>11 DEF Serves, Held
<1>12. CASE T \in Good(There \cup Came(c, list, Len(list)), nicks, Chans \ Full, {})
  BY <1>8, <1>9, <1>12, ServesIf
<1> QED BY <1>7, <1>9, <1>11, <1>12

LEMMA PartServes ==
  ASSUME Typed, MembersAreOnline, m_part
  PROVE  \E T : Serves(T, Kept(Line)) /\ nicks' = nicks
<1>1. PICK n, c, D : n = Line.nick /\ c = Line.chan /\ D = DeleteUserFromWchan(Tables, n, c)
  OBVIOUS
<1>2. Arrives("PART") /\ Handled(IF n \in nicks THEN D ELSE Tables)
  BY <1>1 DEF m_part
<1>3. PICK T : T = IF n \in nicks THEN D ELSE Tables
  OBVIOUS
<1>4. Tables \in Good(There, nicks, Chans \ Full, {})
  BY TablesGood
<1>5. D \in Good(There \ {<<c, n>>}, nicks, Chans \ Full, {})
  BY <1>1, <1>4, GoodDelete
<1>6. T \in Good(There \ {<<c, n>>}, nicks, Chans \ Full, {})
  BY <1>3, <1>4, <1>5, GoodLess
<1>7. Line.type = "PART"
  BY <1>2, LineTold
<1>8. Kept(Line) \subseteq There \ {<<c, n>>}
  BY <1>1, <1>7 DEF Kept, There, Comes, Departs
<1>9. Leave(T) /\ nicks' = nicks
  BY <1>2, <1>3 DEF Handled
<1> QED BY <1>6, <1>8, <1>9, ServesIf

\* Whoever kicks the bot stays in the list only if KickUser has told the network.
LEMMA GoodKickedBot ==
  ASSUME NEW P, NEW N, NEW E, NEW L, Tables \in Good(P, N, E, L), NEW c \in Chans, c \in DOMAIN Tables.wchans,
         Tables.fault = FALSE, NEW by, nicks \subseteq Nicks
  PROVE  /\ KickedBot(by, c) \in Good(P \ (Chans \X Nokick), N, E, L)
         /\ KickedBot(by, c).fault => KickedBot(by, c).sent # <<>>
<1>1. PICK K, D : K = KickUser(Tables, by, c) /\ D = DeleteUserFromWchan(K, by, c)
  OBVIOUS
<1>2. /\ K \in Good(P, N, E, L) /\ K.fault = FALSE
      /\ K = Tables \/ K.sent # <<>>
  BY <1>1, GoodKick
<1>3. CASE by \notin nicks
  <2>1. KickedBot(by, c) = K
    BY <1>1, <1>3 DEF KickedBot
  <2> QED BY <1>2, <2>1, GoodLess
<1>4. CASE by \in nicks /\ ~Exists(K, c)
  <2>1. KickedBot(by, c) = Faulty(K)
    BY <1>1, <1>4 DEF KickedBot
  <2>2. K.sent # <<>>
    BY <1>2, <1>4 DEF Exists
  <2>3. Faulty(K) \in Good(P, N, E, L) /\ Faulty(K).sent = K.sent
    BY <1>2, GoodFaulty
  <2> QED BY <2>1, <2>2, <2>3, GoodLess
<1>5. CASE by \in nicks /\ Exists(K, c)
  <2>1. KickedBot(by, c) = D
    BY <1>1, <1>5 DEF KickedBot
  <2>2. K \in TableSet
    BY <1>2 DEF Good
  <2>3. D \in Good(P \ {<<c, by>>}, N, E, L) /\ D.sent = K.sent /\ D.fault = FALSE
    BY <1>1, <1>2, <2>2, GoodDelete, DeleteFields
  <2>4. CASE by \in Nokick
    <3>1. P \ (Chans \X Nokick) \subseteq P \ {<<c, by>>}
      BY <2>4
    <3> QED BY <2>1, <2>3, <3>1, GoodLess
  <2>5. CASE by \notin Nokick
    <3>1. PICK X, l : X = DeleteUserFromWchan(Tables, by, c) /\ l = [type |-> "KICK", nick |-> by, chan |-> c]
      OBVIOUS
    <3>2. K = Send(X, l)
      BY <1>1, <1>5, <2>5, <3>1 DEF KickUser
    <3>3. X \in Good(P \ {<<c, by>>}, N, E, L)
      BY <3>1, GoodDelete
    <3>4. l \in NetLine /\ l.type = "KICK" /\ l.nick = by /\ l.chan = c
      BY <1>5, <3>1 DEF NetLine
    <3>5. K \in Good(P \ {<<c, by>>}, N, E, L \cup {l})
      BY <3>2, <3>3, <3>4, GoodSend
    <3>6. PICK i \in 1 .. Len(K.sent) : K.sent[i] = l
      BY <3>5 DEF Good, Sends
    <3>7. Expelled(D.sent, c, by)
      BY <2>3, <3>4, <3>6 DEF Expelled, Expels
    <3>8. D \in Good(P, N, E, L)
      BY <2>3, <3>7, GoodExpelled
    <3> QED BY <2>1, <2>3, <3>8, GoodLess
  <2> QED BY <2>4, <2>5
<1> QED BY <1>3, <1>4, <1>5

LEMMA KickServes ==
  ASSUME Typed, MembersAreOnline, m_kick
  PROVE  \E T : Serves(T, Kept(Line)) /\ nicks' = nicks
<1>1. PICK c, n, D : c = Line.chan /\ n = Line.nick /\ D = DeleteUserFromWchan(Tables, n, c)
  OBVIOUS
<1>2. PICK T : T = (IF ~Exists(Tables, c) THEN Tables
                    ELSE IF n = Bot /\ Registered(c) THEN KickedBot(Line.by, c)
                    ELSE IF n \in nicks THEN D ELSE Tables)
  OBVIOUS
<1>3. Arrives("KICK") /\ Handled(T)
  BY <1>1, <1>2 DEF m_kick
<1>4. Leave(T) /\ nicks' = nicks /\ Line \in Told /\ Line.type = "KICK"
  BY <1>3, LineTold DEF Handled
<1>5. c \in Chans /\ nicks \subseteq Nicks
  BY <1>1, <1>4, ToldLine DEF Typed, TypeOK
<1>6. Tables \in Good(There, nicks, Chans \ Full, {}) /\ Tables.fault = FALSE
  BY TablesGood
<1>7. Kept(Line) \subseteq There \ {<<c, n>>}
  BY <1>1, <1>4 DEF Kept, There, Comes, Departs
<1>8. Kept(Line) \subseteq There \ (Chans \X Nokick)
  BY <1>4 DEF Kept, There, Comes
<1>9. CASE Exists(Tables, c) /\ n = Bot /\ Registered(c)
  <2>1. T = KickedBot(Line.by, c)
    BY <1>2, <1>9
  <2>2. T \in Good(There \ (Chans \X Nokick), nicks, Chans \ Full, {})
    BY <1>5, <1>6, <1>9, <2>1, GoodKickedBot DEF Exists
  <2> QED BY <1>4, <1>8, <2>2, ServesIf
<1>10. CASE ~(Exists(Tables, c) /\ n = Bot /\ Registered(c))
  <2>1. D \in Good(There \ {<<c, n>>}, nicks, Chans \ Full, {})
    BY <1>1, <1>6, GoodDelete
  <2>2. Tables \in Good(There \ {<<c, n>>}, nicks, Chans \ Full, {})
    BY <1>6, GoodLess
  <2>3. T \in Good(There \ {<<c, n>>}, nicks, Chans \ Full, {})
    BY <1>2, <1>10, <2>1, <2>2
  <2> QED BY <1>4, <1>7, <2>3, ServesIf
<1> QED BY <1>9, <1>10

LEMMA ModeServes ==
  ASSUME Typed, MembersAreOnline, m_mode
  PROVE  \E T : Serves(T, Kept(Line)) /\ nicks' = nicks
<1>1. PICK c, n, s, S : c = Line.chan /\ n = Line.nick /\ s = Line.status /\ S = {s}
  OBVIOUS
<1>2. PICK T : T = (IF ~Exists(Tables, c) THEN Tables
                    ELSE IF Line.what THEN ModePlus(Tables, n, c, s)
                    ELSE ModeMinus(Tables, Line.by, n, c, s))
  OBVIOUS
<1>3. Arrives("MODE") /\ Handled(T)
  BY <1>1, <1>2 DEF m_mode
<1>4. Leave(T) /\ nicks' = nicks /\ Line \in Told /\ Line.type = "MODE"
  BY <1>3, LineTold DEF Handled
<1>5. S \in SUBSET Statuses
  <2>1. s \in Statuses
    <3>1. PICK l : l = Line
      OBVIOUS
    <3>2. l \in Told /\ l.type = "MODE"
      BY <1>4, <3>1
    <3>3. l.status \in Statuses
      BY <3>2 DEF Told
    <3> QED BY <1>1, <3>1, <3>3
  <2> QED BY <1>1, <2>1
<1>6. PICK G : G = Good(There, nicks, Chans \ Full, {})
  OBVIOUS
<1>7. Tables \in G /\ Tables \in TableSet
  BY <1>6, TablesGood DEF Good
<1>8. SetStatus(Tables, n, c, S, TRUE) \in G /\ SetStatus(Tables, n, c, S, FALSE) \in G
  BY <1>5, <1>6, <1>7, GoodGives
<1>9. Faulty(Tables) \in G
  BY <1>6, <1>7, GoodFaulty
<1>10. ASSUME IsMember(Tables, c, n)
       PROVE  /\ SetFlags(Tables, c, n, FlagsOf(Tables, c, n) \cup S) \in G
              /\ SetFlags(Tables, c, n, FlagsOf(Tables, c, n) \ S) \in G
  <2>1. FlagsOf(Tables, c, n) \in SUBSET Statuses
    BY <1>7, <1>10, FlagsAreStatuses
  <2>2. PICK more, less : more = FlagsOf(Tables, c, n) \cup S /\ less = FlagsOf(Tables, c, n) \ S
    OBVIOUS
  <2>3. more \in SUBSET Statuses /\ less \in SUBSET Statuses
    BY <1>5, <2>1, <2>2
  <2>4. SetFlags(Tables, c, n, more) \in G /\ SetFlags(Tables, c, n, less) \in G
    BY <1>6, <1>7, <1>10, <2>3, GoodFlags
  <2> QED BY <2>2, <2>4
<1>11. ModePlus(Tables, n, c, s) \in G
  BY <1>1, <1>7, <1>8, <1>10 DEF ModePlus
<1>12. ModeMinus(Tables, Line.by, n, c, s) \in G
  BY <1>1, <1>7, <1>8, <1>9, <1>10 DEF ModeMinus
<1>13. T \in G
  BY <1>2, <1>7, <1>11, <1>12
<1>14. Kept(Line) \subseteq There
  BY <1>4 DEF Kept, There, Comes
<1> QED BY <1>4, <1>6, <1>13, <1>14, ServesIf

LEMMA TopicServes ==
  ASSUME Typed, MembersAreOnline, m_stopic
  PROVE  \E T : Serves(T, Kept(Line)) /\ nicks' = nicks
<1>1. PICK T : T = IF Exists(Tables, Line.chan) THEN Tables ELSE Faulty(Tables)
  OBVIOUS
<1>2. Arrives("TOPIC") /\ Handled(T)
  BY <1>1 DEF m_stopic
<1>3. Leave(T) /\ nicks' = nicks /\ Line.type = "TOPIC"
  BY <1>2, LineTold DEF Handled
<1>4. Tables \in Good(There, nicks, Chans \ Full, {})
  BY TablesGood
<1>5. T \in Good(There, nicks, Chans \ Full, {})
  BY <1>1, <1>4, GoodFaulty
<1>6. Kept(Line) \subseteq There
  BY <1>3 DEF Kept, There, Comes
<1> QED BY <1>3, <1>5, <1>6, ServesIf

LEMMA IdentifyServes ==
  ASSUME Typed, MembersAreOnline, NEW n \in Nicks, nick_identify(n)
  PROVE  \E T : Serves(T, There) /\ \A k \in nicks \ nicks' : KillSent(T.sent, k)
<1>1. PICK Q, ghosted : Q = Sessions(n) /\ ghosted = Killed(Tables, Q)
  OBVIOUS
<1>2. /\ n \in Users /\ user_login(n, n, Q)
      /\ \E order \in SetToSeqs(Chans) : Leave(ghosted) \/ Leave(sync_user(ghosted, n, order))
  <2>1. n \in Users /\ user_login(n, n, Q)
    BY <1>1 DEF nick_identify
  <2>2. \E noauto \in BOOLEAN, order \in SetToSeqs(Chans) :
          Leave(IF noauto THEN ghosted ELSE sync_user(ghosted, n, order))
    BY <1>1, Zenon DEF nick_identify
  <2>3. PICK noauto \in BOOLEAN, order \in SetToSeqs(Chans) :
          Leave(IF noauto THEN ghosted ELSE sync_user(ghosted, n, order))
    BY <2>2
  <2>4. CASE noauto
    BY <2>1, <2>3, <2>4
  <2>5. CASE ~noauto
    BY <2>1, <2>3, <2>5
  <2> QED BY <2>4, <2>5
<1>3. PICK order \in SetToSeqs(Chans) : Leave(ghosted) \/ Leave(sync_user(ghosted, n, order))
  BY <1>2
<1>4. Q \in SUBSET Nicks /\ TypeOK
  BY <1>1 DEF Sessions, Typed, TypeOK
<1>5. PICK K : K = {[type |-> "KILL", nick |-> k] : k \in Q}
  OBVIOUS
<1>6. PICK G : G = Good(There, nicks \ Q, Chans \ Full, K)
  OBVIOUS
<1>7. ghosted \in G
  <2>1. /\ ghosted \in Good(There, nicks \ Q, Chans \ Full, {})
        /\ \A k \in Q : Sends(ghosted.sent, [type |-> "KILL", nick |-> k])
    BY <1>1, <1>4, TablesGood, GoodKilled
  <2>2. \A l \in K : Sends(ghosted.sent, l)
    BY <1>5, <2>1
  <2> QED BY <1>6, <2>1, <2>2 DEF Good
<1>8. sync_user(ghosted, n, order) \in G
  <2>1. order \in [1 .. Cardinality(Chans) -> Chans] /\ Cardinality(Chans) \in Nat
    BY Finite, FS_CardinalityType DEF SetToSeqs
  <2>2. order \in Seq(Chans)
    BY <2>1
  <2> QED BY <1>2, <1>4, <1>6, <1>7, <2>2, GoodSyncUser
<1>9. PICK T \in G : Leave(T)
  BY <1>3, <1>7, <1>8
<1>10. nicks \ Q \subseteq nicks' /\ nicks \ nicks' \subseteq Q
  BY <1>2 DEF user_login
<1>11. Serves(T, There)
  BY <1>6, <1>9, <1>10, ServesIf
<1>12. ASSUME NEW k \in Q PROVE KillSent(T.sent, k)
  <2>1. PICK l : l = [type |-> "KILL", nick |-> k]
    OBVIOUS
  <2>2. l \in K
    BY <1>5, <2>1
  <2>3. PICK i \in 1 .. Len(T.sent) : T.sent[i] = l
    BY <1>6, <1>9, <2>2 DEF Good, Sends
  <2> QED BY <2>1, <2>3 DEF KillSent
<1> QED BY <1>10, <1>11, <1>12

LEMMA StatusServes ==
  ASSUME Typed, MembersAreOnline, NEW k, NEW n, NEW c, NEW s \in Statuses, NEW what \in BOOLEAN, chan_status(k, n, c, s, what)
  PROVE  \E T : Serves(T, There) /\ nicks' = nicks
<1>1. PICK T : T = SetStatus(Tables, n, c, {s}, what)
  OBVIOUS
<1>2. Leave(T) /\ nicks' = nicks
  BY <1>1 DEF chan_status, Ordered
<1>3. Tables \in Good(There, nicks, Chans \ Full, {}) /\ nicks \subseteq Nicks /\ TypeOK
  BY TablesGood DEF Typed, TypeOK
<1>4. T \in Good(There, nicks, Chans \ Full, {})
  <2>1. PICK S : S = {s}
    OBVIOUS
  <2>2. S \in SUBSET Statuses
    BY <2>1
  <2>3. SetStatus(Tables, n, c, S, what) \in Good(There, nicks, Chans \ Full, {})
    BY <1>3, <2>2, GoodStatus
  <2> QED BY <1>1, <2>1, <2>3
<1> QED BY <1>2, <1>4, ServesIf

LEMMA OpallServes ==
  ASSUME Typed, MembersAreOnline, NEW k, NEW c, NEW s \in Statuses, bot_opall(k, c, s)
  PROVE  \E T : Serves(T, There) /\ nicks' = nicks
<1>1. PICK T : T = GiveAll(Tables, c, s)
  OBVIOUS
<1>2. Leave(T) /\ nicks' = nicks
  BY <1>1 DEF bot_opall, Ordered
<1>3. Tables \in Good(There, nicks, Chans \ Full, {}) /\ nicks \subseteq Nicks /\ TypeOK
  BY TablesGood DEF Typed, TypeOK
<1>4. T \in Good(There, nicks, Chans \ Full, {})
  <2>1. PICK list : list = wchans[c]
    OBVIOUS
  <2>2. list \in Seq(Member)
    BY <2>1 DEF bot_opall, Exists, Tables, Typed, TypeOK
  <2> QED BY <1>1, <1>3, <2>1, <2>2, GoodGiveAll
<1> QED BY <1>2, <1>4, ServesIf

LEMMA ChanKickServes ==
  ASSUME Typed, MembersAreOnline, NEW k, NEW n, NEW c \in Chans, chan_kick(k, n, c)
  PROVE  \E T : Serves(T, There) /\ nicks' = nicks
<1>1. PICK T : T = KickUser(Tables, n, c)
  OBVIOUS
<1>2. Leave(T) /\ nicks' = nicks
  BY <1>1 DEF chan_kick, Ordered
<1>3. Tables \in Good(There, nicks, Chans \ Full, {}) /\ nicks \subseteq Nicks /\ TypeOK
  BY TablesGood DEF Typed, TypeOK
<1>4. T \in Good(There, nicks, Chans \ Full, {})
  BY <1>1, <1>3, GoodKick
<1> QED BY <1>2, <1>4, ServesIf

LEMMA OpopopServes ==
  ASSUME Typed, MembersAreOnline, NEW k, NEW c \in Chans, bot_opopop(k, c)
  PROVE  \E T : Serves(T, There) /\ nicks' = nicks
<1>1. PICK T : T = KickUser(Tables, k, c)
  OBVIOUS
<1>2. Leave(T) /\ nicks' = nicks
  BY <1>1 DEF bot_opopop, Ordered
<1>3. Tables \in Good(There, nicks, Chans \ Full, {}) /\ nicks \subseteq Nicks /\ TypeOK
  BY TablesGood DEF Typed, TypeOK
<1>4. T \in Good(There, nicks, Chans \ Full, {})
  BY <1>1, <1>3, GoodKick
<1> QED BY <1>2, <1>4, ServesIf

LEMMA KickAllServes ==
  ASSUME Typed, MembersAreOnline, NEW k, NEW Q, NEW c \in Chans, chan_kick_all(k, Q, c)
  PROVE  \E T : Serves(T, There) /\ nicks' = nicks
<1>1. PICK T : T = KickAll(Tables, Q, c)
  OBVIOUS
<1>2. Leave(T) /\ nicks' = nicks
  BY <1>1 DEF chan_kick_all, Ordered
<1>3. Tables \in Good(There, nicks, Chans \ Full, {}) /\ nicks \subseteq Nicks /\ TypeOK
  BY TablesGood DEF Typed, TypeOK
<1>4. T \in Good(There, nicks, Chans \ Full, {})
  <2>1. PICK list : list = wchans[c]
    OBVIOUS
  <2>2. list \in Seq(Member)
    BY <2>1 DEF chan_kick_all, Exists, Tables, Typed, TypeOK
  <2> QED BY <1>1, <1>3, <2>1, <2>2, GoodKickAll
<1> QED BY <1>2, <1>4, ServesIf

LEMMA TbServes ==
  ASSUME Typed, MembersAreOnline, NEW k, NEW Q, NEW c \in Chans, bot_tb(k, Q, c)
  PROVE  \E T : Serves(T, There) /\ nicks' = nicks
<1>1. PICK T : T = IF Exists(KickAll(Tables, Q, c), c) THEN KickAll(Tables, Q, c) ELSE Faulty(KickAll(Tables, Q, c))
  OBVIOUS
<1>2. Leave(T) /\ nicks' = nicks
  BY <1>1 DEF bot_tb, Ordered
<1>3. Tables \in Good(There, nicks, Chans \ Full, {}) /\ nicks \subseteq Nicks /\ TypeOK
  BY TablesGood DEF Typed, TypeOK
<1>4. T \in Good(There, nicks, Chans \ Full, {})
  <2>1. PICK list : list = wchans[c]
    OBVIOUS
  <2>2. list \in Seq(Member)
    BY <2>1 DEF bot_tb, Exists, Tables, Typed, TypeOK
  <2>3. KickAll(Tables, Q, c) \in Good(There, nicks, Chans \ Full, {})
    BY <1>3, <2>1, <2>2, GoodKickAll
  <2> QED BY <1>1, <2>3, GoodFaulty
<1> QED BY <1>2, <1>4, ServesIf

LEMMA ResyncServes ==
  ASSUME Typed, MembersAreOnline, NEW k, NEW c \in Chans, chan_resync(k, c)
  PROVE  \E T : Serves(T, There) /\ nicks' = nicks
<1>1. PICK T : T = IF HasOption(c, "NOAUTO") \/ ~Exists(Tables, c) THEN Tables ELSE acl_resync(Tables, c)
  OBVIOUS
<1>2. Leave(T) /\ nicks' = nicks
  BY <1>1 DEF chan_resync, Ordered
<1>3. Tables \in Good(There, nicks, Chans \ Full, {}) /\ nicks \subseteq Nicks /\ TypeOK
  BY TablesGood DEF Typed, TypeOK
<1>4. T \in Good(There, nicks, Chans \ Full, {})
  <2>1. CASE Exists(Tables, c)
    <3>1. PICK list : list = wchans[c]
      OBVIOUS
    <3>2. list \in Seq(Member)
      BY <2>1, <3>1 DEF Exists, Tables, Typed, TypeOK
    <3>3. acl_resync(Tables, c) \in Good(There, nicks, Chans \ Full, {})
      BY <1>3, <3>1, <3>2, GoodResyncAll
    <3> QED BY <1>1, <1>3, <3>3
  <2>2. CASE ~Exists(Tables, c)
    BY <1>1, <1>3, <2>2
  <2> QED BY <2>1, <2>2
<1> QED BY <1>2, <1>4, ServesIf

-----------------------------------------------------------------------------
(* The burst after a link *)

LEMMA Orders ==
  ASSUME NEW S, IsFiniteSet(S), NEW f \in SetToSeqs(S)
  PROVE  f \in Seq(S) /\ \A x \in S : \E i \in 1 .. Len(f) : f[i] = x
<1>1. PICK n : n = Cardinality(S)
  OBVIOUS
<1>2. n \in Nat
  BY <1>1, FS_CardinalityType
<1>3. f \in [1 .. n -> S] /\ \A i, j \in 1 .. n : i # j => f[i] # f[j]
  BY <1>1 DEF SetToSeqs
<1>4. f \in Injection(1 .. n, S)
  BY <1>3 DEF Injection, IsInjective
<1>5. Cardinality(1 .. n) = Cardinality(S)
  BY <1>1, <1>2, FS_Interval
<1>6. f \in Surjection(1 .. n, S)
  BY <1>4, <1>5, FS_Injection
<1>7. f \in Seq(S) /\ Len(f) = n
  BY <1>2, <1>3
<1> QED BY <1>6, <1>7 DEF Surjection

LEMMA Greatest ==
  ASSUME NEW n \in Nat, NEW S \in SUBSET (1 .. n), S # {}
  PROVE  Max(S) \in S
<1>1. PICK D : D = {n - x : x \in S}
  OBVIOUS
<1>2. D \in SUBSET Nat /\ D # {}
  <2>1. \A x \in S : n - x \in Nat
    OBVIOUS
  <2>2. PICK x \in S : TRUE
    OBVIOUS
  <2>3. n - x \in D
    BY <1>1
  <2> QED BY <1>1, <2>1, <2>3
<1>3. PICK y \in D : \A z \in D : y <= z
  BY <1>2, Least
<1>4. PICK x \in S : y = n - x
  BY <1>1, <1>3
<1>5. ASSUME NEW z \in S PROVE z <= x
  <2>1. n - z \in D /\ x \in 1 .. n /\ z \in 1 .. n
    BY <1>1
  <2>2. n - x <= n - z
    BY <1>3, <1>4, <2>1
  <2> QED BY <2>1, <2>2
<1> QED BY <1>5 DEF Max

LEMMA SvidTyped ==
  ASSUME Typed, NEW n \in Nicks
  PROVE  Svid(n) \in Users \cup {None}
<1>1. PICK uids : uids = {i \in DOMAIN toServices : toServices[i].type = "UID" /\ toServices[i].nick = n}
  OBVIOUS
<1>2. CASE uids = {}
  BY <1>1, <1>2 DEF Svid, Typed, TypeOK
<1>3. CASE uids # {}
  <2>1. toServices \in Seq(Told) /\ Len(toServices) \in Nat /\ DOMAIN toServices = 1 .. Len(toServices)
    BY DEF Typed
  <2>2. uids \in SUBSET (1 .. Len(toServices))
    BY <1>1, <2>1
  <2>3. Max(uids) \in uids
    BY <1>3, <2>1, <2>2, Greatest
  <2>4. PICK l : l = toServices[Max(uids)]
    OBVIOUS
  <2>5. l \in Told /\ l.type = "UID"
    BY <1>1, <2>1, <2>3, <2>4
  <2>6. l.svid \in Users \cup {None}
    BY <2>5 DEF Told
  <2>7. Svid(n) = l.svid
    BY <1>1, <1>3, <2>4 DEF Svid
  <2> QED BY <2>6, <2>7
<1> QED BY <1>2, <1>3

Occupied == {c \in Chans : NetMembers(c) # {}}

LEMMA BurstLines ==
  ASSUME Typed, NEW users \in SetToSeqs(online), NEW chans \in SetToSeqs(Occupied), NEW members,
         \A c \in Chans : members[c] \in SetToSeqs(NetMembers(c)),
         NEW B, B = Burst(users, chans, members)
  PROVE  /\ B \in Seq(Told) /\ Len(users) \in Nat /\ Len(B) = Len(users) + 2 * Len(chans)
         /\ \A n \in online : \E i \in 1 .. Len(B) : B[i].type = "UID" /\ B[i].nick = n
         /\ \A i \in 1 .. Len(B) : B[i].type # "QUIT"
         /\ \A i \in (Len(users) + 1) .. Len(B) : B[i].type \in {"SJOIN", "TOPIC"}
         /\ \A i \in 1 .. Len(B) : B[i].type = "UID" => B[i].nick \in Nicks /\ B[i].svid = Svid(B[i].nick)
         /\ \A c \in Chans : \A n \in NetMembers(c) : \E i \in (Len(users) + 1) .. Len(B) :
              B[i].type = "SJOIN" /\ B[i].chan = c /\ \E j \in 1 .. Len(B[i].list) : B[i].list[j].nick = n
<1>1. /\ IsFiniteSet(online) /\ online \subseteq Nicks
      /\ \A c \in Chans : /\ NetMembers(c) \subseteq online /\ IsFiniteSet(NetMembers(c))
                          /\ \A n \in NetMembers(c) : net[c][n] \subseteq Statuses \X Givers
  <2>1. online \in SUBSET Nicks
    BY DEF Typed, TypeOK
  <2>2. IsFiniteSet(online)
    BY <2>1, Finite, FS_Subset
  <2>3. ASSUME NEW c \in Chans
        PROVE  /\ NetMembers(c) \subseteq online /\ IsFiniteSet(NetMembers(c))
               /\ \A n \in NetMembers(c) : net[c][n] \subseteq Statuses \X Givers
    <3>1. NetMembers(c) \in SUBSET online /\ \A n \in NetMembers(c) : net[c][n] \subseteq Statuses \X Givers
      BY DEF Typed, TypeOK, NetMembers
    <3> QED BY <2>2, <3>1, FS_Subset
  <2> QED BY <2>1, <2>2, <2>3
<1>2. users \in Seq(online) /\ \A n \in online : \E i \in 1 .. Len(users) : users[i] = n
  BY <1>1, Orders
<1>3. chans \in Seq(Occupied) /\ \A c \in Occupied : \E i \in 1 .. Len(chans) : chans[i] = c
  <2>1. IsFiniteSet(Occupied)
    BY Finite, FS_Subset DEF Occupied
  <2> QED BY <2>1, Orders
<1>4. ASSUME NEW c \in Chans
      PROVE  members[c] \in Seq(NetMembers(c)) /\ \A n \in NetMembers(c) : \E i \in 1 .. Len(members[c]) : members[c][i] = n
  <2>1. PICK m \in SetToSeqs(NetMembers(c)) : m = members[c]
    OBVIOUS
  <2>2. m \in Seq(NetMembers(c)) /\ \A n \in NetMembers(c) : \E i \in 1 .. Len(m) : m[i] = n
    BY <1>1, Orders
  <2> QED BY <2>1, <2>2
<1>5. PICK k, m : k = Len(users) /\ m = Len(chans)
  OBVIOUS
<1>6. k \in Nat /\ m \in Nat /\ DOMAIN users = 1 .. k
  BY <1>2, <1>3, <1>5
<1>7. PICK list : list = [c \in Chans |-> [j \in DOMAIN members[c] |->
                                             [nick |-> members[c][j], flags |-> {f[1] : f \in net[c][members[c][j]]}]]]
  OBVIOUS
<1>8. ASSUME NEW c \in Chans
      PROVE  /\ list[c] \in Seq(Member)
             /\ \A n \in NetMembers(c) : \E j \in 1 .. Len(list[c]) : list[c][j].nick = n
  <2>1. DOMAIN members[c] = 1 .. Len(members[c]) /\ Len(members[c]) \in Nat
    BY <1>4
  <2>2. list[c] = [j \in 1 .. Len(members[c]) |->
                     [nick |-> members[c][j], flags |-> {f[1] : f \in net[c][members[c][j]]}]]
    BY <1>7, <2>1
  <2>3. ASSUME NEW j \in 1 .. Len(members[c])
        PROVE  [nick |-> members[c][j], flags |-> {f[1] : f \in net[c][members[c][j]]}] \in Member
    <3>1. members[c][j] \in NetMembers(c) /\ members[c][j] \in Nicks
      BY <1>1, <1>4
    <3>2. net[c][members[c][j]] \subseteq Statuses \X Givers
      BY <1>1, <3>1
    <3>3. {f[1] : f \in net[c][members[c][j]]} \subseteq Statuses
      BY <3>2
    <3> QED BY <3>1, <3>3 DEF Member
  <2>4. list[c] \in Seq(Member) /\ Len(list[c]) = Len(members[c])
    BY <2>1, <2>2, <2>3
  <2>5. ASSUME NEW n \in NetMembers(c) PROVE \E j \in 1 .. Len(list[c]) : list[c][j].nick = n
    <3>1. PICK j \in 1 .. Len(members[c]) : members[c][j] = n
      BY <1>4
    <3>2. list[c][j].nick = members[c][j]
      BY <2>2
    <3> QED BY <2>4, <3>1, <3>2
  <2> QED BY <2>4, <2>5
<1>9. PICK U, C : /\ U = [i \in DOMAIN users |-> [type |-> "UID", nick |-> users[i], svid |-> Svid(users[i])]]
                  /\ C = [i \in 1 .. 2 * m |->
                            IF i % 2 = 0 THEN [type |-> "TOPIC", chan |-> chans[(i + 1) \div 2]]
                            ELSE [type |-> "SJOIN", chan |-> chans[(i + 1) \div 2],
                                  list |-> [j \in DOMAIN members[chans[(i + 1) \div 2]] |->
                                     [nick |-> members[chans[(i + 1) \div 2]][j],
                                      flags |-> {f[1] : f \in net[chans[(i + 1) \div 2]][members[chans[(i + 1) \div 2]][j]]}]]]]
  OBVIOUS
<1>10. B = U \o C
  BY <1>5, <1>9 DEF Burst
<1>11. ASSUME NEW i \in 1 .. 2 * m
       PROVE  /\ i \in DOMAIN C /\ C[i] \in Told /\ C[i].type \in {"SJOIN", "TOPIC"}
              /\ i % 2 # 0 => /\ C[i].type = "SJOIN" /\ C[i].chan = chans[(i + 1) \div 2]
                             /\ C[i].list = list[chans[(i + 1) \div 2]]
  <2>1. PICK c : c = chans[(i + 1) \div 2]
    OBVIOUS
  <2>2. (i + 1) \div 2 \in 1 .. m
    BY <1>6
  <2>3. c \in Chans
    BY <1>3, <1>5, <2>1, <2>2 DEF Occupied
  <2>4. list[c] = [j \in DOMAIN members[c] |-> [nick |-> members[c][j], flags |-> {f[1] : f \in net[c][members[c][j]]}]]
    BY <1>7, <2>3
  <2>5. C[i] = IF i % 2 = 0 THEN [type |-> "TOPIC", chan |-> c] ELSE [type |-> "SJOIN", chan |-> c, list |-> list[c]]
    BY <1>9, <2>1, <2>4
  <2>6. list[c] \in Seq(Member)
    BY <1>8, <2>3
  <2>7. i \in DOMAIN C
    BY <1>9
  <2>8. CASE i % 2 = 0
    <3>1. C[i] \in [type : {"TOPIC"}, chan : Chans] /\ C[i].type = "TOPIC"
      BY <2>3, <2>5, <2>8
    <3> QED BY <2>7, <2>8, <3>1, ToldSets
  <2>9. CASE i % 2 # 0
    <3>1. C[i] \in [type : {"SJOIN"}, chan : Chans, list : Seq(Member)]
      BY <2>3, <2>5, <2>6, <2>9
    <3>2. C[i].type = "SJOIN" /\ C[i].chan = c /\ C[i].list = list[c]
      BY <2>5, <2>9
    <3> QED BY <2>1, <2>7, <3>1, <3>2, ToldSets
  <2> QED BY <2>8, <2>9
<1>12. C \in Seq(Told) /\ Len(C) = 2 * m
  <2>1. DOMAIN C = 1 .. 2 * m /\ C = [i \in 1 .. 2 * m |-> C[i]]
    BY <1>9
  <2> QED BY <1>6, <1>11, <2>1
<1>13. ASSUME NEW i \in 1 .. k
       PROVE  U[i] \in Told /\ U[i].type = "UID" /\ U[i].nick = users[i] /\ U[i].nick \in Nicks
              /\ U[i].svid = Svid(U[i].nick)
  <2>1. users[i] \in Nicks
    BY <1>1, <1>2, <1>5
  <2>2. U[i] = [type |-> "UID", nick |-> users[i], svid |-> Svid(users[i])]
    BY <1>6, <1>9
  <2>3. Svid(users[i]) \in Users \cup {None}
    BY <2>1, SvidTyped
  <2>4. U[i] \in [type : {"UID"}, nick : Nicks, svid : Users \cup {None}]
    BY <2>1, <2>2, <2>3
  <2>5. U[i].type = "UID" /\ U[i].nick = users[i] /\ U[i].svid = Svid(users[i])
    BY <2>2
  <2> QED BY <2>1, <2>4, <2>5, ToldSets
<1>14. U \in Seq(Told) /\ Len(U) = k
  <2>1. DOMAIN U = 1 .. k /\ U = [i \in 1 .. k |-> U[i]]
    BY <1>6, <1>9
  <2> QED BY <1>6, <1>13, <2>1
<1>15. /\ B \in Seq(Told) /\ Len(B) = k + 2 * m
       /\ \A i \in 1 .. k : B[i] = U[i]
       /\ \A i \in 1 .. 2 * m : B[k + i] = C[i]
  <2>1. /\ U \o C \in Seq(Told) /\ Len(U \o C) = Len(U) + Len(C)
        /\ \A i \in 1 .. Len(U) : (U \o C)[i] = U[i]
        /\ \A i \in 1 .. Len(C) : (U \o C)[Len(U) + i] = C[i]
    <3>1. U \in Seq(Told) /\ C \in Seq(Told)
      BY <1>12, <1>14
    <3> HIDE <1>12, <1>14
    <3> QED BY <3>1, ConcatIndex, SMTT(60)
  <2> QED BY <1>10, <1>12, <1>14, <2>1
<1>16. ASSUME NEW i \in (k + 1) .. Len(B) PROVE B[i].type \in {"SJOIN", "TOPIC"}
  <2>1. i - k \in 1 .. 2 * m /\ k + (i - k) = i
    BY <1>6, <1>15
  <2>2. B[i] = C[i - k]
    BY <1>15, <2>1
  <2> QED BY <1>11, <2>1, <2>2
<1>17. ASSUME NEW i \in 1 .. Len(B) PROVE B[i].type # "QUIT"
  <2>1. i \in 1 .. k \/ i \in (k + 1) .. Len(B)
    BY <1>6, <1>15
  <2> QED BY <1>13, <1>15, <1>16, <2>1
<1>18. ASSUME NEW n \in online PROVE \E i \in 1 .. Len(B) : B[i].type = "UID" /\ B[i].nick = n
  <2>1. PICK i \in 1 .. k : users[i] = n
    BY <1>2, <1>5
  <2>2. i \in 1 .. Len(B)
    BY <1>6, <1>15
  <2> QED BY <1>13, <1>15, <2>1, <2>2
<1>19. ASSUME NEW c \in Chans, NEW n \in NetMembers(c)
       PROVE  \E i \in (k + 1) .. Len(B) :
                B[i].type = "SJOIN" /\ B[i].chan = c /\ \E j \in 1 .. Len(B[i].list) : B[i].list[j].nick = n
  <2>1. c \in Occupied
    BY DEF Occupied
  <2>2. PICK a \in 1 .. m : chans[a] = c
    BY <1>3, <1>5, <2>1
  <2>3. PICK i : i = 2 * a - 1
    OBVIOUS
  <2>4. i \in 1 .. 2 * m /\ (i + 1) \div 2 = a /\ i % 2 # 0 /\ k + i \in (k + 1) .. Len(B)
    BY <1>6, <1>15, <2>3
  <2>5. C[i].type = "SJOIN" /\ C[i].chan = c /\ C[i].list = list[c]
    BY <1>11, <2>2, <2>4
  <2>6. B[k + i] = C[i]
    BY <1>15, <2>4
  <2>7. \E j \in 1 .. Len(list[c]) : list[c][j].nick = n
    BY <1>8
  <2> QED BY <2>4, <2>5, <2>6, <2>7
<1>20. ASSUME NEW i \in 1 .. Len(B), B[i].type = "UID" PROVE B[i].nick \in Nicks /\ B[i].svid = Svid(B[i].nick)
  <2>1. i \in 1 .. k \/ i \in (k + 1) .. Len(B)
    BY <1>6, <1>15
  <2> QED BY <1>13, <1>15, <1>16, <1>20, <2>1
<1> QED BY <1>5, <1>6, <1>15, <1>16, <1>17, <1>18, <1>19, <1>20

-----------------------------------------------------------------------------
(* Types, members, emptied channels *)

Emptied == \A c \in DOMAIN wchans \cap DOMAIN wchans' : wchans[c] # <<>> => wchans'[c] # <<>>

Good0 == Typed /\ MembersAreOnline

NetTyped(o, w) ==
  /\ o \subseteq Nicks /\ DOMAIN w = Chans
  /\ \A c \in Chans : /\ DOMAIN w[c] \subseteq o
                      /\ \A n \in DOMAIN w[c] : w[c][n] \subseteq Statuses \X Givers

LEMMA ServedKeeps ==
  ASSUME Good0, NEW T, NEW K, Serves(T, K), nicks' \subseteq Nicks,
         account' \in [Nicks -> Users \cup {None}], toServices' \in Seq(Told)
  PROVE  Good0' /\ Emptied
<1>1. /\ T \in TableSet /\ T.wchans \in Lists /\ T.sent \in Seq(NetLine) /\ T.fault \in BOOLEAN
      /\ \A c \in DOMAIN T.wchans : \A i \in 1 .. Len(T.wchans[c]) : T.wchans[c][i].nick \in nicks'
      /\ \A c \in DOMAIN T.wchans : T.wchans[c] = <<>> => c \in Chans \ Full
  BY TableFields DEF Serves, Good
<1>2. /\ wchans' = T.wchans /\ fault' = T.fault /\ toNet' = toNet \o T.sent
      /\ UNCHANGED <<access, options, setting, online, net>>
  BY DEF Serves, Leave, given, network
<1>3. /\ DOMAIN wchans' \subseteq Chans
      /\ \A c \in DOMAIN wchans' : wchans'[c] \in Seq(Member)
  BY <1>1, <1>2, ListsDef
<1>4. toNet' \in Seq(NetLine)
  <2>1. toNet \in Seq(NetLine)
    BY DEF Good0, Typed
  <2> QED BY <1>1, <1>2, <2>1
<1>5. TypeOK'
  <2>1. TypeOK
    BY DEF Good0, Typed
  <2> QED BY <1>1, <1>2, <1>3, <2>1 DEF TypeOK
<1>6. MembersAreOnline'
  <2> SUFFICES ASSUME NEW c \in DOMAIN wchans', NEW i \in DOMAIN wchans'[c] PROVE wchans'[c][i].nick \in nicks'
    BY DEF MembersAreOnline
  <2>1. wchans'[c] \in Seq(Member)
    BY <1>3
  <2>2. i \in 1 .. Len(wchans'[c])
    BY <2>1
  <2> QED BY <1>1, <1>2, <2>2
<1>7. Emptied
  BY <1>1, <1>2 DEF Emptied, Full
<1> QED BY <1>1, <1>2, <1>4, <1>5, <1>6, <1>7 DEF Good0, Typed

LEMMA SessionsTyped ==
  ASSUME TypeOK
  PROVE  /\ \A n \in Nicks, u \in Users \cup {None}, Q \in SUBSET Nicks : user_login(n, u, Q) =>
              nicks' \subseteq Nicks /\ account' \in [Nicks -> Users \cup {None}]
         /\ \A Q : Gone(Q) => nicks' \subseteq Nicks /\ account' \in [Nicks -> Users \cup {None}]
         /\ UNCHANGED <<nicks, account>> => nicks' \subseteq Nicks /\ account' \in [Nicks -> Users \cup {None}]
<1>1. nicks \subseteq Nicks /\ account \in [Nicks -> Users \cup {None}]
  BY DEF TypeOK
<1>2. ASSUME NEW n \in Nicks, NEW u \in Users \cup {None}, NEW Q \in SUBSET Nicks, user_login(n, u, Q)
      PROVE  nicks' \subseteq Nicks /\ account' \in [Nicks -> Users \cup {None}]
  <2>1. /\ nicks' = (nicks \ Q) \cup {n}
        /\ account' = [k \in Nicks |-> IF k = n THEN u ELSE IF k \in Q THEN None ELSE account[k]]
    BY <1>2 DEF user_login
  <2> QED BY <1>1, <2>1
<1>3. ASSUME NEW Q, Gone(Q) PROVE nicks' \subseteq Nicks /\ account' \in [Nicks -> Users \cup {None}]
  <2>1. /\ nicks' = nicks \ Q
        /\ account' = [n \in Nicks |-> IF n \in Q THEN None ELSE account[n]]
    BY <1>3 DEF Gone
  <2> QED BY <1>1, <2>1
<1> QED BY <1>1, <1>2, <1>3

\* What the services have done, whoever asked.
Services(l, K) ==
  \E T : /\ Serves(T, K)
         /\ \A n \in nicks \ nicks' : QuitSent(l, n) \/ KillSent(T.sent, n)

LEMMA HandlersServe ==
  ASSUME Good0, Handlers
  PROVE  /\ Services(Line, Kept(Line)) /\ ~fault /\ toServices # <<>>
         /\ nicks' \subseteq Nicks /\ account' \in [Nicks -> Users \cup {None}]
         /\ toServices' = Tail(toServices)
         /\ Line.type = "UID" => Line.nick \in nicks'
<1>1. Typed /\ MembersAreOnline /\ TypeOK
  BY DEF Good0, Typed
<1>2. ASSUME NEW T, Serves(T, Kept(Line)), nicks' = nicks PROVE Services(Line, Kept(Line))
  BY <1>2 DEF Services
<1>3. CASE m_uid
  <2>1. Arrives("UID") /\ toServices' = Tail(toServices)
    BY <1>3 DEF m_uid
  <2>2. Line \in Told /\ Line.type = "UID" /\ toServices # <<>> /\ ~fault
    BY <1>1, <2>1, LineTold
  <2>3. Line.nick \in Nicks /\ Line.svid \in Users \cup {None}
    BY <2>2, ToldLine
  <2>4. PICK n, u, Q : /\ n = Line.nick
                      /\ u = (IF Line.svid = None THEN None ELSE IF n \in Users THEN n ELSE Line.svid)
                      /\ Q = (IF u = None THEN {} ELSE Sessions(u))
    OBVIOUS
  <2>5. user_login(n, u, Q)
    BY <1>3, <2>4 DEF m_uid
  <2>6. n \in Nicks /\ u \in Users \cup {None} /\ Q \in SUBSET Nicks
    BY <1>1, <2>3, <2>4 DEF Sessions, TypeOK
  <2>7. nicks' \subseteq Nicks /\ account' \in [Nicks -> Users \cup {None}]
    BY <1>1, <2>5, <2>6, SessionsTyped
  <2>8. Services(Line, Kept(Line))
    BY <1>1, <1>3, UidServes DEF Services
  <2>9. n \in nicks'
    BY <2>5 DEF user_login
  <2> QED BY <2>1, <2>2, <2>4, <2>7, <2>8, <2>9
<1>4. CASE m_quit
  <2>1. Arrives("QUIT") /\ toServices' = Tail(toServices) /\ Gone(Line.nicks)
    BY <1>4 DEF m_quit
  <2>2. Line.type = "QUIT" /\ toServices # <<>> /\ ~fault
    BY <1>1, <2>1, LineTold
  <2>3. nicks' \subseteq Nicks /\ account' \in [Nicks -> Users \cup {None}]
    BY <1>1, <2>1, SessionsTyped
  <2>4. PICK T : Serves(T, Kept(Line)) /\ nicks' = nicks \ Line.nicks
    BY <1>1, <1>4, QuitServes
  <2>5. Services(Line, Kept(Line))
    BY <2>2, <2>4 DEF Services, QuitSent
  <2> QED BY <2>1, <2>2, <2>3, <2>5
<1>5. ASSUME NEW type \in {"JOIN", "SJOIN", "PART", "KICK", "MODE", "TOPIC"}, Arrives(type), NEW X, Handled(X),
             \E T : Serves(T, Kept(Line)) /\ nicks' = nicks
      PROVE  /\ Services(Line, Kept(Line)) /\ ~fault /\ toServices # <<>>
             /\ nicks' \subseteq Nicks /\ account' \in [Nicks -> Users \cup {None}]
             /\ toServices' = Tail(toServices)
             /\ Line.type = "UID" => Line.nick \in nicks'
  <2>1. Line.type = type /\ toServices # <<>> /\ ~fault
    BY <1>1, <1>5, LineTold
  <2>2. toServices' = Tail(toServices) /\ UNCHANGED <<nicks, account>>
    BY <1>5 DEF Handled
  <2>3. nicks' \subseteq Nicks /\ account' \in [Nicks -> Users \cup {None}]
    BY <1>1, <2>2, SessionsTyped
  <2> QED BY <1>2, <1>5, <2>1, <2>2, <2>3
<1>6. CASE m_join
  <2>1. Arrives("JOIN") /\ \E X : Handled(X)
    BY <1>6 DEF m_join
  <2> QED BY <1>1, <1>5, <1>6, <2>1, JoinServes
<1>7. CASE m_sjoin
  <2>1. Arrives("SJOIN") /\ \E X : Handled(X)
    BY <1>7 DEF m_sjoin
  <2> QED BY <1>1, <1>5, <1>7, <2>1, SjoinServes
<1>8. CASE m_part
  <2>1. Arrives("PART") /\ \E X : Handled(X)
    BY <1>8 DEF m_part
  <2> QED BY <1>1, <1>5, <1>8, <2>1, PartServes
<1>9. CASE m_kick
  <2>1. Arrives("KICK") /\ \E X : Handled(X)
    BY <1>9 DEF m_kick
  <2> QED BY <1>1, <1>5, <1>9, <2>1, KickServes
<1>10. CASE m_mode
  <2>1. Arrives("MODE") /\ \E X : Handled(X)
    BY <1>10 DEF m_mode
  <2> QED BY <1>1, <1>5, <1>10, <2>1, ModeServes
<1>11. CASE m_stopic
  <2>1. Arrives("TOPIC") /\ \E X : Handled(X)
    BY <1>11 DEF m_stopic
  <2> QED BY <1>1, <1>5, <1>11, <2>1, TopicServes
<1> QED BY <1>3, <1>4, <1>6, <1>7, <1>8, <1>9, <1>10, <1>11 DEF Handlers

LEMMA CommandsServe ==
  ASSUME Good0, UserCommands
  PROVE  /\ \E T : Serves(T, There) /\ \A n \in nicks \ nicks' : KillSent(T.sent, n)
         /\ ~fault
         /\ nicks' \subseteq Nicks /\ account' \in [Nicks -> Users \cup {None}]
         /\ toServices' = toServices
<1>1. Typed /\ MembersAreOnline /\ TypeOK /\ InUse \subseteq Statuses
  BY DEF Good0, Typed, InUse
<1>2. ASSUME NEW n \in Nicks, nick_identify(n)
      PROVE  /\ \E T : Serves(T, There) /\ \A k \in nicks \ nicks' : KillSent(T.sent, k)
             /\ ~fault
             /\ nicks' \subseteq Nicks /\ account' \in [Nicks -> Users \cup {None}]
             /\ toServices' = toServices
  <2>1. n \in Users /\ user_login(n, n, Sessions(n)) /\ ~fault /\ toServices' = toServices
    BY <1>2 DEF nick_identify
  <2>2. PICK Q, u : Q = Sessions(n) /\ u = n
    OBVIOUS
  <2>3. Q \in SUBSET Nicks /\ u \in Users \cup {None}
    BY <1>1, <2>1, <2>2 DEF Sessions, TypeOK
  <2>4. nicks' \subseteq Nicks /\ account' \in [Nicks -> Users \cup {None}]
    BY <1>1, <2>1, <2>2, <2>3, SessionsTyped
  <2> QED BY <1>1, <1>2, <2>1, <2>4, IdentifyServes
<1>3. ASSUME NEW X, Ordered(X), ~fault, \E T : Serves(T, There) /\ nicks' = nicks
      PROVE  /\ \E T : Serves(T, There) /\ \A n \in nicks \ nicks' : KillSent(T.sent, n)
             /\ ~fault
             /\ nicks' \subseteq Nicks /\ account' \in [Nicks -> Users \cup {None}]
             /\ toServices' = toServices
  <2>1. UNCHANGED <<nicks, account>> /\ toServices' = toServices
    BY <1>3 DEF Ordered
  <2>2. nicks' \subseteq Nicks /\ account' \in [Nicks -> Users \cup {None}]
    BY <1>1, <2>1, SessionsTyped
  <2> QED BY <1>3, <2>1, <2>2
<1>4. ASSUME NEW k \in Nicks, NEW c \in Chans, NEW n \in Nicks, NEW s \in InUse, NEW what \in BOOLEAN,
             chan_status(k, n, c, s, what)
      PROVE  ~fault /\ (\E X : Ordered(X)) /\ \E T : Serves(T, There) /\ nicks' = nicks
  <2>1. ~fault /\ \E X : Ordered(X)
    BY <1>4 DEF chan_status, Commands
  <2> QED BY <1>1, <1>4, <2>1, StatusServes
<1>5. ASSUME NEW k \in Nicks, NEW c \in Chans, NEW s \in InUse, bot_opall(k, c, s)
      PROVE  ~fault /\ (\E X : Ordered(X)) /\ \E T : Serves(T, There) /\ nicks' = nicks
  <2>1. ~fault /\ \E X : Ordered(X)
    BY <1>5 DEF bot_opall, Commands
  <2> QED BY <1>1, <1>5, <2>1, OpallServes
<1>6. ASSUME NEW k \in Nicks, NEW c \in Chans, NEW n \in Nicks, chan_kick(k, n, c)
      PROVE  ~fault /\ (\E X : Ordered(X)) /\ \E T : Serves(T, There) /\ nicks' = nicks
  <2>1. ~fault /\ \E X : Ordered(X)
    BY <1>6 DEF chan_kick, Commands
  <2> QED BY <1>1, <1>6, <2>1, ChanKickServes
<1>7. ASSUME NEW k \in Nicks, NEW c \in Chans, NEW Q \in SUBSET Nicks, chan_kick_all(k, Q, c)
      PROVE  ~fault /\ (\E X : Ordered(X)) /\ \E T : Serves(T, There) /\ nicks' = nicks
  <2>1. ~fault /\ \E X : Ordered(X)
    BY <1>7 DEF chan_kick_all, Commands
  <2> QED BY <1>1, <1>7, <2>1, KickAllServes
<1>8. ASSUME NEW k \in Nicks, NEW c \in Chans, NEW Q \in SUBSET Nicks, bot_tb(k, Q, c)
      PROVE  ~fault /\ (\E X : Ordered(X)) /\ \E T : Serves(T, There) /\ nicks' = nicks
  <2>1. ~fault /\ \E X : Ordered(X)
    BY <1>8 DEF bot_tb, Commands
  <2> QED BY <1>1, <1>8, <2>1, TbServes
<1>9. ASSUME NEW k \in Nicks, NEW c \in Chans, chan_resync(k, c)
      PROVE  ~fault /\ (\E X : Ordered(X)) /\ \E T : Serves(T, There) /\ nicks' = nicks
  <2>1. ~fault /\ \E X : Ordered(X)
    BY <1>9 DEF chan_resync, Commands
  <2> QED BY <1>1, <1>9, <2>1, ResyncServes
<1>10. ASSUME NEW k \in Nicks, NEW c \in Chans, bot_opopop(k, c)
       PROVE  ~fault /\ (\E X : Ordered(X)) /\ \E T : Serves(T, There) /\ nicks' = nicks
  <2>1. ~fault /\ \E X : Ordered(X)
    BY <1>10 DEF bot_opopop, Commands
  <2> QED BY <1>1, <1>10, <2>1, OpopopServes
<1>11. (\E n \in Nicks : nick_identify(n))
       \/ (~fault /\ (\E X : Ordered(X)) /\ \E T : Serves(T, There) /\ nicks' = nicks)
  BY <1>4, <1>5, <1>6, <1>7, <1>8, <1>9, <1>10 DEF UserCommands
<1> QED BY <1>2, <1>3, <1>11

-----------------------------------------------------------------------------
(* What the network does *)

LEMMA NetIsTyped ==
  ASSUME TypeOK
  PROVE  NetTyped(online, net)
  BY DEF TypeOK, NetTyped

LEMMA WithoutTyped ==
  ASSUME TypeOK
  PROVE  /\ \A n, c : NetTyped(online, Without(n, c))
         /\ \A Q : NetTyped(online \ Q, WithoutNicks(Q))
<1>1. NetTyped(online, net)
  BY NetIsTyped
<1>2. ASSUME NEW n, NEW c PROVE NetTyped(online, Without(n, c))
  <2>1. PICK w : w = Without(n, c)
    OBVIOUS
  <2>2. /\ DOMAIN w = DOMAIN net
        /\ \A d \in DOMAIN net : w[d] = IF d = c THEN Restrict(net[c], NetMembers(c) \ {n}) ELSE net[d]
    BY <2>1 DEF Without
  <2>3. ASSUME NEW d \in Chans
        PROVE  DOMAIN w[d] \subseteq online /\ \A m \in DOMAIN w[d] : w[d][m] \subseteq Statuses \X Givers
    <3>1. DOMAIN net = Chans /\ DOMAIN net[d] \subseteq online
          /\ \A m \in DOMAIN net[d] : net[d][m] \subseteq Statuses \X Givers
      BY <1>1 DEF NetTyped
    <3>2. CASE d = c
      <4>1. w[d] = [m \in DOMAIN net[d] \ {n} |-> net[d][m]]
        BY <2>2, <3>1, <3>2 DEF Restrict, NetMembers
      <4> QED BY <3>1, <4>1
    <3>3. CASE d # c
      BY <2>2, <3>1, <3>3
    <3> QED BY <3>2, <3>3
  <2> QED BY <1>1, <2>1, <2>2, <2>3 DEF NetTyped
<1>3. ASSUME NEW Q PROVE NetTyped(online \ Q, WithoutNicks(Q))
  <2>1. PICK w : w = WithoutNicks(Q)
    OBVIOUS
  <2>2. DOMAIN w = Chans /\ \A d \in Chans : w[d] = Restrict(net[d], NetMembers(d) \ Q)
    BY <2>1 DEF WithoutNicks
  <2>3. ASSUME NEW d \in Chans
        PROVE  DOMAIN w[d] \subseteq online \ Q /\ \A m \in DOMAIN w[d] : w[d][m] \subseteq Statuses \X Givers
    <3>1. DOMAIN net[d] \subseteq online /\ \A m \in DOMAIN net[d] : net[d][m] \subseteq Statuses \X Givers
      BY <1>1 DEF NetTyped
    <3>2. w[d] = [m \in DOMAIN net[d] \ Q |-> net[d][m]]
      BY <2>2 DEF Restrict, NetMembers
    <3> QED BY <3>1, <3>2
  <2>4. online \ Q \subseteq Nicks
    BY <1>1 DEF NetTyped
  <2> QED BY <2>1, <2>2, <2>3, <2>4 DEF NetTyped
<1> QED BY <1>2, <1>3

LEMMA MarkedTyped ==
  ASSUME TypeOK, NEW n, NEW c, n \in NetMembers(c), NEW held \in SUBSET (Statuses \X Givers)
  PROVE  NetTyped(online, [net EXCEPT ![c][n] = held])
<1>1. NetTyped(online, net)
  BY NetIsTyped
<1>2. PICK w : w = [net EXCEPT ![c][n] = held]
  OBVIOUS
<1>3. /\ DOMAIN w = DOMAIN net
      /\ \A d \in DOMAIN net : DOMAIN w[d] = DOMAIN net[d]
      /\ \A d \in DOMAIN net : \A m \in DOMAIN net[d] : w[d][m] = IF d = c /\ m = n THEN held ELSE net[d][m]
  BY <1>2
<1> QED BY <1>1, <1>2, <1>3 DEF NetTyped

\* The network tells the line m, which says who comes and who goes.
Says(m) ==
  /\ Tells(m) /\ m \in Told /\ NetTyped(online', net')
  /\ \A n \in online' : (n \in online /\ ~QuitSent(m, n)) \/ (m.type = "UID" /\ m.nick = n)
  /\ \A c \in Chans : \A n \in DOMAIN net'[c] :
       (n \in NetMembers(c) /\ ~Departs(m, c, n)) \/ Comes(m, c, n)

LEMMA MarkedMembers ==
  ASSUME NEW n, NEW c, DOMAIN net = Chans, NEW held
  PROVE  \A d \in Chans : DOMAIN [net EXCEPT ![c][n] = held][d] = NetMembers(d)
  BY DEF NetMembers

LEMMA ConnectSays ==
  ASSUME TypeOK, NEW n \in Nicks, NEW svid \in Users \cup {None}, Connect(n, svid)
  PROVE  \E m : Says(m)
<1>1. PICK m : m = [type |-> "UID", nick |-> n, svid |-> svid]
  OBVIOUS
<1>2. m.type = "UID" /\ m.nick = n /\ m \in [type : {"UID"}, nick : Nicks, svid : Users \cup {None}]
  BY <1>1
<1>3. Tells(m) /\ online' = online \cup {n} /\ net' = net /\ n \notin online
  BY <1>1 DEF Connect
<1>4. m \in Told
  BY <1>2, ToldSets
<1>5. NetTyped(online', net')
  BY <1>3, NetIsTyped DEF NetTyped
<1>6. \A c \in Chans : \A k \in DOMAIN net'[c] : k \in NetMembers(c) /\ ~Departs(m, c, k)
  BY <1>2, <1>3, NetIsTyped DEF NetTyped, NetMembers, Departs
<1>7. \A k \in online' : (k \in online /\ ~QuitSent(m, k)) \/ (m.type = "UID" /\ m.nick = k)
  BY <1>2, <1>3 DEF QuitSent
<1> QED BY <1>3, <1>4, <1>5, <1>6, <1>7 DEF Says

LEMMA DisconnectSays ==
  ASSUME TypeOK, NEW Q \in SUBSET Nicks, Disconnect(Q)
  PROVE  \E m : Says(m)
<1>1. PICK m : m = [type |-> "QUIT", nicks |-> Q]
  OBVIOUS
<1>2. m.type = "QUIT" /\ m.nicks = Q /\ m \in [type : {"QUIT"}, nicks : SUBSET Nicks]
  BY <1>1
<1>3. Tells(m) /\ online' = online \ Q /\ net' = WithoutNicks(Q)
  BY <1>1 DEF Disconnect
<1>4. m \in Told
  BY <1>2, ToldSets
<1>5. NetTyped(online', net')
  BY <1>3, WithoutTyped
<1>6. \A c \in Chans : DOMAIN net'[c] = NetMembers(c) \ Q
  BY <1>3 DEF WithoutNicks, Restrict
<1>7. \A c \in Chans : \A n \in DOMAIN net'[c] : n \in NetMembers(c) /\ ~Departs(m, c, n)
  BY <1>2, <1>6 DEF Departs
<1>8. \A n \in online' : n \in online /\ ~QuitSent(m, n)
  BY <1>2, <1>3 DEF QuitSent
<1> QED BY <1>3, <1>4, <1>5, <1>7, <1>8 DEF Says

LEMMA JoinSays ==
  ASSUME TypeOK, NEW n \in Nicks, NEW c \in Chans, NEW type \in {"JOIN", "SJOIN"}, Join(n, c, type)
  PROVE  \E m : Says(m)
<1>1. PICK held, list : /\ held = (IF NetMembers(c) = {} THEN InUse \cap {"o"} ELSE {})
                       /\ list = <<[nick |-> n, flags |-> held]>>
  OBVIOUS
<1>2. PICK m : m = IF type = "JOIN" THEN [type |-> "JOIN", nick |-> n, chan |-> c]
                   ELSE [type |-> "SJOIN", chan |-> c, list |-> list]
  OBVIOUS
<1>3. /\ n \in online /\ net' = [net EXCEPT ![c] = Put(@, n, held \X {"server"})]
      /\ Tells(m) /\ online' = online
  BY <1>1, <1>2 DEF Join
<1>4. held \in SUBSET Statuses
  BY <1>1 DEF InUse
<1>5. list \in Seq(Member) /\ Len(list) = 1 /\ list[1].nick = n
  <2>1. [nick |-> n, flags |-> held] \in Member
    BY <1>4 DEF Member
  <2> QED BY <1>1, <2>1
<1>6. m \in Told /\ Comes(m, c, n) /\ m.type \in {"JOIN", "SJOIN"}
  <2>1. CASE type = "JOIN"
    <3>1. m \in [type : {"JOIN", "PART", "KICK"}, nick : Nicks, chan : Chans]
      BY <1>2, <2>1
    <3>2. m.type = "JOIN" /\ m.nick = n /\ m.chan = c
      BY <1>2, <2>1
    <3> QED BY <3>1, <3>2, ToldSets DEF Comes
  <2>2. CASE type # "JOIN"
    <3>1. m \in [type : {"SJOIN"}, chan : Chans, list : Seq(Member)]
      BY <1>2, <1>5, <2>2
    <3>2. m = [type |-> "SJOIN", chan |-> c, list |-> list]
      BY <1>2, <2>2
    <3>3. m.type = "SJOIN" /\ m.list = list /\ m.chan = c
      BY <3>2
    <3>4. 1 \in 1 .. Len(list) /\ list[1].nick = n
      BY <1>5
    <3> QED BY <3>1, <3>3, <3>4, ToldSets DEF Comes
  <2> QED BY <2>1, <2>2
<1>7. NetTyped(online, net)
  BY NetIsTyped
<1>8. DOMAIN net' = Chans /\ \A d \in Chans : net'[d] = IF d = c THEN Put(net[c], n, held \X {"server"}) ELSE net[d]
  BY <1>3, <1>7 DEF NetTyped
<1>9. ASSUME NEW d \in Chans
      PROVE  /\ DOMAIN net'[d] = IF d = c THEN NetMembers(d) \cup {n} ELSE NetMembers(d)
             /\ DOMAIN net'[d] \subseteq online
             /\ \A k \in DOMAIN net'[d] : net'[d][k] \subseteq Statuses \X Givers
  <2>1. DOMAIN net[d] \subseteq online /\ \A k \in DOMAIN net[d] : net[d][k] \subseteq Statuses \X Givers
    BY <1>7 DEF NetTyped
  <2>2. CASE d = c
    <3>1. net'[d] = [k \in DOMAIN net[d] \cup {n} |-> IF k = n THEN held \X {"server"} ELSE net[d][k]]
      BY <1>8, <2>2 DEF Put
    <3>2. held \X {"server"} \subseteq Statuses \X Givers
      BY <1>4 DEF Givers
    <3>3. DOMAIN net'[d] = NetMembers(d) \cup {n}
      BY <3>1 DEF NetMembers
    <3>4. DOMAIN net'[d] \subseteq online
      BY <1>3, <2>1, <3>1
    <3>5. \A k \in DOMAIN net'[d] : net'[d][k] \subseteq Statuses \X Givers
      BY <2>1, <3>1, <3>2
    <3> QED BY <2>2, <3>3, <3>4, <3>5
  <2>3. CASE d # c
    BY <1>8, <2>1, <2>3 DEF NetMembers
  <2> QED BY <2>2, <2>3
<1>10. NetTyped(online', net')
  BY <1>3, <1>7, <1>8, <1>9 DEF NetTyped
<1>11. \A d \in Chans : \A k \in DOMAIN net'[d] : (k \in NetMembers(d) /\ ~Departs(m, d, k)) \/ Comes(m, d, k)
  BY <1>6, <1>9 DEF Departs
<1>12. \A k \in online' : k \in online /\ ~QuitSent(m, k)
  BY <1>3, <1>6 DEF QuitSent
<1> QED BY <1>3, <1>6, <1>10, <1>11, <1>12 DEF Says

LEMMA LeaveSays ==
  ASSUME TypeOK, NEW n \in Nicks, NEW c \in Chans, Part(n, c) \/ Kick(n, c)
  PROVE  \E m : Says(m)
<1>1. PICK m : /\ m \in {[type |-> "PART", nick |-> n, chan |-> c], [type |-> "KICK", nick |-> n, chan |-> c]}
              /\ Tells(m)
  BY DEF Part, Kick
<1>2. net' = Without(n, c) /\ online' = online /\ DOMAIN net = Chans
  BY DEF Part, Kick, TypeOK
<1>3. m.type \in {"PART", "KICK"} /\ m.nick = n /\ m.chan = c
  BY <1>1
<1>4. m \in Told
  <2>1. m \in [type : {"JOIN", "PART", "KICK"}, nick : Nicks, chan : Chans]
    BY <1>1
  <2> QED BY <2>1, ToldSets
<1>5. NetTyped(online', net')
  BY <1>2, WithoutTyped
<1>6. \A d \in Chans : DOMAIN net'[d] = IF d = c THEN NetMembers(d) \ {n} ELSE NetMembers(d)
  <2>1. \A d \in Chans : DOMAIN Without(n, c)[d] = IF d = c THEN NetMembers(d) \ {n} ELSE NetMembers(d)
    <3>1. PICK w : w = Without(n, c)
      OBVIOUS
    <3>2. \A d \in Chans : w[d] = IF d = c THEN Restrict(net[c], NetMembers(c) \ {n}) ELSE net[d]
      BY <1>2, <3>1 DEF Without
    <3> QED BY <3>1, <3>2 DEF Restrict, NetMembers
  <2> QED BY <1>2, <2>1
<1>7. \A d \in Chans : \A k \in DOMAIN net'[d] : k \in NetMembers(d) /\ ~Departs(m, d, k)
  BY <1>3, <1>6 DEF Departs
<1>8. \A k \in online' : k \in online /\ ~QuitSent(m, k)
  BY <1>2, <1>3 DEF QuitSent
<1> QED BY <1>1, <1>4, <1>5, <1>7, <1>8 DEF Says

LEMMA KickBotSays ==
  ASSUME TypeOK, NEW by \in Nicks, NEW c \in Chans, KickBot(by, c)
  PROVE  \E m : Says(m)
<1>1. PICK m : m = [type |-> "KICK", nick |-> Bot, by |-> by, chan |-> c]
  OBVIOUS
<1>2. Tells(m) /\ online' = online /\ net' = net
  BY <1>1 DEF KickBot, network
<1>3. m.type = "KICK" /\ m.nick = Bot /\ m \in [type : {"KICK"}, nick : {Bot}, by : Nicks, chan : Chans]
  BY <1>1
<1>4. m \in Told
  BY <1>3, ToldSets
<1>5. NetTyped(online', net')
  BY <1>2, NetIsTyped
<1>6. \A d \in Chans : \A k \in DOMAIN net'[d] : k \in NetMembers(d) /\ ~Departs(m, d, k)
  BY <1>2, <1>3, Fresh, NetIsTyped DEF NetTyped, NetMembers, Departs
<1>7. \A k \in online' : k \in online /\ ~QuitSent(m, k)
  BY <1>2, <1>3 DEF QuitSent
<1> QED BY <1>2, <1>4, <1>5, <1>6, <1>7 DEF Says

\* A change of a status brings nobody and takes nobody away.
LEMMA ModeSays ==
  ASSUME TypeOK, NEW m \in Told, m.type = "MODE", Tells(m), online' = online, NetTyped(online, net'),
         \A d \in Chans : DOMAIN net'[d] = NetMembers(d)
  PROVE  Says(m)
  BY DEF Says, Departs, QuitSent

LEMMA GiveSays ==
  ASSUME TypeOK, NEW n \in Nicks, NEW c \in Chans, NEW s \in Statuses, Give(n, c, s)
  PROVE  \E m : Says(m)
<1>1. PICK m, held : /\ m = [type |-> "MODE", nick |-> n, chan |-> c, status |-> s, what |-> TRUE]
                    /\ held = Gives(net[c][n], {s}, "user")
  OBVIOUS
<1>2. Tells(m) /\ online' = online /\ net' = [net EXCEPT ![c][n] = held] /\ n \in NetMembers(c)
  BY <1>1 DEF Give
<1>3. DOMAIN net = Chans /\ net[c][n] \in SUBSET (Statuses \X Givers)
  BY <1>2 DEF TypeOK, NetMembers
<1>4. held \in SUBSET (Statuses \X Givers)
  <2>1. <<s, "user">> \in Statuses \X Givers
    BY DEF Givers
  <2>2. held \subseteq net[c][n] \cup {<<s, "user">>}
    BY <1>1 DEF Gives
  <2> QED BY <1>3, <2>1, <2>2
<1>5. m.type = "MODE" /\ m \in Told
  <2>1. m \in [type : {"MODE"}, nick : Nicks, chan : Chans, status : Statuses, what : {TRUE}]
    BY <1>1
  <2> QED BY <1>1, <2>1, ToldSets
<1>6. NetTyped(online, net') /\ \A d \in Chans : DOMAIN net'[d] = NetMembers(d)
  BY <1>2, <1>3, <1>4, MarkedTyped, MarkedMembers
<1> QED BY <1>2, <1>5, <1>6, ModeSays

LEMMA TakeSays ==
  ASSUME TypeOK, NEW by \in Nicks, NEW n \in Nicks, NEW c \in Chans, NEW s \in Statuses, Take(by, n, c, s)
  PROVE  \E m : Says(m)
<1>1. PICK m, held : /\ m = [type |-> "MODE", nick |-> n, by |-> by, chan |-> c, status |-> s, what |-> FALSE]
                    /\ held = Takes(net[c][n], {s})
  OBVIOUS
<1>2. Tells(m) /\ online' = online /\ net' = [net EXCEPT ![c][n] = held] /\ n \in NetMembers(c)
  BY <1>1 DEF Take
<1>3. DOMAIN net = Chans /\ net[c][n] \in SUBSET (Statuses \X Givers)
  BY <1>2 DEF TypeOK, NetMembers
<1>4. held \in SUBSET (Statuses \X Givers)
  BY <1>1, <1>3 DEF Takes
<1>5. m.type = "MODE" /\ m \in Told
  <2>1. m \in [type : {"MODE"}, nick : Nicks \cup {Bot}, by : Nicks, chan : Chans, status : Statuses, what : {FALSE}]
    BY <1>1
  <2> QED BY <1>1, <2>1, ToldSets
<1>6. NetTyped(online, net') /\ \A d \in Chans : DOMAIN net'[d] = NetMembers(d)
  BY <1>2, <1>3, <1>4, MarkedTyped, MarkedMembers
<1> QED BY <1>2, <1>5, <1>6, ModeSays

LEMMA TakeFromBotSays ==
  ASSUME TypeOK, NEW by \in Nicks, NEW c \in Chans, NEW s \in Statuses, TakeFromBot(by, c, s)
  PROVE  \E m : Says(m)
<1>1. PICK m : m = [type |-> "MODE", nick |-> Bot, by |-> by, chan |-> c, status |-> s, what |-> FALSE]
  OBVIOUS
<1>2. Tells(m) /\ online' = online /\ net' = net
  BY <1>1 DEF TakeFromBot, network
<1>3. m.type = "MODE" /\ m \in Told
  <2>1. m \in [type : {"MODE"}, nick : Nicks \cup {Bot}, by : Nicks, chan : Chans, status : Statuses, what : {FALSE}]
    BY <1>1
  <2> QED BY <1>1, <2>1, ToldSets
<1>4. NetTyped(online, net') /\ \A d \in Chans : DOMAIN net'[d] = NetMembers(d)
  BY <1>2, NetIsTyped DEF NetMembers
<1> QED BY <1>2, <1>3, <1>4, ModeSays

LEMMA NetworkSays ==
  ASSUME TypeOK, Network
  PROVE  Obey \/ cleanup_reconnect \/ \E m : Says(m)
<1>1. InUse \subseteq Statuses
  BY DEF InUse
<1> QED BY <1>1, ConnectSays, DisconnectSays, JoinSays, LeaveSays, KickBotSays, GiveSays, TakeSays, TakeFromBotSays
        DEF Network

-----------------------------------------------------------------------------
(* What the network leaves *)

LEMMA NetworkKeeps ==
  ASSUME Good0, UNCHANGED <<services, given>>, NetTyped(online', net'),
         toServices' \in Seq(Told), toNet' \in Seq(NetLine)
  PROVE  Good0' /\ Emptied
<1>1. Typed /\ TypeOK /\ MembersAreOnline
  BY DEF Good0, Typed
<1>2. /\ nicks' = nicks /\ account' = account /\ wchans' = wchans /\ fault' = fault
      /\ access' = access /\ options' = options /\ setting' = setting
  BY DEF services, given
<1>3. TypeOK'
  BY <1>1, <1>2 DEF TypeOK, NetTyped
<1>4. MembersAreOnline'
  BY <1>1, <1>2 DEF MembersAreOnline
<1>5. wchans' \in Lists
  BY <1>1, <1>2 DEF Typed
<1>6. Emptied
  BY <1>2 DEF Emptied
<1> QED BY <1>3, <1>4, <1>5, <1>6 DEF Good0, Typed

LEMMA SaysKeeps ==
  ASSUME Good0, NEW m, Says(m)
  PROVE  Good0' /\ Emptied
<1>1. /\ UNCHANGED <<services, given>> /\ toNet' = toNet /\ toServices' = Append(toServices, m)
      /\ m \in Told /\ NetTyped(online', net')
  BY DEF Says, Tells
<1>2. toServices \in Seq(Told) /\ toNet \in Seq(NetLine)
  BY DEF Good0, Typed
<1>3. toServices' \in Seq(Told)
  BY <1>1, <1>2
<1>4. toNet' \in Seq(NetLine)
  BY <1>1, <1>2
<1> QED BY <1>1, <1>3, <1>4, NetworkKeeps

\* Whom a line of the services takes away, and nobody else comes.
ObeyLine ==
  /\ toNet # <<>> /\ Head(toNet) \in NetLine /\ toNet' = Tail(toNet) /\ ~fault
  /\ UNCHANGED <<services, given, toServices>> /\ NetTyped(online', net')
  /\ \A n \in online' : n \in online /\ ~(Head(toNet).type = "KILL" /\ Head(toNet).nick = n)
  /\ \A c \in Chans : \A n \in DOMAIN net'[c] : n \in NetMembers(c) /\ ~Expels(Head(toNet), c, n)

LEMMA ObeySays ==
  ASSUME Typed, Obey
  PROVE  ObeyLine
<1>1. PICK m : m = Head(toNet)
  OBVIOUS
<1>2. toNet \in Seq(NetLine) /\ toNet # <<>> /\ toNet' = Tail(toNet) /\ ~fault
  BY DEF Typed, Obey
<1>3. m \in NetLine
  BY <1>1, <1>2
<1>4. m.nick \in Nicks /\ m.type \in {"KILL", "KICK", "MODE"} /\ (m.type # "KILL" => m.chan \in Chans)
      /\ (m.type = "MODE" => m.what \in BOOLEAN /\ m.flags \in SUBSET Statuses)
  BY <1>3, SentLine
<1>5. /\ UNCHANGED <<services, given, toServices>>
      /\ online' = (IF m.type = "KILL" THEN online \ {m.nick} ELSE online)
      /\ net' = (IF m.type = "KILL" THEN WithoutNicks({m.nick})
                 ELSE IF m.nick \notin NetMembers(m.chan) THEN net
                 ELSE IF m.type = "KICK" THEN Without(m.nick, m.chan)
                 ELSE [net EXCEPT ![m.chan][m.nick] =
                         IF m.what THEN Gives(@, m.flags, "services") ELSE Takes(@, m.flags)])
  BY <1>1 DEF Obey
<1>6. TypeOK /\ DOMAIN net = Chans
  BY DEF Typed, TypeOK
<1>7. /\ NetTyped(online', net')
      /\ \A n \in online' : n \in online /\ ~(m.type = "KILL" /\ m.nick = n)
      /\ \A c \in Chans : \A n \in DOMAIN net'[c] : n \in NetMembers(c) /\ ~Expels(m, c, n)
  <2>1. CASE m.type = "KILL"
    <3>1. online' = online \ {m.nick} /\ net' = WithoutNicks({m.nick})
      BY <1>5, <2>1
    <3>2. NetTyped(online', net')
      BY <1>6, <3>1, WithoutTyped
    <3>3. \A c \in Chans : DOMAIN net'[c] = NetMembers(c) \ {m.nick}
      BY <3>1 DEF WithoutNicks, Restrict
    <3>4. \A c \in Chans : \A n \in DOMAIN net'[c] : n \in NetMembers(c) /\ ~Expels(m, c, n)
      BY <3>3 DEF Expels
    <3> QED BY <3>1, <3>2, <3>4
  <2>2. CASE m.type # "KILL" /\ m.nick \notin NetMembers(m.chan)
    <3>1. online' = online /\ net' = net
      BY <1>5, <2>2
    <3>2. NetTyped(online', net')
      BY <1>6, <3>1, NetIsTyped
    <3>3. \A c \in Chans : \A n \in DOMAIN net'[c] : n \in NetMembers(c) /\ ~Expels(m, c, n)
      BY <2>2, <3>1 DEF NetMembers, Expels
    <3> QED BY <2>2, <3>1, <3>2, <3>3
  <2>3. CASE m.type = "KICK" /\ m.nick \in NetMembers(m.chan)
    <3>1. online' = online /\ net' = Without(m.nick, m.chan)
      BY <1>5, <2>3
    <3>2. NetTyped(online', net')
      BY <1>6, <3>1, WithoutTyped
    <3>3. \A c \in Chans : DOMAIN net'[c] = IF c = m.chan THEN NetMembers(c) \ {m.nick} ELSE NetMembers(c)
      <4>1. PICK w : w = Without(m.nick, m.chan)
        OBVIOUS
      <4>2. \A d \in Chans : w[d] = IF d = m.chan THEN Restrict(net[m.chan], NetMembers(m.chan) \ {m.nick})
                                    ELSE net[d]
        BY <1>6, <4>1 DEF Without
      <4> QED BY <3>1, <4>1, <4>2 DEF Restrict, NetMembers
    <3>4. \A c \in Chans : \A n \in DOMAIN net'[c] : n \in NetMembers(c) /\ ~Expels(m, c, n)
      BY <2>3, <3>3 DEF Expels
    <3> QED BY <2>3, <3>1, <3>2, <3>4
  <2>4. CASE m.type = "MODE" /\ m.nick \in NetMembers(m.chan)
    <3>1. PICK held : held = (IF m.what THEN Gives(net[m.chan][m.nick], m.flags, "services")
                              ELSE Takes(net[m.chan][m.nick], m.flags))
      OBVIOUS
    <3>2. online' = online /\ net' = [net EXCEPT ![m.chan][m.nick] = held]
      BY <1>5, <2>4, <3>1
    <3>3. m.chan \in Chans /\ m.flags \subseteq Statuses /\ net[m.chan][m.nick] \subseteq Statuses \X Givers
      BY <1>4, <1>6, <2>4 DEF TypeOK, NetMembers
    <3>4. held \subseteq net[m.chan][m.nick] \cup {<<s, "services">> : s \in m.flags}
      BY <3>1 DEF Gives, Takes
    <3>5. \A s \in m.flags : <<s, "services">> \in Statuses \X Givers
      BY <3>3 DEF Givers
    <3>6. held \in SUBSET (Statuses \X Givers)
      BY <3>3, <3>4, <3>5
    <3>7. NetTyped(online', net') /\ \A c \in Chans : DOMAIN net'[c] = NetMembers(c)
      BY <1>6, <2>4, <3>2, <3>6, MarkedTyped, MarkedMembers
    <3>8. \A c \in Chans : \A n \in DOMAIN net'[c] : n \in NetMembers(c) /\ ~Expels(m, c, n)
      BY <2>4, <3>7 DEF Expels
    <3> QED BY <2>4, <3>2, <3>7, <3>8
  <2> QED BY <1>4, <2>1, <2>2, <2>3, <2>4
<1> QED BY <1>1, <1>2, <1>3, <1>5, <1>7 DEF ObeyLine

LEMMA ObeyKeeps ==
  ASSUME Good0, ObeyLine
  PROVE  Good0' /\ Emptied
<1>1. toServices \in Seq(Told) /\ toNet \in Seq(NetLine)
  BY DEF Good0, Typed
<1>2. /\ UNCHANGED <<services, given>> /\ NetTyped(online', net')
      /\ toServices' = toServices /\ toNet' = Tail(toNet) /\ toNet # <<>>
  BY DEF ObeyLine
<1>3. toServices' \in Seq(Told) /\ toNet' \in Seq(NetLine)
  BY <1>1, <1>2
<1> QED BY <1>2, <1>3, NetworkKeeps

LEMMA NoLists ==
  ASSUME NEW w, w = <<>>
  PROVE  w \in Lists /\ DOMAIN w = {}
<1>1. w \in Seq(Seq(Member)) /\ Len(w) = 0 /\ DOMAIN w = {}
  OBVIOUS
<1>2. w = [c \in DOMAIN w |-> w[c]]
  BY <1>1
<1> QED BY <1>1, <1>2, ListsDef

\* The link is made again: nothing is known, and everything is told anew.
Relinked ==
  /\ ~fault /\ fault' = fault /\ online' = online /\ UNCHANGED given
  /\ nicks' = {} /\ account' = [n \in Nicks |-> None] /\ wchans' = <<>> /\ toNet' = <<>>
  /\ NetTyped(online', net') /\ \A c \in Chans : DOMAIN net'[c] = NetMembers(c)
  /\ toServices' \in Seq(Told)
  /\ \A i \in 1 .. Len(toServices') : toServices'[i].type # "QUIT"
  /\ \A n \in online : \E i \in 1 .. Len(toServices') : toServices'[i].type = "UID" /\ toServices'[i].nick = n
  /\ \E k \in Nat : /\ \A i \in (k + 1) .. Len(toServices') : toServices'[i].type \in {"SJOIN", "TOPIC"}
                    /\ \A c \in Chans : \A n \in NetMembers(c) :
                         \E i \in (k + 1) .. Len(toServices') : Comes(toServices'[i], c, n)

LEMMA ReconnectRelinks ==
  ASSUME Typed, cleanup_reconnect
  PROVE  Relinked
<1>1. /\ ~fault /\ fault' = fault /\ online' = online /\ UNCHANGED given
      /\ nicks' = {} /\ account' = [n \in Nicks |-> None] /\ wchans' = <<>> /\ toNet' = <<>>
      /\ net' = [c \in Chans |-> [n \in NetMembers(c) |-> {f[1] : f \in net[c][n]} \X {"server"}]]
  BY DEF cleanup_reconnect
<1>2. NetTyped(online, net)
  BY NetIsTyped DEF Typed
<1>3. NetTyped(online', net') /\ \A c \in Chans : DOMAIN net'[c] = NetMembers(c)
  <2> SUFFICES ASSUME NEW c \in Chans
               PROVE  /\ DOMAIN net'[c] = NetMembers(c) /\ DOMAIN net'[c] \subseteq online
                      /\ \A n \in DOMAIN net'[c] : net'[c][n] \subseteq Statuses \X Givers
    BY <1>1, <1>2 DEF NetTyped
  <2>1. net'[c] = [n \in NetMembers(c) |-> {f[1] : f \in net[c][n]} \X {"server"}]
    BY <1>1
  <2>2. NetMembers(c) \subseteq online
    BY <1>2 DEF NetTyped, NetMembers
  <2>3. ASSUME NEW n \in NetMembers(c) PROVE net'[c][n] \subseteq Statuses \X Givers
    <3>1. net[c][n] \subseteq Statuses \X Givers
      BY <1>2 DEF NetTyped, NetMembers
    <3>2. {f[1] : f \in net[c][n]} \subseteq Statuses
      BY <3>1
    <3> QED BY <2>1, <3>2 DEF Givers
  <2> QED BY <2>1, <2>2, <2>3
<1>4. PICK users, chans, members :
        /\ users \in SetToSeqs(online) /\ chans \in SetToSeqs(Occupied)
        /\ \A c \in Chans : members[c] \in SetToSeqs(NetMembers(c))
        /\ toServices' = Burst(users, chans, members)
  BY DEF cleanup_reconnect, Occupied
<1>5. PICK B : B = Burst(users, chans, members)
  OBVIOUS
<1>6. /\ B \in Seq(Told) /\ Len(users) \in Nat
      /\ \A n \in online : \E i \in 1 .. Len(B) : B[i].type = "UID" /\ B[i].nick = n
      /\ \A i \in 1 .. Len(B) : B[i].type # "QUIT"
      /\ \A i \in (Len(users) + 1) .. Len(B) : B[i].type \in {"SJOIN", "TOPIC"}
      /\ \A c \in Chans : \A n \in NetMembers(c) : \E i \in (Len(users) + 1) .. Len(B) :
           B[i].type = "SJOIN" /\ B[i].chan = c /\ \E j \in 1 .. Len(B[i].list) : B[i].list[j].nick = n
  BY <1>4, <1>5, BurstLines
<1>7. \A c \in Chans : \A n \in NetMembers(c) : \E i \in (Len(users) + 1) .. Len(B) : Comes(B[i], c, n)
  BY <1>6 DEF Comes
<1>8. toServices' = B
  BY <1>4, <1>5
<1> QED BY <1>1, <1>3, <1>6, <1>7, <1>8 DEF Relinked

LEMMA RelinkedKeeps ==
  ASSUME Good0, Relinked
  PROVE  Good0' /\ Emptied
<1>1. TypeOK
  BY DEF Good0, Typed
<1>2. /\ fault' = fault /\ access' = access /\ options' = options /\ setting' = setting
      /\ nicks' = {} /\ account' = [n \in Nicks |-> None] /\ wchans' = <<>> /\ toNet' = <<>>
      /\ NetTyped(online', net') /\ toServices' \in Seq(Told)
  BY DEF Relinked, given
<1>3. wchans' \in Lists /\ DOMAIN wchans' = {}
  BY <1>2, NoLists
<1>4. toNet' \in Seq(NetLine)
  BY <1>2
<1>5. account' \in [Nicks -> Users \cup {None}]
  BY <1>2
<1>6. TypeOK'
  BY <1>1, <1>2, <1>3, <1>5 DEF TypeOK, NetTyped
<1>7. MembersAreOnline' /\ Emptied
  BY <1>3 DEF MembersAreOnline, Emptied
<1> QED BY <1>2, <1>3, <1>4, <1>6, <1>7 DEF Good0, Typed

-----------------------------------------------------------------------------
(* Types, the lists of nicks that are there, and channels that go *)

LEMMA InitGood0 ==
  ASSUME Init
  PROVE  Good0
<1>1. /\ nicks = {} /\ account = [n \in Nicks |-> None] /\ wchans = <<>> /\ fault = FALSE
      /\ setting \in Settings
      /\ access \in [Chans -> [Users -> setting.accesses]]
      /\ options \in [Chans -> setting.options]
      /\ online = {} /\ net = [c \in Chans |-> <<>>]
      /\ toServices = <<>> /\ toNet = <<>>
  BY DEF Init
<1>2. wchans \in Lists /\ DOMAIN wchans = {}
  BY <1>1, NoLists
<1>3. DOMAIN net = Chans /\ \A c \in Chans : DOMAIN net[c] = {}
  <2>1. \A c \in Chans : net[c] = <<>>
    BY <1>1
  <2> QED BY <1>1, <2>1, NoLists
<1>4. TypeOK
  BY <1>1, <1>2, <1>3 DEF TypeOK
<1>5. MembersAreOnline
  BY <1>2 DEF MembersAreOnline
<1>6. toServices \in Seq(Told) /\ toNet \in Seq(NetLine)
  BY <1>1
<1> QED BY <1>2, <1>4, <1>5, <1>6 DEF Good0, Typed

LEMMA NextKeepsGood0 ==
  ASSUME Good0, [Next]_vars
  PROVE  Good0' /\ Emptied
<1>1. Typed /\ TypeOK /\ toServices \in Seq(Told)
  BY DEF Good0, Typed
<1>2. CASE Handlers
  <2>1. /\ Services(Line, Kept(Line)) /\ toServices # <<>> /\ toServices' = Tail(toServices)
        /\ nicks' \subseteq Nicks /\ account' \in [Nicks -> Users \cup {None}]
    BY <1>2, HandlersServe
  <2>2. PICK T : Serves(T, Kept(Line))
    BY <2>1 DEF Services
  <2>3. toServices' \in Seq(Told)
    BY <1>1, <2>1
  <2> QED BY <2>1, <2>2, <2>3, ServedKeeps
<1>3. CASE UserCommands
  <2>1. PICK T : Serves(T, There)
    BY <1>3, CommandsServe
  <2>2. /\ nicks' \subseteq Nicks /\ account' \in [Nicks -> Users \cup {None}]
        /\ toServices' = toServices
    BY <1>3, CommandsServe
  <2> QED BY <1>1, <2>1, <2>2, ServedKeeps
<1>4. CASE Network
  BY <1>1, <1>4, NetworkSays, SaysKeeps, ObeySays, ObeyKeeps, ReconnectRelinks, RelinkedKeeps
<1>5. CASE UNCHANGED vars
  <2>1. UNCHANGED <<services, given>> /\ online' = online /\ net' = net /\ toServices' = toServices /\ toNet' = toNet
    BY <1>5 DEF vars, services, given
  <2>2. NetTyped(online', net') /\ toServices' \in Seq(Told) /\ toNet' \in Seq(NetLine)
    BY <1>1, <2>1, NetIsTyped DEF Typed
  <2> QED BY <2>1, <2>2, NetworkKeeps
<1> QED BY <1>2, <1>3, <1>4, <1>5 DEF Next

\* In every reachable state the tables, the accounts, the lines under way and the network's
\* picture are what the declarations say they are, whatever nicks and channels there are.
THEOREM TypeCorrect == Spec => []TypeOK
<1>1. Init => Good0
  BY InitGood0
<1>2. Good0 /\ [Next]_vars => Good0'
  BY NextKeepsGood0
<1>3. Good0 => TypeOK
  BY DEF Good0, Typed
<1> QED BY <1>1, <1>2, <1>3, PTL DEF Spec

\* No member list names a nick that core->nicks has lost: userquit and killuser take the
\* records of a nick out of every channel before the nick goes.
THEOREM MembersCorrect == Spec => []MembersAreOnline
<1>1. Init => Good0
  BY InitGood0
<1>2. Good0 /\ [Next]_vars => Good0'
  BY NextKeepsGood0
<1>3. Good0 => MembersAreOnline
  BY DEF Good0
<1> QED BY <1>1, <1>2, <1>3, PTL DEF Spec

\* Whatever takes the last member out of a list, takes the channel out of core->wchans.
THEOREM EmptiedCorrect == Spec => EmptiedWchansGo
<1>1. Init => Good0
  BY InitGood0
<1>2. Good0 /\ [Next]_vars => Good0'
  BY NextKeepsGood0
<1>3. Good0 /\ [Next]_vars =>
        [\A c \in DOMAIN wchans \cap DOMAIN wchans' : wchans[c] # <<>> => wchans'[c] # <<>>]_vars
  BY NextKeepsGood0 DEF Emptied
<1> QED BY <1>1, <1>2, <1>3, PTL DEF Spec, EmptiedWchansGo

-----------------------------------------------------------------------------
(* Who is in a channel, or will be when both sides have read what is under way *)

\* The lines q bring n into the channel c, and do not take it out again.
Joining(q, c, n) ==
  \E i \in 1 .. Len(q) : Comes(q[i], c, n) /\ \A j \in (i + 1) .. Len(q) : ~Departs(q[j], c, n)

Staying(q, c, n) == \A i \in 1 .. Len(q) : ~Departs(q[i], c, n)

\* The same for the network as a whole.
Arriving(q, n) ==
  \E i \in 1 .. Len(q) : /\ q[i].type = "UID" /\ q[i].nick = n
                         /\ \A j \in (i + 1) .. Len(q) : ~QuitSent(q[j], n)

Remains(q, n) == \A j \in 1 .. Len(q) : ~QuitSent(q[j], n)

\* A nick of the network is known to the services, will be, or has been killed by them.
Heard(n) == KillSent(toNet, n) \/ Arriving(toServices, n) \/ (n \in nicks /\ Remains(toServices, n))

\* A member on the network is listed, will be, or has been expelled by the services.
Known(c, n) == \/ Expelled(toNet, c, n) \/ Joining(toServices, c, n)
               \/ (Listed(wchans, c, n) /\ Staying(toServices, c, n))

\* A handler that has used freed memory may have left a member out, but has sent a kick before.
HeardInv == \A n \in online : Heard(n)
KnownInv == (fault => toNet = <<>>) => \A c \in Chans : \A n \in NetMembers(c) \ Nokick : Known(c, n)

Good1 == Good0 /\ HeardInv /\ KnownInv

LEMMA TailStays ==
  ASSUME NEW q \in Seq(Told), q # <<>>, NEW c, NEW n
  PROVE  /\ Staying(q, c, n) => Staying(Tail(q), c, n) /\ ~Departs(Head(q), c, n)
         /\ Joining(q, c, n) => Joining(Tail(q), c, n) \/ (Comes(Head(q), c, n) /\ Staying(Tail(q), c, n))
<1>1. /\ Head(q) = q[1] /\ Len(q) \in Nat /\ Len(q) >= 1 /\ Len(Tail(q)) = Len(q) - 1
      /\ \A i \in 1 .. Len(q) - 1 : Tail(q)[i] = q[i + 1]
  BY HeadTail
<1>2. ASSUME Staying(q, c, n) PROVE Staying(Tail(q), c, n) /\ ~Departs(Head(q), c, n)
  BY <1>1, <1>2 DEF Staying
<1>3. ASSUME Joining(q, c, n) PROVE Joining(Tail(q), c, n) \/ (Comes(Head(q), c, n) /\ Staying(Tail(q), c, n))
  <2>1. PICK i \in 1 .. Len(q) : Comes(q[i], c, n) /\ \A j \in (i + 1) .. Len(q) : ~Departs(q[j], c, n)
    BY <1>3 DEF Joining
  <2>2. CASE i = 1
    BY <1>1, <2>1, <2>2 DEF Staying
  <2>3. CASE i # 1
    <3>1. i - 1 \in 1 .. Len(Tail(q)) /\ Tail(q)[i - 1] = q[i]
      BY <1>1, <2>3
    <3>2. \A j \in (i - 1 + 1) .. Len(Tail(q)) : ~Departs(Tail(q)[j], c, n)
      BY <1>1, <2>1, <2>3
    <3> QED BY <2>1, <3>1, <3>2 DEF Joining
  <2> QED BY <2>2, <2>3
<1> QED BY <1>2, <1>3

LEMMA TailRemains ==
  ASSUME NEW q \in Seq(Told), q # <<>>, NEW n
  PROVE  /\ Remains(q, n) => Remains(Tail(q), n) /\ ~QuitSent(Head(q), n)
         /\ Arriving(q, n) => \/ Arriving(Tail(q), n)
                              \/ Head(q).type = "UID" /\ Head(q).nick = n /\ Remains(Tail(q), n)
<1>1. /\ Head(q) = q[1] /\ Len(q) \in Nat /\ Len(q) >= 1 /\ Len(Tail(q)) = Len(q) - 1
      /\ \A i \in 1 .. Len(q) - 1 : Tail(q)[i] = q[i + 1]
  BY HeadTail
<1>2. ASSUME Remains(q, n) PROVE Remains(Tail(q), n) /\ ~QuitSent(Head(q), n)
  BY <1>1, <1>2 DEF Remains
<1>3. ASSUME Arriving(q, n)
      PROVE  Arriving(Tail(q), n) \/ (Head(q).type = "UID" /\ Head(q).nick = n /\ Remains(Tail(q), n))
  <2>1. PICK i \in 1 .. Len(q) : /\ q[i].type = "UID" /\ q[i].nick = n
                                /\ \A j \in (i + 1) .. Len(q) : ~QuitSent(q[j], n)
    BY <1>3 DEF Arriving
  <2>2. CASE i = 1
    BY <1>1, <2>1, <2>2 DEF Remains
  <2>3. CASE i # 1
    <3>1. i - 1 \in 1 .. Len(Tail(q)) /\ Tail(q)[i - 1] = q[i]
      BY <1>1, <2>3
    <3>2. \A j \in (i - 1 + 1) .. Len(Tail(q)) : ~QuitSent(Tail(q)[j], n)
      BY <1>1, <2>1, <2>3
    <3> QED BY <2>1, <3>1, <3>2 DEF Arriving
  <2> QED BY <2>2, <2>3
<1> QED BY <1>2, <1>3

LEMMA AppendStays ==
  ASSUME NEW q \in Seq(Told), NEW m \in Told, NEW c, NEW n
  PROVE  /\ Comes(m, c, n) => Joining(Append(q, m), c, n)
         /\ ~Departs(m, c, n) => /\ Staying(q, c, n) => Staying(Append(q, m), c, n)
                                 /\ Joining(q, c, n) => Joining(Append(q, m), c, n)
<1>1. PICK t : t = Append(q, m)
  OBVIOUS
<1>2. /\ Len(q) \in Nat /\ Len(t) = Len(q) + 1 /\ t[Len(q) + 1] = m
      /\ \A i \in 1 .. Len(q) : t[i] = q[i]
  BY <1>1
<1>3. \A i \in 1 .. Len(t) : (i \in 1 .. Len(q) /\ t[i] = q[i]) \/ (i = Len(q) + 1 /\ t[i] = m)
  BY <1>2
<1>4. ASSUME Comes(m, c, n) PROVE Joining(t, c, n)
  <2>1. Len(q) + 1 \in 1 .. Len(t) /\ (Len(q) + 1 + 1) .. Len(t) = {}
    BY <1>2
  <2> QED BY <1>2, <1>4, <2>1 DEF Joining
<1>5. ASSUME ~Departs(m, c, n), Staying(q, c, n) PROVE Staying(t, c, n)
  BY <1>3, <1>5 DEF Staying
<1>6. ASSUME ~Departs(m, c, n), Joining(q, c, n) PROVE Joining(t, c, n)
  <2>1. PICK i \in 1 .. Len(q) : Comes(q[i], c, n) /\ \A j \in (i + 1) .. Len(q) : ~Departs(q[j], c, n)
    BY <1>6 DEF Joining
  <2>2. i \in 1 .. Len(t) /\ t[i] = q[i]
    BY <1>2
  <2>3. \A j \in (i + 1) .. Len(t) : ~Departs(t[j], c, n)
    BY <1>2, <1>3, <1>6, <2>1
  <2> QED BY <2>1, <2>2, <2>3 DEF Joining
<1> QED BY <1>1, <1>4, <1>5, <1>6

LEMMA AppendRemains ==
  ASSUME NEW q \in Seq(Told), NEW m \in Told, NEW n
  PROVE  /\ m.type = "UID" /\ m.nick = n => Arriving(Append(q, m), n)
         /\ ~QuitSent(m, n) => /\ Remains(q, n) => Remains(Append(q, m), n)
                               /\ Arriving(q, n) => Arriving(Append(q, m), n)
<1>1. PICK t : t = Append(q, m)
  OBVIOUS
<1>2. /\ Len(q) \in Nat /\ Len(t) = Len(q) + 1 /\ t[Len(q) + 1] = m
      /\ \A i \in 1 .. Len(q) : t[i] = q[i]
  BY <1>1
<1>3. \A i \in 1 .. Len(t) : (i \in 1 .. Len(q) /\ t[i] = q[i]) \/ (i = Len(q) + 1 /\ t[i] = m)
  BY <1>2
<1>4. ASSUME m.type = "UID", m.nick = n PROVE Arriving(t, n)
  <2>1. Len(q) + 1 \in 1 .. Len(t) /\ (Len(q) + 1 + 1) .. Len(t) = {}
    BY <1>2
  <2> QED BY <1>2, <1>4, <2>1 DEF Arriving
<1>5. ASSUME ~QuitSent(m, n), Remains(q, n) PROVE Remains(t, n)
  BY <1>3, <1>5 DEF Remains
<1>6. ASSUME ~QuitSent(m, n), Arriving(q, n) PROVE Arriving(t, n)
  <2>1. PICK i \in 1 .. Len(q) : /\ q[i].type = "UID" /\ q[i].nick = n
                                /\ \A j \in (i + 1) .. Len(q) : ~QuitSent(q[j], n)
    BY <1>6 DEF Arriving
  <2>2. i \in 1 .. Len(t) /\ t[i] = q[i]
    BY <1>2
  <2>3. \A j \in (i + 1) .. Len(t) : ~QuitSent(t[j], n)
    BY <1>2, <1>3, <1>6, <2>1
  <2> QED BY <2>1, <2>2, <2>3 DEF Arriving
<1> QED BY <1>1, <1>4, <1>5, <1>6

\* What the services send stays sent until the network has read it.
LEMMA StillSent ==
  ASSUME NEW q \in Seq(NetLine), NEW s \in Seq(NetLine), NEW c, NEW n
  PROVE  /\ KillSent(q, n) \/ KillSent(s, n) => KillSent(q \o s, n)
         /\ Expelled(q, c, n) \/ Expelled(s, c, n) => Expelled(q \o s, c, n)
<1>1. PICK t : t = q \o s
  OBVIOUS
<1>2. /\ Len(q) \in Nat /\ Len(s) \in Nat /\ Len(t) = Len(q) + Len(s)
      /\ \A i \in 1 .. Len(q) : t[i] = q[i]
      /\ \A i \in 1 .. Len(s) : t[Len(q) + i] = s[i]
  BY <1>1, ConcatIndex
<1>3. /\ \A i \in 1 .. Len(q) : i \in 1 .. Len(t)
      /\ \A i \in 1 .. Len(s) : Len(q) + i \in 1 .. Len(t)
  BY <1>2
<1>4. KillSent(q, n) \/ KillSent(s, n) => KillSent(t, n)
  BY <1>2, <1>3 DEF KillSent
<1>5. Expelled(q, c, n) \/ Expelled(s, c, n) => Expelled(t, c, n)
  BY <1>2, <1>3 DEF Expelled
<1> QED BY <1>1, <1>4, <1>5

LEMMA KillExpels ==
  ASSUME NEW q, NEW c, NEW n, KillSent(q, n)
  PROVE  Expelled(q, c, n)
  BY DEF KillSent, Expelled, Expels

\* The network reads a line.
LEMMA TailSent ==
  ASSUME NEW q \in Seq(NetLine), q # <<>>, NEW c, NEW n
  PROVE  /\ KillSent(q, n) => KillSent(Tail(q), n) \/ (Head(q).type = "KILL" /\ Head(q).nick = n)
         /\ Expelled(q, c, n) => Expelled(Tail(q), c, n) \/ Expels(Head(q), c, n)
<1>1. /\ Head(q) = q[1] /\ Len(q) \in Nat /\ Len(q) >= 1 /\ Len(Tail(q)) = Len(q) - 1
      /\ \A i \in 1 .. Len(q) - 1 : Tail(q)[i] = q[i + 1]
  BY HeadTail
<1>2. \A i \in 1 .. Len(q) : i = 1 \/ (i - 1 \in 1 .. Len(Tail(q)) /\ Tail(q)[i - 1] = q[i])
  BY <1>1
<1>3. KillSent(q, n) => KillSent(Tail(q), n) \/ (Head(q).type = "KILL" /\ Head(q).nick = n)
  BY <1>1, <1>2 DEF KillSent
<1>4. Expelled(q, c, n) => Expelled(Tail(q), c, n) \/ Expels(Head(q), c, n)
  BY <1>1, <1>2 DEF Expelled
<1> QED BY <1>3, <1>4

LEMMA ServiceKeepsKnown ==
  ASSUME Good1, Handlers
  PROVE  HeardInv' /\ KnownInv'
<1>1. Good0 /\ HeardInv /\ KnownInv /\ toServices \in Seq(Told) /\ toNet \in Seq(NetLine) /\ TypeOK
  BY DEF Good1, Good0, Typed
<1>2. /\ Services(Line, Kept(Line)) /\ ~fault /\ toServices # <<>> /\ toServices' = Tail(toServices)
      /\ Line.type = "UID" => Line.nick \in nicks'
  BY <1>1, HandlersServe
<1>3. PICK T : Serves(T, Kept(Line)) /\ \A n \in nicks \ nicks' : QuitSent(Line, n) \/ KillSent(T.sent, n)
  BY <1>2 DEF Services
<1>4. /\ wchans' = T.wchans /\ fault' = T.fault /\ toNet' = toNet \o T.sent
      /\ online' = online /\ net' = net
      /\ T \in Good({}, nicks', Chans \ Full, {})
      /\ T \in Good(Kept(Line), nicks', Chans \ Full, {}) \/ (T.fault /\ T.sent # <<>>)
  BY <1>3 DEF Serves, Leave, network
<1>5. T.sent \in Seq(NetLine) /\ T.fault \in BOOLEAN
  BY <1>4, TableFields DEF Good
<1>6. ASSUME NEW n \in online PROVE Heard(n)'
  <2>1. Heard(n)
    BY <1>1, <1>6 DEF HeardInv
  <2>2. CASE KillSent(toNet, n)
    BY <1>1, <1>4, <1>5, <2>2, StillSent DEF Heard
  <2>3. CASE Arriving(toServices, n)
    <3>1. Arriving(Tail(toServices), n) \/ (Line.type = "UID" /\ Line.nick = n /\ Remains(Tail(toServices), n))
      BY <1>1, <1>2, <2>3, TailRemains DEF Line
    <3> QED BY <1>2, <3>1 DEF Heard
  <2>4. CASE n \in nicks /\ Remains(toServices, n)
    <3>1. Remains(Tail(toServices), n) /\ ~QuitSent(Line, n)
      BY <1>1, <1>2, <2>4, TailRemains DEF Line
    <3>2. n \in nicks' \/ KillSent(T.sent, n)
      BY <1>3, <2>4, <3>1
    <3>3. KillSent(T.sent, n) => KillSent(toNet', n)
      BY <1>1, <1>4, <1>5, StillSent
    <3> QED BY <1>2, <3>1, <3>2, <3>3 DEF Heard
  <2> QED BY <2>1, <2>2, <2>3, <2>4 DEF Heard
<1>7. ASSUME fault' => toNet' = <<>>, NEW c \in Chans, NEW n \in NetMembers(c) \ Nokick PROVE Known(c, n)'
  <2>1. T \in Good(Kept(Line), nicks', Chans \ Full, {})
    <3>1. ~(T.fault /\ T.sent # <<>>)
      <4>1. SUFFICES ASSUME T.fault, T.sent # <<>> PROVE FALSE
        OBVIOUS
      <4>2. Len(toNet \o T.sent) = Len(toNet) + Len(T.sent) /\ Len(T.sent) >= 1 /\ Len(toNet) \in Nat
        BY <1>1, <1>5, <4>1
      <4>3. toNet \o T.sent = <<>>
        BY <1>4, <1>7, <4>1
      <4> QED BY <4>2, <4>3
    <3> QED BY <1>4, <3>1
  <2>2. n \in online /\ n \in Nicks
    BY <1>1, <1>7 DEF TypeOK, NetMembers
  <2>3. Known(c, n) /\ Heard(n)
    BY <1>1, <1>2, <1>7, <2>2 DEF KnownInv, HeardInv
  <2>4. ASSUME Expelled(toNet, c, n) \/ Expelled(T.sent, c, n) PROVE Known(c, n)'
    BY <1>1, <1>4, <1>5, <2>4, StillSent DEF Known
  <2>5. ASSUME <<c, n>> \in Kept(Line), Staying(Tail(toServices), c, n) PROVE Known(c, n)'
    <3>1. Listed(T.wchans, c, n) \/ Expelled(T.sent, c, n)
      BY <2>1, <2>2, <2>5 DEF Good
    <3> QED BY <1>2, <1>4, <2>4, <2>5, <3>1 DEF Known
  <2>6. CASE Expelled(toNet, c, n)
    BY <2>4, <2>6
  <2>7. CASE Joining(toServices, c, n)
    <3>1. Joining(Tail(toServices), c, n) \/ (Comes(Line, c, n) /\ Staying(Tail(toServices), c, n))
      BY <1>1, <1>2, <2>7, TailStays DEF Line
    <3>2. ASSUME Comes(Line, c, n), Staying(Tail(toServices), c, n) PROVE Known(c, n)'
      <4>1. CASE KillSent(toNet, n)
        BY <2>4, <4>1, KillExpels
      <4>2. CASE Arriving(toServices, n)
        <5>1. Line.type # "UID"
          BY <3>2 DEF Comes
        <5>2. Arriving(Tail(toServices), n)
          BY <1>1, <1>2, <4>2, <5>1, TailRemains DEF Line
        <5> QED BY <3>2, <5>2 DEF Arriving, Staying, Departs
      <4>3. CASE n \in nicks
        <5>1. <<c, n>> \in Kept(Line)
          BY <1>7, <2>2, <3>2, <4>3 DEF Kept
        <5> QED BY <2>5, <3>2, <5>1
      <4> QED BY <2>3, <4>1, <4>2, <4>3 DEF Heard
    <3> QED BY <1>2, <3>1, <3>2 DEF Known
  <2>8. CASE Listed(wchans, c, n) /\ Staying(toServices, c, n)
    <3>1. Staying(Tail(toServices), c, n) /\ ~Departs(Line, c, n)
      BY <1>1, <1>2, <2>8, TailStays DEF Line
    <3>2. <<c, n>> \in Kept(Line)
      BY <1>7, <2>2, <2>8, <3>1 DEF Kept
    <3> QED BY <2>5, <3>1, <3>2
  <2> QED BY <2>3, <2>6, <2>7, <2>8 DEF Known
<1>8. HeardInv'
  BY <1>4, <1>6 DEF HeardInv
<1>9. KnownInv'
  BY <1>4, <1>7 DEF KnownInv, NetMembers
<1> QED BY <1>8, <1>9

LEMMA CommandKeepsKnown ==
  ASSUME Good1, UserCommands
  PROVE  HeardInv' /\ KnownInv'
<1>1. Good0 /\ HeardInv /\ KnownInv /\ toServices \in Seq(Told) /\ toNet \in Seq(NetLine) /\ TypeOK
  BY DEF Good1, Good0, Typed
<1>2. PICK T : Serves(T, There) /\ \A n \in nicks \ nicks' : KillSent(T.sent, n)
  BY <1>1, CommandsServe
<1>3. ~fault /\ toServices' = toServices
  BY <1>1, CommandsServe
<1>4. /\ wchans' = T.wchans /\ fault' = T.fault /\ toNet' = toNet \o T.sent
      /\ online' = online /\ net' = net
      /\ T \in Good({}, nicks', Chans \ Full, {})
      /\ T \in Good(There, nicks', Chans \ Full, {}) \/ (T.fault /\ T.sent # <<>>)
  BY <1>2 DEF Serves, Leave, network
<1>5. T.sent \in Seq(NetLine) /\ T.fault \in BOOLEAN
  BY <1>4, TableFields DEF Good
<1>6. ASSUME NEW n \in online PROVE Heard(n)'
  <2>1. Heard(n)
    BY <1>1, <1>6 DEF HeardInv
  <2>2. KillSent(toNet, n) \/ KillSent(T.sent, n) => KillSent(toNet', n)
    BY <1>1, <1>4, <1>5, StillSent
  <2> QED BY <1>2, <1>3, <2>1, <2>2 DEF Heard
<1>7. ASSUME fault' => toNet' = <<>>, NEW c \in Chans, NEW n \in NetMembers(c) \ Nokick PROVE Known(c, n)'
  <2>1. T \in Good(There, nicks', Chans \ Full, {})
    <3>1. ~(T.fault /\ T.sent # <<>>)
      <4>1. SUFFICES ASSUME T.fault, T.sent # <<>> PROVE FALSE
        OBVIOUS
      <4>2. Len(toNet \o T.sent) = Len(toNet) + Len(T.sent) /\ Len(T.sent) >= 1 /\ Len(toNet) \in Nat
        BY <1>1, <1>5, <4>1
      <4>3. toNet \o T.sent = <<>>
        BY <1>4, <1>7, <4>1
      <4> QED BY <4>2, <4>3
    <3> QED BY <1>4, <3>1
  <2>2. n \in Nicks
    BY <1>1, <1>7 DEF TypeOK, NetMembers
  <2>3. Known(c, n)
    BY <1>1, <1>3, <1>7 DEF KnownInv
  <2>4. Expelled(toNet, c, n) \/ Expelled(T.sent, c, n) => Expelled(toNet', c, n)
    BY <1>1, <1>4, <1>5, StillSent
  <2>5. Listed(wchans, c, n) => Listed(wchans', c, n) \/ Expelled(T.sent, c, n)
    <3>1. Listed(wchans, c, n) => <<c, n>> \in There
      BY <1>7, <2>2 DEF There
    <3> QED BY <1>4, <2>1, <2>2, <3>1 DEF Good
  <2> QED BY <1>3, <2>3, <2>4, <2>5 DEF Known
<1>8. HeardInv'
  BY <1>4, <1>6 DEF HeardInv
<1>9. KnownInv'
  BY <1>4, <1>7 DEF KnownInv, NetMembers
<1> QED BY <1>8, <1>9

LEMMA SaysKeepsKnown ==
  ASSUME Good1, NEW m, Says(m)
  PROVE  HeardInv' /\ KnownInv'
<1>1. HeardInv /\ KnownInv /\ toServices \in Seq(Told)
  BY DEF Good1, Good0, Typed
<1>2. /\ nicks' = nicks /\ wchans' = wchans /\ fault' = fault /\ toNet' = toNet /\ ~fault
      /\ toServices' = Append(toServices, m) /\ m \in Told
      /\ \A n \in online' : (n \in online /\ ~QuitSent(m, n)) \/ (m.type = "UID" /\ m.nick = n)
      /\ \A c \in Chans : \A n \in DOMAIN net'[c] :
           (n \in NetMembers(c) /\ ~Departs(m, c, n)) \/ Comes(m, c, n)
  BY DEF Says, Tells, services
<1>3. ASSUME NEW n \in online' PROVE Heard(n)'
  <2>1. CASE m.type = "UID" /\ m.nick = n
    BY <1>1, <1>2, <2>1, AppendRemains DEF Heard
  <2>2. CASE n \in online /\ ~QuitSent(m, n)
    <3>1. Heard(n)
      BY <1>1, <2>2 DEF HeardInv
    <3>2. /\ Remains(toServices, n) => Remains(toServices', n)
          /\ Arriving(toServices, n) => Arriving(toServices', n)
      BY <1>1, <1>2, <2>2, AppendRemains
    <3> QED BY <1>2, <3>1, <3>2 DEF Heard
  <2> QED BY <1>2, <1>3, <2>1, <2>2
<1>4. ASSUME NEW c \in Chans, NEW n \in DOMAIN net'[c], n \notin Nokick PROVE Known(c, n)'
  <2>1. CASE Comes(m, c, n)
    BY <1>1, <1>2, <2>1, AppendStays DEF Known
  <2>2. CASE n \in NetMembers(c) /\ ~Departs(m, c, n)
    <3>1. Known(c, n)
      BY <1>1, <1>2, <1>4, <2>2 DEF KnownInv
    <3>2. /\ Staying(toServices, c, n) => Staying(toServices', c, n)
          /\ Joining(toServices, c, n) => Joining(toServices', c, n)
      BY <1>1, <1>2, <2>2, AppendStays
    <3> QED BY <1>2, <3>1, <3>2 DEF Known
  <2> QED BY <1>2, <1>4, <2>1, <2>2
<1>5. HeardInv'
  BY <1>3 DEF HeardInv
<1>6. KnownInv'
  BY <1>4 DEF KnownInv, NetMembers
<1> QED BY <1>5, <1>6

LEMMA ObeyKeepsKnown ==
  ASSUME Good1, ObeyLine
  PROVE  HeardInv' /\ KnownInv'
<1>1. HeardInv /\ KnownInv /\ toNet \in Seq(NetLine)
  BY DEF Good1, Good0, Typed
<1>2. /\ nicks' = nicks /\ wchans' = wchans /\ fault' = fault /\ ~fault /\ toServices' = toServices
      /\ toNet # <<>> /\ toNet' = Tail(toNet)
      /\ \A n \in online' : n \in online /\ ~(Head(toNet).type = "KILL" /\ Head(toNet).nick = n)
      /\ \A c \in Chans : \A n \in DOMAIN net'[c] : n \in NetMembers(c) /\ ~Expels(Head(toNet), c, n)
  BY DEF ObeyLine, services
<1>3. ASSUME NEW n \in online' PROVE Heard(n)'
  <2>1. n \in online /\ ~(Head(toNet).type = "KILL" /\ Head(toNet).nick = n)
    BY <1>2, <1>3
  <2>2. KillSent(toNet, n) => KillSent(toNet', n)
    BY <1>1, <1>2, <2>1, TailSent
  <2>3. Heard(n)
    BY <1>1, <2>1 DEF HeardInv
  <2> QED BY <1>2, <2>2, <2>3 DEF Heard
<1>4. ASSUME NEW c \in Chans, NEW n \in DOMAIN net'[c], n \notin Nokick PROVE Known(c, n)'
  <2>1. n \in NetMembers(c) /\ ~Expels(Head(toNet), c, n)
    BY <1>2, <1>4
  <2>2. Expelled(toNet, c, n) => Expelled(toNet', c, n)
    BY <1>1, <1>2, <2>1, TailSent
  <2>3. Known(c, n)
    BY <1>1, <1>2, <1>4, <2>1 DEF KnownInv
  <2> QED BY <1>2, <2>2, <2>3 DEF Known
<1>5. HeardInv'
  BY <1>3 DEF HeardInv
<1>6. KnownInv'
  BY <1>4 DEF KnownInv, NetMembers
<1> QED BY <1>5, <1>6

LEMMA RelinkedKeepsKnown ==
  ASSUME Relinked
  PROVE  HeardInv' /\ KnownInv'
<1>1. /\ online' = online /\ \A c \in Chans : DOMAIN net'[c] = NetMembers(c)
      /\ \A i \in 1 .. Len(toServices') : toServices'[i].type # "QUIT"
      /\ \A n \in online : \E i \in 1 .. Len(toServices') : toServices'[i].type = "UID" /\ toServices'[i].nick = n
      /\ toServices' \in Seq(Told)
  BY DEF Relinked
<1>2. PICK k \in Nat : /\ \A i \in (k + 1) .. Len(toServices') : toServices'[i].type \in {"SJOIN", "TOPIC"}
                      /\ \A c \in Chans : \A n \in NetMembers(c) :
                           \E i \in (k + 1) .. Len(toServices') : Comes(toServices'[i], c, n)
  BY DEF Relinked
<1>3. Len(toServices') \in Nat
  BY <1>1
<1>4. ASSUME NEW n \in online PROVE Heard(n)'
  <2>1. PICK i \in 1 .. Len(toServices') : toServices'[i].type = "UID" /\ toServices'[i].nick = n
    BY <1>1
  <2>2. \A j \in (i + 1) .. Len(toServices') : ~QuitSent(toServices'[j], n)
    BY <1>1, <1>3 DEF QuitSent
  <2>3. Arriving(toServices', n)
    BY <2>1, <2>2 DEF Arriving
  <2> QED BY <2>3 DEF Heard
<1>5. ASSUME NEW c \in Chans, NEW n \in NetMembers(c) PROVE Known(c, n)'
  <2>1. PICK i \in (k + 1) .. Len(toServices') : Comes(toServices'[i], c, n)
    BY <1>2
  <2>2. i \in 1 .. Len(toServices') /\ \A j \in (i + 1) .. Len(toServices') : ~Departs(toServices'[j], c, n)
    BY <1>2, <1>3 DEF Departs
  <2>3. Joining(toServices', c, n)
    BY <2>1, <2>2 DEF Joining
  <2> QED BY <2>3 DEF Known
<1>6. HeardInv'
  BY <1>1, <1>4 DEF HeardInv
<1>7. KnownInv'
  BY <1>1, <1>5 DEF KnownInv, NetMembers
<1> QED BY <1>6, <1>7

LEMMA InitGood1 ==
  ASSUME Init
  PROVE  Good1
<1>1. online = {} /\ \A c \in Chans : NetMembers(c) = {}
  <2>1. online = {} /\ net = [c \in Chans |-> <<>>]
    BY DEF Init
  <2>2. \A c \in Chans : net[c] = <<>>
    BY <2>1
  <2> QED BY <2>1, <2>2, NoLists DEF NetMembers
<1> QED BY <1>1, InitGood0 DEF Good1, HeardInv, KnownInv

LEMMA NextKeepsGood1 ==
  ASSUME Good1, [Next]_vars
  PROVE  Good1'
<1>1. Good0 /\ HeardInv /\ KnownInv /\ TypeOK /\ Typed
  BY DEF Good1, Good0, Typed
<1>2. Good0'
  BY <1>1, NextKeepsGood0
<1>3. HeardInv' /\ KnownInv'
  <2>1. CASE Handlers
    BY <2>1, ServiceKeepsKnown
  <2>2. CASE UserCommands
    BY <2>2, CommandKeepsKnown
  <2>3. CASE Network
    BY <1>1, <2>3, NetworkSays, SaysKeepsKnown, ObeySays, ObeyKeepsKnown, ReconnectRelinks, RelinkedKeepsKnown
  <2>4. CASE UNCHANGED vars
    BY <1>1, <2>4 DEF vars, HeardInv, KnownInv, Heard, Known, NetMembers
  <2> QED BY <2>1, <2>2, <2>3, <2>4 DEF Next
<1> QED BY <1>2, <1>3 DEF Good1

\* Once both sides have read what was under way, whoever is in a channel of the network is in
\* its list, whatever joins, kicks, kills, renewed links and handlers came in between; nobody
\* is lost but users with the mode q, whom KickUser spares and m_kick deletes.
THEOREM NobodyCorrect == Spec => []NobodyIsMissed
<1>1. Init => Good1
  BY InitGood1
<1>2. Good1 /\ [Next]_vars => Good1'
  BY NextKeepsGood1
<1>3. Good1 => NobodyIsMissed
  <2> SUFFICES ASSUME Good1, AtRest, NEW c \in Chans, NEW n \in NetMembers(c) \ Nokick
               PROVE  IsMember(Tables, c, n)
    BY DEF NobodyIsMissed
  <2>1. toServices = <<>> /\ toNet = <<>> /\ Typed /\ MembersAreOnline /\ KnownInv
    BY DEF AtRest, Good1, Good0
  <2>2. Known(c, n)
    BY <2>1 DEF KnownInv
  <2>3. Listed(wchans, c, n)
    BY <2>1, <2>2 DEF Known, Expelled, Joining
  <2>4. Tables \in TableSet /\ Tables.wchans = wchans
    BY <2>1, TablesGood DEF Good
  <2> QED BY <2>3, <2>4, MemberIsListed
<1> QED BY <1>1, <1>2, <1>3, PTL DEF Spec

-----------------------------------------------------------------------------
(***************************************************************************)
(* STRICTOP, where SASL identifies nobody: then an account is only ever    *)
(* held by the nick of its name.                                           *)
(***************************************************************************)
OwnSession(n) == n \in Users /\ n \in nicks /\ account[n] = n

AccountInv ==
  "sasl" \notin setting.features =>
     /\ \A n \in Nicks : account[n] \in {None, n}
     /\ \A i \in 1 .. Len(toServices) : toServices[i].type = "UID" => toServices[i].svid \in {None, toServices[i].nick}

LEMMA NoneFresh == None \notin Users /\ Users \subseteq Nicks
  BY Fresh, UsersAreNames

LEMMA OwnSessions ==
  ASSUME TypeOK, \A n \in Nicks : account[n] \in {None, n}, NEW n \in Nicks
  PROVE  /\ n \in Users => Sessions(n) \subseteq {n}
         /\ IsAuthed(find_account(n)) <=> OwnSession(n)
         /\ OwnSession(n) => find_account(n) = n
<1>1. nicks \subseteq Nicks /\ account[n] \in Users \cup {None}
  BY DEF TypeOK
<1>2. \A k \in nicks : account[k] \in {None, k}
  BY <1>1
<1>3. n \in Users => n # None
  BY NoneFresh
<1>4. ASSUME n \in Users PROVE Sessions(n) = IF n \in nicks /\ account[n] = n THEN {n} ELSE {}
  BY <1>2, <1>3, <1>4 DEF Sessions
<1>5. ASSUME n \notin Users PROVE find_account(n) = None
  BY <1>1, <1>5 DEF find_account
<1>6. ASSUME n \in Users PROVE find_account(n) = n
  BY <1>6 DEF find_account
<1>7. IsAuthed(find_account(n)) <=> OwnSession(n)
  <2>1. CASE n \in Users
    BY <1>3, <1>4, <1>6, <2>1 DEF IsAuthed, OwnSession
  <2>2. CASE n \notin Users
    BY <1>5, <2>2 DEF IsAuthed, OwnSession
  <2> QED BY <2>1, <2>2
<1>8. n \in Users => Sessions(n) \subseteq {n}
  BY <1>4
<1> QED BY <1>6, <1>7, <1>8 DEF OwnSession

LEMMA HandlersSessions ==
  ASSUME Handlers
  PROVE  m_uid \/ m_quit \/ UNCHANGED <<nicks, account>>
<1>1. m_sjoin \/ m_part \/ m_kick \/ m_mode \/ m_stopic => UNCHANGED <<nicks, account>>
  BY DEF m_sjoin, m_part, m_kick, m_mode, m_stopic, Handled
<1>2. ASSUME m_join PROVE UNCHANGED <<nicks, account>>
  <2>1. PICK T : Handled(T)
    BY <1>2 DEF m_join
  <2> QED BY <2>1 DEF Handled
<1> QED BY <1>1, <1>2 DEF Handlers

LEMMA CommandsSessions ==
  ASSUME UserCommands
  PROVE  (\E n \in Nicks : nick_identify(n)) \/ UNCHANGED <<nicks, account>>
<1>1. \A T : Ordered(T) => UNCHANGED <<nicks, account>>
  BY DEF Ordered
<1>2. ASSUME NEW k \in Nicks, NEW c \in Chans,
             \/ \E n \in Nicks, s \in InUse, what \in BOOLEAN : chan_status(k, n, c, s, what)
             \/ \E s \in InUse : bot_opall(k, c, s)
             \/ \E n \in Nicks : chan_kick(k, n, c)
             \/ \E Q \in SUBSET Nicks : chan_kick_all(k, Q, c) \/ bot_tb(k, Q, c)
             \/ bot_opopop(k, c) \/ chan_resync(k, c)
      PROVE  \E T : Ordered(T)
  <2>1. ASSUME NEW n, NEW s, NEW what, chan_status(k, n, c, s, what) PROVE \E T : Ordered(T)
    BY <2>1 DEF chan_status
  <2>2. ASSUME NEW s, bot_opall(k, c, s) PROVE \E T : Ordered(T)
    BY <2>2 DEF bot_opall
  <2>3. ASSUME NEW n, chan_kick(k, n, c) PROVE \E T : Ordered(T)
    BY <2>3 DEF chan_kick
  <2>4. ASSUME NEW Q, chan_kick_all(k, Q, c) PROVE \E T : Ordered(T)
    BY <2>4 DEF chan_kick_all
  <2>5. ASSUME NEW Q, bot_tb(k, Q, c) PROVE \E T : Ordered(T)
    BY <2>5 DEF bot_tb
  <2>6. CASE chan_resync(k, c)
    BY <2>6 DEF chan_resync
  <2>7. CASE bot_opopop(k, c)
    BY <2>7 DEF bot_opopop
  <2> QED BY <1>2, <2>1, <2>2, <2>3, <2>4, <2>5, <2>6, <2>7, Zenon
<1> QED BY <1>1, <1>2, Zenon DEF UserCommands

\* A session stays until its nick goes.
LEMMA HandlersKeepSessions ==
  ASSUME Good0, AccountInv, "sasl" \notin setting.features, Handlers
  PROVE  /\ AccountInv'
         /\ \A n \in Nicks : /\ OwnSession(n) /\ ~QuitSent(Line, n) /\ ~(Line.type = "UID" /\ Line.nick = n)
                             => OwnSession(n)'
<1>1. Typed /\ TypeOK /\ toServices \in Seq(Told)
  BY DEF Good0, Typed
<1>2. /\ \A n \in Nicks : account[n] \in {None, n}
      /\ \A i \in 1 .. Len(toServices) : toServices[i].type = "UID" => toServices[i].svid \in {None, toServices[i].nick}
  BY DEF AccountInv
<1>3. toServices # <<>> /\ toServices' = Tail(toServices)
  BY HandlersServe
<1>4. \A i \in 1 .. Len(toServices') :
        toServices'[i].type = "UID" => toServices'[i].svid \in {None, toServices'[i].nick}
  <2>1. /\ Len(toServices) \in Nat /\ Len(Tail(toServices)) = Len(toServices) - 1
        /\ \A i \in 1 .. Len(toServices) - 1 : Tail(toServices)[i] = toServices[i + 1]
    BY <1>1, <1>3, HeadTail
  <2> QED BY <1>2, <1>3, <2>1
<1>5. account \in [Nicks -> Users \cup {None}] /\ nicks \subseteq Nicks
  BY <1>1 DEF TypeOK
<1>6. setting' = setting
  <2>1. PICK T : Serves(T, Kept(Line))
    BY HandlersServe DEF Services
  <2> QED BY <2>1 DEF Serves, Leave, given
<1>7. CASE UNCHANGED <<nicks, account>>
  BY <1>2, <1>4, <1>7 DEF AccountInv, OwnSession
<1>8. CASE m_quit
  <2>1. /\ Line.type = "QUIT" /\ nicks' = nicks \ Line.nicks
        /\ account' = [n \in Nicks |-> IF n \in Line.nicks THEN None ELSE account[n]]
    BY <1>1, <1>8, LineTold DEF m_quit, Gone
  <2> QED BY <1>2, <1>4, <2>1 DEF AccountInv, OwnSession, QuitSent
<1>9. CASE m_uid
  <2>1. Line \in Told /\ Line.type = "UID"
    BY <1>1, <1>9, LineTold DEF m_uid
  <2>2. PICK k, svid, u, Q : /\ k = Line.nick /\ svid = Line.svid
                      /\ u = (IF svid = None THEN None ELSE IF k \in Users THEN k ELSE svid)
                      /\ Q = (IF u = None THEN {} ELSE Sessions(u))
    OBVIOUS
  <2>3. k \in Nicks /\ svid \in Users \cup {None} /\ svid \in {None, k}
    <3>1. PICK l : l = toServices[1]
      OBVIOUS
    <3>2. l = Line /\ 1 \in 1 .. Len(toServices)
      BY <1>1, <1>3, <3>1, HeadTail DEF Line
    <3>3. l.svid \in {None, l.nick}
      BY <1>2, <2>1, <3>1, <3>2
    <3> QED BY <2>1, <2>2, <3>2, <3>3, ToldLine
  <2>4. user_login(k, u, Q)
    BY <1>9, <2>2 DEF m_uid
  <2>5. u \in {None, k} /\ Q \subseteq {k}
    <3>1. u \in {None, k} /\ (u = None \/ u \in Users)
      BY <2>2, <2>3
    <3>2. u # None => Sessions(u) \subseteq {u}
      BY <1>1, <1>2, <3>1, NoneFresh, OwnSessions
    <3> QED BY <2>2, <3>1, <3>2
  <2>6. /\ nicks' = (nicks \ Q) \cup {k}
        /\ account' = [n \in Nicks |-> IF n = k THEN u ELSE IF n \in Q THEN None ELSE account[n]]
    BY <2>4 DEF user_login
  <2>7. \A n \in Nicks : account'[n] \in {None, n}
    BY <1>2, <2>5, <2>6
  <2>8. \A n \in Nicks : OwnSession(n) /\ n # k => OwnSession(n)'
    BY <2>5, <2>6 DEF OwnSession
  <2> QED BY <1>4, <2>1, <2>2, <2>7, <2>8 DEF AccountInv
<1> QED BY <1>7, <1>8, <1>9, HandlersSessions

LEMMA CommandsKeepSessions ==
  ASSUME Good0, AccountInv, "sasl" \notin setting.features, UserCommands
  PROVE  /\ AccountInv'
         /\ \A n \in Nicks : OwnSession(n) => OwnSession(n)'
<1>1. Typed /\ TypeOK
  BY DEF Good0, Typed
<1>2. /\ \A n \in Nicks : account[n] \in {None, n}
      /\ \A i \in 1 .. Len(toServices) : toServices[i].type = "UID" => toServices[i].svid \in {None, toServices[i].nick}
  BY DEF AccountInv
<1>3. toServices' = toServices /\ setting' = setting
  <2>1. PICK T : Serves(T, There)
    BY CommandsServe
  <2> QED BY <2>1, CommandsServe DEF Serves, Leave, given
<1>4. account \in [Nicks -> Users \cup {None}] /\ nicks \subseteq Nicks
  BY <1>1 DEF TypeOK
<1>5. CASE UNCHANGED <<nicks, account>>
  BY <1>2, <1>3, <1>5 DEF AccountInv, OwnSession
<1>6. ASSUME NEW k \in Nicks, nick_identify(k)
      PROVE  AccountInv' /\ \A n \in Nicks : OwnSession(n) => OwnSession(n)'
  <2>1. k \in nicks \cap Users /\ account[k] = None /\ user_login(k, k, Sessions(k))
    BY <1>6 DEF nick_identify
  <2>2. Sessions(k) \subseteq {k}
    BY <1>1, <1>2, <2>1, OwnSessions
  <2>3. /\ nicks' = (nicks \ Sessions(k)) \cup {k}
        /\ account' = [n \in Nicks |-> IF n = k THEN k ELSE IF n \in Sessions(k) THEN None ELSE account[n]]
    BY <2>1 DEF user_login
  <2>4. \A n \in Nicks : account'[n] \in {None, n}
    BY <1>2, <2>2, <2>3
  <2>5. \A n \in Nicks : OwnSession(n) => OwnSession(n)'
    BY <2>1, <2>2, <2>3 DEF OwnSession
  <2> QED BY <1>2, <1>3, <2>4, <2>5 DEF AccountInv
<1> QED BY <1>5, <1>6, CommandsSessions

\* A line that gives a status to a member, and one of the services that takes it.
Given(l, c, n, s) == l.type = "MODE" /\ l.what = TRUE /\ l.nick = n /\ l.chan = c /\ l.status = s

TakesBack(l, c, n, s) == l.type = "MODE" /\ l.what = FALSE /\ l.nick = n /\ l.chan = c /\ s \in l.flags

\* The services will read that somebody gave the status, or have sent that they take it.
Noted(q, c, n, s) ==
  \E i \in 1 .. Len(q) : /\ Given(q[i], c, n, s)
                         /\ \A j \in (i + 1) .. Len(q) : ~Departs(q[j], c, n) /\ ~Comes(q[j], c, n)

Taken(q, c, n, s) == \E i \in 1 .. Len(q) : TakesBack(q[i], c, n, s)

Allowed(c, n, s) == Entitled(find_account(n), c, s)

Settled(c, n, s) ==
  \/ Expelled(toNet, c, n)
  \/ Taken(toNet, c, n, s)
  \/ Noted(toServices, c, n, s)
  \/ (Allowed(c, n, s) /\ Staying(toServices, c, n))

ByUser(c, n, s) == <<s, "user">> \in net[c][n]

StatusInv ==
  "sasl" \notin setting.features =>
    \A c \in Chans : HasOption(c, "STRICTOP") =>
      \A n \in NetMembers(c) \ Nokick : \A s \in Statuses \ {"v"} : ByUser(c, n, s) => Settled(c, n, s)

Good2 == Good1 /\ AccountInv /\ StatusInv

LEMMA TailNoted ==
  ASSUME NEW q \in Seq(Told), q # <<>>, NEW c, NEW n, NEW s, Noted(q, c, n, s)
  PROVE  \/ Noted(Tail(q), c, n, s)
         \/ /\ Given(Head(q), c, n, s) /\ Staying(Tail(q), c, n) /\ ~Joining(q, c, n)
<1>1. /\ Head(q) = q[1] /\ Len(q) \in Nat /\ Len(q) >= 1 /\ Len(Tail(q)) = Len(q) - 1
      /\ \A i \in 1 .. Len(q) - 1 : Tail(q)[i] = q[i + 1]
  BY HeadTail
<1>2. PICK i \in 1 .. Len(q) : /\ Given(q[i], c, n, s)
                              /\ \A j \in (i + 1) .. Len(q) : ~Departs(q[j], c, n) /\ ~Comes(q[j], c, n)
  BY DEF Noted
<1>3. CASE i = 1
  <2>1. Staying(Tail(q), c, n)
    BY <1>1, <1>2, <1>3 DEF Staying
  <2>2. \A j \in 1 .. Len(q) : ~Comes(q[j], c, n)
    <3>1. ~Comes(q[1], c, n)
      BY <1>2, <1>3 DEF Given, Comes
    <3>2. \A j \in 1 .. Len(q) : j = 1 \/ j \in 2 .. Len(q)
      BY <1>1
    <3> QED BY <1>2, <1>3, <3>1, <3>2
  <2> QED BY <1>1, <1>2, <1>3, <2>1, <2>2 DEF Joining
<1>4. CASE i # 1
  <2>1. i - 1 \in 1 .. Len(Tail(q)) /\ Tail(q)[i - 1] = q[i]
    BY <1>1, <1>4
  <2>2. \A j \in (i - 1 + 1) .. Len(Tail(q)) : ~Departs(Tail(q)[j], c, n) /\ ~Comes(Tail(q)[j], c, n)
    BY <1>1, <1>2, <1>4
  <2> QED BY <1>2, <2>1, <2>2 DEF Noted
<1> QED BY <1>3, <1>4

LEMMA AppendNoted ==
  ASSUME NEW q \in Seq(Told), NEW m \in Told, NEW c, NEW n, NEW s
  PROVE  /\ Given(m, c, n, s) => Noted(Append(q, m), c, n, s)
         /\ ~Departs(m, c, n) /\ ~Comes(m, c, n) /\ Noted(q, c, n, s) => Noted(Append(q, m), c, n, s)
<1>1. PICK t : t = Append(q, m)
  OBVIOUS
<1>2. /\ Len(q) \in Nat /\ Len(t) = Len(q) + 1 /\ t[Len(q) + 1] = m
      /\ \A i \in 1 .. Len(q) : t[i] = q[i]
  BY <1>1
<1>3. \A i \in 1 .. Len(t) : (i \in 1 .. Len(q) /\ t[i] = q[i]) \/ (i = Len(q) + 1 /\ t[i] = m)
  BY <1>2
<1>4. ASSUME Given(m, c, n, s) PROVE Noted(t, c, n, s)
  <2>1. Len(q) + 1 \in 1 .. Len(t) /\ (Len(q) + 1 + 1) .. Len(t) = {}
    BY <1>2
  <2> QED BY <1>2, <1>4, <2>1 DEF Noted
<1>5. ASSUME ~Departs(m, c, n), ~Comes(m, c, n), Noted(q, c, n, s) PROVE Noted(t, c, n, s)
  <2>1. PICK i \in 1 .. Len(q) : /\ Given(q[i], c, n, s)
                                /\ \A j \in (i + 1) .. Len(q) : ~Departs(q[j], c, n) /\ ~Comes(q[j], c, n)
    BY <1>5 DEF Noted
  <2>2. i \in 1 .. Len(t) /\ t[i] = q[i]
    BY <1>2
  <2>3. \A j \in (i + 1) .. Len(t) : ~Departs(t[j], c, n) /\ ~Comes(t[j], c, n)
    BY <1>2, <1>3, <1>5, <2>1
  <2> QED BY <2>1, <2>2, <2>3 DEF Noted
<1> QED BY <1>1, <1>4, <1>5

LEMMA StillTaken ==
  ASSUME NEW q \in Seq(NetLine), NEW t \in Seq(NetLine), NEW c, NEW n, NEW s
  PROVE  Taken(q, c, n, s) \/ Taken(t, c, n, s) => Taken(q \o t, c, n, s)
<1>1. PICK u : u = q \o t
  OBVIOUS
<1>2. /\ Len(q) \in Nat /\ Len(t) \in Nat /\ Len(u) = Len(q) + Len(t)
      /\ \A i \in 1 .. Len(q) : u[i] = q[i]
      /\ \A i \in 1 .. Len(t) : u[Len(q) + i] = t[i]
  BY <1>1, ConcatIndex
<1>3. /\ \A i \in 1 .. Len(q) : i \in 1 .. Len(u)
      /\ \A i \in 1 .. Len(t) : Len(q) + i \in 1 .. Len(u)
  BY <1>2
<1> QED BY <1>1, <1>2, <1>3 DEF Taken

LEMMA TailTaken ==
  ASSUME NEW q \in Seq(NetLine), q # <<>>, NEW c, NEW n, NEW s, Taken(q, c, n, s)
  PROVE  Taken(Tail(q), c, n, s) \/ TakesBack(Head(q), c, n, s)
<1>1. /\ Head(q) = q[1] /\ Len(q) \in Nat /\ Len(q) >= 1 /\ Len(Tail(q)) = Len(q) - 1
      /\ \A i \in 1 .. Len(q) - 1 : Tail(q)[i] = q[i + 1]
  BY HeadTail
<1>2. \A i \in 1 .. Len(q) : i = 1 \/ (i - 1 \in 1 .. Len(Tail(q)) /\ Tail(q)[i - 1] = q[i])
  BY <1>1
<1> QED BY <1>1, <1>2 DEF Taken

\* m_mode takes back what STRICTOP forbids.
LEMMA ModeTakesBack ==
  ASSUME Typed, MembersAreOnline, m_mode, NEW c, NEW n, NEW s \in Statuses \ {"v"}, Given(Line, c, n, s),
         HasOption(c, "STRICTOP"), Listed(wchans, c, n)
  PROVE  Taken(toNet', c, n, s) \/ Allowed(c, n, s)
<1>1. Line.what = TRUE /\ n = Line.nick /\ c = Line.chan /\ s = Line.status
  BY DEF Given
<1>2. Tables \in TableSet /\ Tables.wchans = wchans /\ Tables.sent = <<>>
  BY TablesGood DEF Good
<1>3. IsMember(Tables, c, n) /\ Exists(Tables, c)
  BY <1>2, MemberIsListed DEF Listed, Exists
<1>4. Leave(ModePlus(Tables, n, c, s))
  <2>1. PICK what : what = Line.what
    OBVIOUS
  <2>2. Handled(IF ~Exists(Tables, c) THEN Tables
                ELSE IF what THEN ModePlus(Tables, n, c, s)
                ELSE ModeMinus(Tables, Line.by, n, c, s))
    BY <1>1, <2>1 DEF m_mode
  <2>3. what = TRUE
    BY <1>1, <2>1
  <2> QED BY <1>3, <2>2, <2>3 DEF Handled
<1>5. CASE Allowed(c, n, s)
  BY <1>5
<1>6. CASE ~Allowed(c, n, s)
  <2>1. StrictOp(Tables, find_account(n), c, s)
    BY <1>6 DEF StrictOp, Allowed, HasOption
  <2>2. ModePlus(Tables, n, c, s) = SetStatus(Tables, n, c, {s}, FALSE)
    BY <1>3, <2>1 DEF ModePlus
  <2>3. PICK l, D : /\ l = [type |-> "MODE", nick |-> n, chan |-> c, what |-> FALSE, flags |-> {s}]
                   /\ D = SetFlags(Tables, c, n, FlagsOf(Tables, c, n) \ {s})
    OBVIOUS
  <2>4. SetStatus(Tables, n, c, {s}, FALSE) = Send(D, l)
    BY <1>3, <2>3 DEF SetStatus
  <2>5. D.sent = <<>> /\ D \in TableSet
    <3>1. PICK G : G = Good(There, nicks, Chans \ Full, {})
      OBVIOUS
    <3>2. Tables \in G
      BY <3>1, TablesGood
    <3>3. PICK held : held = FlagsOf(Tables, c, n) \ {s}
      OBVIOUS
    <3>4. held \in SUBSET Statuses
      BY <1>2, <1>3, <3>3, FlagsAreStatuses
    <3>5. D \in G
      BY <1>3, <2>3, <3>1, <3>2, <3>3, <3>4, GoodFlags
    <3>6. D \in TableSet
      BY <3>1, <3>5 DEF Good
    <3>7. D.sent = Tables.sent
      BY <1>2, <2>3 DEF SetFlags, WithList, TableSet
    <3> QED BY <1>2, <3>6, <3>7
  <2>6. Send(D, l).sent = <<l>>
    BY <2>5 DEF Send, TableSet
  <2>7. toNet' = toNet \o <<l>>
    BY <1>4, <2>2, <2>4, <2>6 DEF Leave
  <2>8. l \in NetLine
    <3>1. n \in Nicks /\ c \in Chans
      BY <1>2, <1>3, FlagsAreStatuses
    <3> QED BY <2>3, <3>1 DEF NetLine
  <2>9. <<l>> \in Seq(NetLine) /\ toNet \in Seq(NetLine)
    BY <2>8 DEF Typed
  <2>10. Taken(<<l>>, c, n, s)
    <3>1. TakesBack(l, c, n, s)
      BY <2>3 DEF TakesBack
    <3> QED BY <3>1 DEF Taken
  <2> QED BY <2>7, <2>9, <2>10, StillTaken
<1> QED BY <1>5, <1>6

\* Whoever is allowed a status stays so while his session lasts.
LEMMA AllowedStays ==
  ASSUME TypeOK, \A k \in Nicks : account[k] \in {None, k}, UNCHANGED given,
         NEW c, NEW n \in Nicks, NEW s, Allowed(c, n, s), OwnSession(n)'
  PROVE  Allowed(c, n, s)'
<1>1. n \in Users /\ n # None /\ n \in nicks' /\ account'[n] = n
  BY NoneFresh DEF OwnSession
<1>2. find_account(n) = n /\ GetFlag(n, c) >= LevelFor(s)
  <2>1. IsAuthed(find_account(n))
    BY DEF Allowed, Entitled
  <2>2. find_account(n) = n
    BY <2>1, OwnSessions
  <2> QED BY <2>2 DEF Allowed, Entitled
<1>3. find_account(n)' = n
  BY <1>1 DEF find_account
<1>4. IsAuthed(n)'
  BY <1>1 DEF IsAuthed, Sessions
<1>5. access' = access /\ options' = options
  BY DEF given
<1>6. GetFlag(n, c)' = GetFlag(n, c)
  BY <1>5 DEF GetFlag, HasAccess, Registered
<1> QED BY <1>2, <1>3, <1>4, <1>6 DEF Allowed, Entitled

LEMMA AllowedOwns ==
  ASSUME TypeOK, \A k \in Nicks : account[k] \in {None, k}, NEW c, NEW n \in Nicks, NEW s, Allowed(c, n, s)
  PROVE  OwnSession(n)
  BY OwnSessions DEF Allowed, Entitled

LEMMA HandlersKeepStatus ==
  ASSUME Good2, Handlers
  PROVE  StatusInv'
<1>1. /\ Good1 /\ Good0 /\ KnownInv /\ AccountInv /\ StatusInv /\ Typed /\ TypeOK /\ MembersAreOnline
      /\ toServices \in Seq(Told) /\ toNet \in Seq(NetLine)
  BY DEF Good2, Good1, Good0, Typed
<1>2. /\ Services(Line, Kept(Line)) /\ ~fault /\ toServices # <<>> /\ toServices' = Tail(toServices)
  BY <1>1, HandlersServe
<1>3. PICK T : Serves(T, Kept(Line))
  BY <1>2 DEF Services
<1>4. /\ toNet' = toNet \o T.sent /\ net' = net /\ UNCHANGED given
      /\ T.sent \in Seq(NetLine)
  BY <1>3, TableFields DEF Serves, Leave, network, Good
<1>5. options' = options /\ setting' = setting
  BY <1>4 DEF given
<1> SUFFICES ASSUME "sasl" \notin setting.features, NEW c \in Chans, HasOption(c, "STRICTOP"),
                    NEW n \in NetMembers(c) \ Nokick, NEW s \in Statuses \ {"v"}, ByUser(c, n, s)
             PROVE  Settled(c, n, s)'
  BY <1>4, <1>5 DEF StatusInv, ByUser, NetMembers, HasOption, Registered
<1>6. n \in Nicks
  BY <1>1 DEF TypeOK, NetMembers
<1>7. \A k \in Nicks : account[k] \in {None, k}
  BY <1>1 DEF AccountInv
<1>8. Settled(c, n, s)
  BY <1>1 DEF StatusInv
<1>9. CASE Expelled(toNet, c, n)
  BY <1>1, <1>4, <1>9, StillSent DEF Settled
<1>10. CASE Taken(toNet, c, n, s)
  BY <1>1, <1>4, <1>10, StillTaken DEF Settled
<1>11. CASE Noted(toServices, c, n, s)
  <2>1. CASE Noted(Tail(toServices), c, n, s)
    BY <1>2, <2>1 DEF Settled
  <2>2. CASE Given(Line, c, n, s) /\ Staying(Tail(toServices), c, n) /\ ~Joining(toServices, c, n)
    <3>1. Expelled(toNet, c, n) \/ Listed(wchans, c, n)
      BY <1>1, <1>2, <2>2 DEF KnownInv, Known
    <3>2. ASSUME Listed(wchans, c, n) PROVE Settled(c, n, s)'
      <4>1. Line.type = "MODE"
        BY <2>2 DEF Given
      <4>2. m_mode
        <5>1. \A type : Arrives(type) => Line.type = type
          BY DEF Arrives, Line
        <5>2. \/ m_mode
              \/ Arrives("UID") \/ Arrives("QUIT") \/ Arrives("JOIN") \/ Arrives("SJOIN")
              \/ Arrives("PART") \/ Arrives("KICK") \/ Arrives("TOPIC")
          BY DEF Handlers, m_uid, m_quit, m_join, m_sjoin, m_part, m_kick, m_stopic
        <5>3. \A type \in {"UID", "QUIT", "JOIN", "SJOIN", "PART", "KICK", "TOPIC"} : ~Arrives(type)
          BY <4>1, <5>1
        <5> QED BY <5>2, <5>3
      <4>3. Taken(toNet', c, n, s) \/ Allowed(c, n, s)
        BY <1>1, <2>2, <3>2, <4>2, ModeTakesBack
      <4>4. ASSUME Allowed(c, n, s) PROVE Allowed(c, n, s)'
        <5>1. OwnSession(n)
          BY <1>1, <1>6, <1>7, <4>4, AllowedOwns
        <5>2. OwnSession(n)'
          BY <1>1, <1>6, <4>1, <5>1, HandlersKeepSessions DEF QuitSent
        <5> QED BY <1>1, <1>4, <1>6, <1>7, <4>4, <5>2, AllowedStays
      <4> QED BY <1>2, <2>2, <4>3, <4>4 DEF Settled
    <3>3. ASSUME Expelled(toNet, c, n) PROVE Settled(c, n, s)'
      BY <1>1, <1>4, <3>3, StillSent DEF Settled
    <3> QED BY <3>1, <3>2, <3>3
  <2> QED BY <1>1, <1>2, <1>11, <2>1, <2>2, TailNoted DEF Line
<1>12. CASE Allowed(c, n, s) /\ Staying(toServices, c, n)
  <2>1. Staying(Tail(toServices), c, n) /\ ~Departs(Line, c, n)
    BY <1>1, <1>2, <1>12, TailStays DEF Line
  <2>2. OwnSession(n)
    BY <1>1, <1>6, <1>7, <1>12, AllowedOwns
  <2>3. OwnSession(n)'
    BY <1>1, <1>6, <2>1, <2>2, HandlersKeepSessions DEF QuitSent, Departs
  <2>4. Allowed(c, n, s)'
    BY <1>1, <1>4, <1>6, <1>7, <1>12, <2>3, AllowedStays
  <2> QED BY <1>2, <2>1, <2>4 DEF Settled
<1> QED BY <1>8, <1>9, <1>10, <1>11, <1>12 DEF Settled

LEMMA CommandsKeepStatus ==
  ASSUME Good2, UserCommands
  PROVE  StatusInv'
<1>1. /\ Good0 /\ AccountInv /\ StatusInv /\ TypeOK /\ toNet \in Seq(NetLine)
  BY DEF Good2, Good1, Good0, Typed
<1>2. PICK T : Serves(T, There)
  BY <1>1, CommandsServe
<1>3. /\ toNet' = toNet \o T.sent /\ net' = net /\ UNCHANGED given /\ toServices' = toServices
      /\ T.sent \in Seq(NetLine)
  BY <1>1, <1>2, CommandsServe, TableFields DEF Serves, Leave, network, Good
<1>4. options' = options /\ setting' = setting
  BY <1>3 DEF given
<1> SUFFICES ASSUME "sasl" \notin setting.features, NEW c \in Chans, HasOption(c, "STRICTOP"),
                    NEW n \in NetMembers(c) \ Nokick, NEW s \in Statuses \ {"v"}, ByUser(c, n, s)
             PROVE  Settled(c, n, s)'
  BY <1>3, <1>4 DEF StatusInv, ByUser, NetMembers, HasOption, Registered
<1>5. n \in Nicks
  BY <1>1 DEF TypeOK, NetMembers
<1>6. \A k \in Nicks : account[k] \in {None, k}
  BY <1>1 DEF AccountInv
<1>7. Settled(c, n, s)
  BY <1>1 DEF StatusInv
<1>8. Expelled(toNet, c, n) => Expelled(toNet', c, n)
  BY <1>1, <1>3, StillSent
<1>9. Taken(toNet, c, n, s) => Taken(toNet', c, n, s)
  BY <1>1, <1>3, StillTaken
<1>10. ASSUME Allowed(c, n, s) PROVE Allowed(c, n, s)'
  <2>1. OwnSession(n)
    BY <1>1, <1>5, <1>6, <1>10, AllowedOwns
  <2>2. OwnSession(n)'
    BY <1>1, <1>5, <2>1, CommandsKeepSessions
  <2> QED BY <1>1, <1>3, <1>5, <1>6, <1>10, <2>2, AllowedStays
<1> QED BY <1>3, <1>7, <1>8, <1>9, <1>10 DEF Settled

\* What users hold from users after a line of the network: it gives it, or they held it and stay.
Bears(m) ==
  /\ Tells(m) /\ (m.type = "UID" /\ m.svid # None => "sasl" \in setting.features)
  /\ \A c \in Chans : \A n \in DOMAIN net'[c] : \A s \in Statuses :
       <<s, "user">> \in net'[c][n] =>
         \/ Given(m, c, n, s)
         \/ n \in NetMembers(c) /\ ByUser(c, n, s) /\ ~Departs(m, c, n) /\ ~Comes(m, c, n)

\* A line that changes no status and brings and takes nobody.
LEMMA UnchangedBears ==
  ASSUME NEW m, Tells(m), m.type \in {"UID", "MODE", "KICK", "QUIT", "PART"},
         m.type = "UID" /\ m.svid # None => "sasl" \in setting.features,
         \A c \in Chans : \A n \in DOMAIN net'[c] :
            n \in NetMembers(c) /\ net'[c][n] = net[c][n] /\ ~Departs(m, c, n)
  PROVE  Bears(m)
<1>1. \A c, n : ~Comes(m, c, n)
  BY DEF Comes
<1> QED BY <1>1 DEF Bears, ByUser

LEMMA ConnectBears ==
  ASSUME TypeOK, NEW n \in Nicks, NEW svid \in Users \cup {None}, Connect(n, svid)
  PROVE  \E m : Bears(m)
<1>1. PICK m : m = [type |-> "UID", nick |-> n, svid |-> svid]
  OBVIOUS
<1>2. m.type = "UID" /\ m.nick = n /\ m.svid = svid
  BY <1>1
<1>3. Tells(m) /\ net' = net /\ n \notin online /\ (svid # None => "sasl" \in setting.features)
  BY <1>1 DEF Connect
<1>4. \A c \in Chans : \A k \in DOMAIN net'[c] : k \in NetMembers(c) /\ net'[c][k] = net[c][k] /\ ~Departs(m, c, k)
  BY <1>2, <1>3 DEF TypeOK, NetMembers, Departs
<1> QED BY <1>2, <1>3, <1>4, UnchangedBears

LEMMA DisconnectBears ==
  ASSUME TypeOK, NEW Q \in SUBSET Nicks, Disconnect(Q)
  PROVE  \E m : Bears(m)
<1>1. PICK m : m = [type |-> "QUIT", nicks |-> Q]
  OBVIOUS
<1>2. m.type = "QUIT" /\ m.nicks = Q
  BY <1>1
<1>3. Tells(m) /\ net' = WithoutNicks(Q)
  BY <1>1 DEF Disconnect
<1>4. \A c \in Chans : net'[c] = [k \in DOMAIN net[c] \ Q |-> net[c][k]]
  BY <1>3 DEF WithoutNicks, Restrict, NetMembers
<1>5. ASSUME NEW c \in Chans, NEW k \in DOMAIN net'[c]
      PROVE  k \in NetMembers(c) /\ net'[c][k] = net[c][k] /\ ~Departs(m, c, k)
  <2>1. k \in DOMAIN net[c] /\ k \notin Q /\ net'[c][k] = net[c][k]
    BY <1>4
  <2> QED BY <1>2, <2>1 DEF NetMembers, Departs
<1> QED BY <1>2, <1>3, <1>5, UnchangedBears

LEMMA JoinBears ==
  ASSUME TypeOK, NEW n \in Nicks, NEW c \in Chans, NEW type \in {"JOIN", "SJOIN"}, Join(n, c, type)
  PROVE  \E m : Bears(m)
<1>1. PICK held, list : /\ held = (IF NetMembers(c) = {} THEN InUse \cap {"o"} ELSE {})
                       /\ list = <<[nick |-> n, flags |-> held]>>
  OBVIOUS
<1>2. PICK m : m = IF type = "JOIN" THEN [type |-> "JOIN", nick |-> n, chan |-> c]
                   ELSE [type |-> "SJOIN", chan |-> c, list |-> list]
  OBVIOUS
<1>3. /\ n \notin NetMembers(c) /\ net' = [net EXCEPT ![c] = Put(@, n, held \X {"server"})] /\ Tells(m)
  BY <1>1, <1>2 DEF Join
<1>4. Len(list) = 1 /\ list[1].nick = n
  BY <1>1
<1>5. m.type \in {"JOIN", "SJOIN"} /\ \A d, k : Comes(m, d, k) => d = c /\ k = n
  <2>1. CASE type = "JOIN"
    <3>1. m.type = "JOIN" /\ m.nick = n /\ m.chan = c
      BY <1>2, <2>1
    <3> QED BY <3>1 DEF Comes
  <2>2. CASE type # "JOIN"
    <3>1. m = [type |-> "SJOIN", chan |-> c, list |-> list]
      BY <1>2, <2>2
    <3>2. m.type = "SJOIN" /\ m.chan = c /\ m.list = list
      BY <3>1
    <3>3. \A i \in 1 .. Len(list) : list[i].nick = n
      BY <1>4
    <3> QED BY <3>2, <3>3 DEF Comes
  <2> QED BY <2>1, <2>2
<1>6. \A d, k : ~Departs(m, d, k)
  BY <1>5 DEF Departs
<1>7. ASSUME NEW d \in Chans, NEW k \in DOMAIN net'[d], NEW s \in Statuses, <<s, "user">> \in net'[d][k]
      PROVE  k \in NetMembers(d) /\ ByUser(d, k, s) /\ ~Departs(m, d, k) /\ ~Comes(m, d, k)
  <2>1. DOMAIN net = Chans
    BY DEF TypeOK
  <2>2. CASE d = c
    <3>1. net'[c] = Put(net[c], n, held \X {"server"})
      BY <1>3, <2>1
    <3>2. net'[c] = [x \in DOMAIN net[c] \cup {n} |-> IF x = n THEN held \X {"server"} ELSE net[c][x]]
      BY <3>1 DEF Put
    <3>3. <<s, "user">> \notin held \X {"server"}
      OBVIOUS
    <3>4. k # n /\ k \in DOMAIN net[c] /\ net'[c][k] = net[c][k]
      BY <1>7, <2>2, <3>2, <3>3
    <3> QED BY <1>5, <1>6, <1>7, <2>2, <3>4 DEF NetMembers, ByUser
  <2>3. CASE d # c
    <3>1. net'[d] = net[d]
      BY <1>3, <2>1, <2>3
    <3> QED BY <1>5, <1>6, <1>7, <2>3, <3>1 DEF NetMembers, ByUser
  <2> QED BY <2>2, <2>3
<1> QED BY <1>3, <1>5, <1>7 DEF Bears

LEMMA LeaveBears ==
  ASSUME TypeOK, NEW n \in Nicks, NEW c \in Chans, Part(n, c) \/ Kick(n, c)
  PROVE  \E m : Bears(m)
<1>1. PICK m : /\ m \in {[type |-> "PART", nick |-> n, chan |-> c], [type |-> "KICK", nick |-> n, chan |-> c]}
              /\ Tells(m)
  BY DEF Part, Kick
<1>2. net' = Without(n, c) /\ DOMAIN net = Chans
  BY DEF Part, Kick, TypeOK
<1>3. m.type \in {"PART", "KICK"} /\ m.nick = n /\ m.chan = c
  BY <1>1
<1>4. \A d \in Chans : net'[d] = IF d = c THEN Restrict(net[c], NetMembers(c) \ {n}) ELSE net[d]
  BY <1>2 DEF Without
<1>5. net'[c] = [k \in DOMAIN net[c] \ {n} |-> net[c][k]]
  BY <1>4 DEF Restrict, NetMembers
<1>6. \A d \in Chans : \A k \in DOMAIN net'[d] : k \in NetMembers(d) /\ net'[d][k] = net[d][k] /\ (d = c => k # n)
  BY <1>4, <1>5 DEF NetMembers
<1>7. \A d \in Chans : \A k \in DOMAIN net'[d] : k \in NetMembers(d) /\ net'[d][k] = net[d][k] /\ ~Departs(m, d, k)
  BY <1>3, <1>6 DEF Departs
<1> QED BY <1>1, <1>3, <1>7, UnchangedBears

LEMMA BotBears ==
  ASSUME TypeOK, NEW by \in Nicks, NEW c \in Chans,
         KickBot(by, c) \/ \E s \in InUse : TakeFromBot(by, c, s)
  PROVE  \E m : Bears(m)
<1>1. PICK m : Tells(m) /\ m.nick = Bot /\ m.type \in {"KICK", "MODE"} /\ net' = net
  <2>1. CASE KickBot(by, c)
    <3>1. PICK m : m = [type |-> "KICK", nick |-> Bot, by |-> by, chan |-> c]
      OBVIOUS
    <3>2. Tells(m) /\ m.nick = Bot /\ m.type = "KICK" /\ net' = net
      BY <2>1, <3>1 DEF KickBot, network
    <3> QED BY <3>2
  <2>2. ASSUME NEW s \in InUse, TakeFromBot(by, c, s)
        PROVE  \E m : Tells(m) /\ m.nick = Bot /\ m.type \in {"KICK", "MODE"} /\ net' = net
    <3>1. PICK m : m = [type |-> "MODE", nick |-> Bot, by |-> by, chan |-> c, status |-> s, what |-> FALSE]
      OBVIOUS
    <3>2. Tells(m) /\ m.nick = Bot /\ m.type = "MODE" /\ net' = net
      BY <2>2, <3>1 DEF TakeFromBot, network
    <3> QED BY <3>2
  <2> QED BY <2>1, <2>2
<1>2. \A d \in Chans : \A k \in DOMAIN net'[d] : k \in NetMembers(d) /\ net'[d][k] = net[d][k] /\ ~Departs(m, d, k)
  BY <1>1, Fresh, NetIsTyped DEF NetTyped, NetMembers, Departs
<1> QED BY <1>1, <1>2, UnchangedBears

LEMMA MarkedStatus ==
  ASSUME NEW n, NEW c, NEW held, DOMAIN net = Chans, c \in Chans, n \in NetMembers(c),
         net' = [net EXCEPT ![c][n] = held], NEW d \in Chans, NEW k \in DOMAIN net'[d]
  PROVE  /\ k \in NetMembers(d)
         /\ d = c /\ k = n => net'[d][k] = held
         /\ d # c \/ k # n => net'[d][k] = net[d][k]
  BY DEF NetMembers

LEMMA GiveBears ==
  ASSUME TypeOK, NEW n \in Nicks, NEW c \in Chans, NEW s \in Statuses, Give(n, c, s)
  PROVE  \E m : Bears(m)
<1>1. PICK m, held : /\ m = [type |-> "MODE", nick |-> n, chan |-> c, status |-> s, what |-> TRUE]
                    /\ held = Gives(net[c][n], {s}, "user")
  OBVIOUS
<1>2. Tells(m) /\ net' = [net EXCEPT ![c][n] = held] /\ n \in NetMembers(c) /\ DOMAIN net = Chans
  BY <1>1 DEF Give, TypeOK
<1>3. m.type = "MODE" /\ Given(m, c, n, s)
  <2>1. m.type = "MODE" /\ m.what = TRUE /\ m.nick = n /\ m.chan = c /\ m.status = s
    BY <1>1
  <2> QED BY <2>1 DEF Given
<1>4. \A x : <<x, "user">> \in held => x = s \/ <<x, "user">> \in net[c][n]
  BY <1>1 DEF Gives
<1>5. \A d, k : ~Departs(m, d, k) /\ ~Comes(m, d, k)
  BY <1>3 DEF Departs, Comes
<1>6. ASSUME NEW d \in Chans, NEW k \in DOMAIN net'[d], NEW x \in Statuses, <<x, "user">> \in net'[d][k]
      PROVE  Given(m, d, k, x) \/ (k \in NetMembers(d) /\ ByUser(d, k, x) /\ ~Departs(m, d, k) /\ ~Comes(m, d, k))
  <2>1. /\ k \in NetMembers(d)
        /\ d = c /\ k = n => net'[d][k] = held
        /\ d # c \/ k # n => net'[d][k] = net[d][k]
    BY <1>2, MarkedStatus
  <2> QED BY <1>3, <1>4, <1>5, <1>6, <2>1 DEF ByUser
<1> QED BY <1>2, <1>3, <1>6 DEF Bears

LEMMA TakeBears ==
  ASSUME TypeOK, NEW by \in Nicks, NEW n \in Nicks, NEW c \in Chans, NEW s \in Statuses, Take(by, n, c, s)
  PROVE  \E m : Bears(m)
<1>1. PICK m, held : /\ m = [type |-> "MODE", nick |-> n, by |-> by, chan |-> c, status |-> s, what |-> FALSE]
                    /\ held = Takes(net[c][n], {s})
  OBVIOUS
<1>2. Tells(m) /\ net' = [net EXCEPT ![c][n] = held] /\ n \in NetMembers(c) /\ DOMAIN net = Chans
  BY <1>1 DEF Take, TypeOK
<1>3. m.type = "MODE"
  BY <1>1
<1>4. \A x : <<x, "user">> \in held => <<x, "user">> \in net[c][n]
  BY <1>1 DEF Takes
<1>5. \A d, k : ~Departs(m, d, k) /\ ~Comes(m, d, k)
  BY <1>3 DEF Departs, Comes
<1>6. ASSUME NEW d \in Chans, NEW k \in DOMAIN net'[d], NEW x \in Statuses, <<x, "user">> \in net'[d][k]
      PROVE  k \in NetMembers(d) /\ ByUser(d, k, x) /\ ~Departs(m, d, k) /\ ~Comes(m, d, k)
  <2>1. /\ k \in NetMembers(d)
        /\ d = c /\ k = n => net'[d][k] = held
        /\ d # c \/ k # n => net'[d][k] = net[d][k]
    BY <1>2, MarkedStatus
  <2> QED BY <1>4, <1>5, <1>6, <2>1 DEF ByUser
<1> QED BY <1>2, <1>3, <1>6 DEF Bears

LEMMA NetworkBears ==
  ASSUME TypeOK, Network
  PROVE  Obey \/ cleanup_reconnect \/ \E m : Bears(m)
<1>1. InUse \subseteq Statuses
  BY DEF InUse
<1> QED BY <1>1, ConnectBears, DisconnectBears, JoinBears, LeaveBears, BotBears, GiveBears, TakeBears
        DEF Network

LEMMA AllowedSame ==
  ASSUME UNCHANGED <<nicks, account, given>>, NEW c, NEW n, NEW s
  PROVE  /\ Allowed(c, n, s)' <=> Allowed(c, n, s)
         /\ HasOption(c, "STRICTOP")' <=> HasOption(c, "STRICTOP")
  BY DEF Allowed, Entitled, find_account, IsAuthed, Sessions, GetFlag, HasAccess, Registered, HasOption, given

LEMMA BearsKeepsStatus ==
  ASSUME Good2, Good0', NEW m, Bears(m)
  PROVE  AccountInv' /\ StatusInv'
<1>1. AccountInv /\ StatusInv /\ toServices \in Seq(Told) /\ toServices' \in Seq(Told)
  BY DEF Good2, Good1, Good0, Typed
<1>2. /\ toServices' = Append(toServices, m) /\ toNet' = toNet
      /\ nicks' = nicks /\ account' = account /\ UNCHANGED given /\ setting' = setting
  BY DEF Bears, Tells, services, given
<1>3. /\ Len(toServices) \in Nat /\ Len(toServices') = Len(toServices) + 1
      /\ toServices'[Len(toServices) + 1] = m
      /\ \A i \in 1 .. Len(toServices) : toServices'[i] = toServices[i]
  BY <1>1, <1>2
<1>4. m \in Told
  <2>1. Len(toServices) + 1 \in 1 .. Len(toServices')
    BY <1>3
  <2> QED BY <1>1, <1>3, <2>1
<1>5. AccountInv'
  <2>1. ASSUME "sasl" \notin setting.features
        PROVE  \A i \in 1 .. Len(toServices') :
                 toServices'[i].type = "UID" => toServices'[i].svid \in {None, toServices'[i].nick}
    <3>1. \A i \in 1 .. Len(toServices') : i \in 1 .. Len(toServices) \/ i = Len(toServices) + 1
      BY <1>3
    <3>2. m.type = "UID" => m.svid = None
      BY <2>1 DEF Bears
    <3> QED BY <1>1, <1>3, <2>1, <3>1, <3>2 DEF AccountInv
  <2> QED BY <1>1, <1>2, <2>1 DEF AccountInv
<1>6. StatusInv'
  <2> SUFFICES ASSUME "sasl" \notin setting.features, NEW c \in Chans, HasOption(c, "STRICTOP")',
                      NEW n \in DOMAIN net'[c], n \notin Nokick, NEW s \in Statuses \ {"v"},
                      <<s, "user">> \in net'[c][n]
               PROVE  Settled(c, n, s)'
    BY <1>2 DEF StatusInv, ByUser, NetMembers
  <2>1. CASE Given(m, c, n, s)
    BY <1>1, <1>2, <1>4, <2>1, AppendNoted DEF Settled
  <2>2. CASE n \in NetMembers(c) /\ ByUser(c, n, s) /\ ~Departs(m, c, n) /\ ~Comes(m, c, n)
    <3>1. HasOption(c, "STRICTOP") /\ (Allowed(c, n, s)' <=> Allowed(c, n, s))
      BY <1>2, AllowedSame
    <3>2. Settled(c, n, s)
      BY <1>1, <2>2, <3>1 DEF StatusInv
    <3>3. /\ Staying(toServices, c, n) => Staying(toServices', c, n)
          /\ Noted(toServices, c, n, s) => Noted(toServices', c, n, s)
      BY <1>1, <1>2, <1>4, <2>2, AppendStays, AppendNoted
    <3> QED BY <1>2, <3>1, <3>2, <3>3 DEF Settled
  <2> QED BY <2>1, <2>2 DEF Bears
<1> QED BY <1>5, <1>6

\* The network takes away what a line of the services takes, and gives nothing in a user's name.
LEMMA ObeyBears ==
  ASSUME Typed, Obey, NEW c \in Chans, NEW n \in DOMAIN net'[c], NEW s \in Statuses, <<s, "user">> \in net'[c][n]
  PROVE  n \in NetMembers(c) /\ ByUser(c, n, s) /\ ~Expels(Head(toNet), c, n) /\ ~TakesBack(Head(toNet), c, n, s)
<1>1. PICK m : m = Head(toNet)
  OBVIOUS
<1>2. m \in NetLine
  BY <1>1 DEF Typed, Obey
<1>3. m.type \in {"KILL", "KICK", "MODE"} /\ (m.type # "KILL" => m.chan \in Chans)
      /\ (m.type = "MODE" => m.what \in BOOLEAN)
  BY <1>2, SentLine
<1>4. net' = (IF m.type = "KILL" THEN WithoutNicks({m.nick})
              ELSE IF m.nick \notin NetMembers(m.chan) THEN net
              ELSE IF m.type = "KICK" THEN Without(m.nick, m.chan)
              ELSE [net EXCEPT ![m.chan][m.nick] =
                      IF m.what THEN Gives(@, m.flags, "services") ELSE Takes(@, m.flags)])
  BY <1>1 DEF Obey
<1>5. n \in NetMembers(c) /\ ~Expels(m, c, n)
  BY <1>1, ObeySays DEF ObeyLine
<1>6. DOMAIN net = Chans
  BY DEF Typed, TypeOK
<1>7. ByUser(c, n, s) /\ ~TakesBack(m, c, n, s)
  <2>1. CASE m.type = "KILL"
    <3>1. net'[c] = [k \in DOMAIN net[c] \ {m.nick} |-> net[c][k]]
      BY <1>4, <2>1 DEF WithoutNicks, Restrict, NetMembers
    <3> QED BY <2>1, <3>1 DEF ByUser, TakesBack
  <2>2. CASE m.type # "KILL" /\ m.nick \notin NetMembers(m.chan)
    <3>1. net' = net
      BY <1>4, <2>2
    <3> QED BY <1>5, <2>2, <3>1 DEF ByUser, TakesBack
  <2>3. CASE m.type = "KICK" /\ m.nick \in NetMembers(m.chan)
    <3>1. net' = Without(m.nick, m.chan)
      BY <1>4, <2>3
    <3>2. net'[c] = IF c = m.chan THEN Restrict(net[c], NetMembers(c) \ {m.nick}) ELSE net[c]
      BY <1>6, <3>1 DEF Without
    <3>3. net'[c][n] = net[c][n]
      BY <3>2 DEF Restrict
    <3> QED BY <2>3, <3>3 DEF ByUser, TakesBack
  <2>4. CASE m.type = "MODE" /\ m.nick \in NetMembers(m.chan)
    <3>1. PICK held : held = (IF m.what THEN Gives(net[m.chan][m.nick], m.flags, "services")
                              ELSE Takes(net[m.chan][m.nick], m.flags))
      OBVIOUS
    <3>2. net' = [net EXCEPT ![m.chan][m.nick] = held]
      BY <1>4, <2>4, <3>1
    <3>3. /\ c = m.chan /\ n = m.nick => net'[c][n] = held
          /\ c # m.chan \/ n # m.nick => net'[c][n] = net[c][n]
      BY <1>3, <1>6, <2>4, <3>2, MarkedStatus
    <3>4. ASSUME c = m.chan, n = m.nick, m.what = TRUE PROVE ByUser(c, n, s) /\ ~TakesBack(m, c, n, s)
      <4>1. <<s, "user">> \in Gives(net[c][n], m.flags, "services")
        BY <3>1, <3>3, <3>4
      <4>2. <<s, "user">> \in net[c][n]
        BY <4>1 DEF Gives
      <4> QED BY <3>4, <4>2 DEF ByUser, TakesBack
    <3>5. ASSUME c = m.chan, n = m.nick, m.what = FALSE PROVE ByUser(c, n, s) /\ ~TakesBack(m, c, n, s)
      <4>1. <<s, "user">> \in Takes(net[c][n], m.flags)
        BY <3>1, <3>3, <3>5
      <4>2. <<s, "user">> \in net[c][n] /\ s \notin m.flags
        BY <4>1 DEF Takes, Givers
      <4> QED BY <4>2 DEF ByUser, TakesBack
    <3>6. ASSUME c # m.chan \/ n # m.nick PROVE ByUser(c, n, s) /\ ~TakesBack(m, c, n, s)
      BY <3>3, <3>6 DEF ByUser, TakesBack
    <3> QED BY <1>3, <2>4, <3>4, <3>5, <3>6
  <2> QED BY <1>3, <2>1, <2>2, <2>3, <2>4
<1> QED BY <1>1, <1>5, <1>7

LEMMA ObeyKeepsStatus ==
  ASSUME Good2, Obey
  PROVE  AccountInv' /\ StatusInv'
<1>1. AccountInv /\ StatusInv /\ Typed /\ toNet \in Seq(NetLine)
  BY DEF Good2, Good1, Good0, Typed
<1>2. /\ toServices' = toServices /\ toNet # <<>> /\ toNet' = Tail(toNet)
      /\ nicks' = nicks /\ account' = account /\ UNCHANGED given /\ setting' = setting
  BY DEF Obey, services, given
<1>3. AccountInv'
  BY <1>1, <1>2 DEF AccountInv
<1>4. StatusInv'
  <2> SUFFICES ASSUME "sasl" \notin setting.features, NEW c \in Chans, HasOption(c, "STRICTOP")',
                      NEW n \in DOMAIN net'[c], n \notin Nokick, NEW s \in Statuses \ {"v"},
                      <<s, "user">> \in net'[c][n]
               PROVE  Settled(c, n, s)'
    BY <1>2 DEF StatusInv, ByUser, NetMembers
  <2>1. n \in NetMembers(c) /\ ByUser(c, n, s) /\ ~Expels(Head(toNet), c, n) /\ ~TakesBack(Head(toNet), c, n, s)
    BY <1>1, ObeyBears
  <2>2. HasOption(c, "STRICTOP") /\ (Allowed(c, n, s)' <=> Allowed(c, n, s))
    BY <1>2, AllowedSame
  <2>3. Settled(c, n, s)
    BY <1>1, <2>1, <2>2 DEF StatusInv
  <2>4. /\ Expelled(toNet, c, n) => Expelled(toNet', c, n)
        /\ Taken(toNet, c, n, s) => Taken(toNet', c, n, s)
    BY <1>1, <1>2, <2>1, TailSent, TailTaken
  <2> QED BY <1>2, <2>2, <2>3, <2>4 DEF Settled
<1> QED BY <1>3, <1>4

LEMMA SvidIsOwn ==
  ASSUME Typed, AccountInv, "sasl" \notin setting.features, NEW n \in Nicks
  PROVE  Svid(n) \in {None, n}
<1>1. PICK uids : uids = {i \in DOMAIN toServices : toServices[i].type = "UID" /\ toServices[i].nick = n}
  OBVIOUS
<1>2. CASE uids = {}
  BY <1>1, <1>2 DEF Svid, AccountInv
<1>3. CASE uids # {}
  <2>1. toServices \in Seq(Told) /\ Len(toServices) \in Nat /\ DOMAIN toServices = 1 .. Len(toServices)
    BY DEF Typed
  <2>2. uids \in SUBSET (1 .. Len(toServices))
    BY <1>1, <2>1
  <2>3. PICK i : i = Max(uids)
    OBVIOUS
  <2>4. i \in uids
    BY <1>3, <2>1, <2>2, <2>3, Greatest
  <2>5. i \in 1 .. Len(toServices) /\ toServices[i].type = "UID" /\ toServices[i].nick = n
    BY <1>1, <2>2, <2>4
  <2>6. Svid(n) = toServices[i].svid
    BY <1>1, <1>3, <2>3 DEF Svid
  <2> QED BY <2>5, <2>6 DEF AccountInv
<1> QED BY <1>2, <1>3

LEMMA ReconnectKeepsStatus ==
  ASSUME Good2, cleanup_reconnect
  PROVE  AccountInv' /\ StatusInv'
<1>1. AccountInv /\ Typed
  BY DEF Good2, Good1, Good0
<1>2. /\ account' = [n \in Nicks |-> None] /\ setting' = setting
      /\ net' = [c \in Chans |-> [n \in NetMembers(c) |-> {f[1] : f \in net[c][n]} \X {"server"}]]
  BY DEF cleanup_reconnect, given
<1>3. PICK users, chans, members :
        /\ users \in SetToSeqs(online) /\ chans \in SetToSeqs(Occupied)
        /\ \A c \in Chans : members[c] \in SetToSeqs(NetMembers(c))
        /\ toServices' = Burst(users, chans, members)
  BY DEF cleanup_reconnect, Occupied
<1>4. PICK B : B = Burst(users, chans, members)
  OBVIOUS
<1>5. \A i \in 1 .. Len(B) : B[i].type = "UID" => B[i].nick \in Nicks /\ B[i].svid = Svid(B[i].nick)
  BY <1>1, <1>3, <1>4, BurstLines
<1>6. AccountInv'
  <2>1. ASSUME "sasl" \notin setting.features, NEW i \in 1 .. Len(B), B[i].type = "UID"
        PROVE  B[i].svid \in {None, B[i].nick}
    <3>1. PICK n : n = B[i].nick
      OBVIOUS
    <3>2. n \in Nicks /\ B[i].svid = Svid(n)
      BY <1>5, <2>1, <3>1
    <3>3. Svid(n) \in {None, n}
      BY <1>1, <2>1, <3>2, SvidIsOwn
    <3> QED BY <3>1, <3>2, <3>3
  <2> QED BY <1>2, <1>3, <1>4, <2>1 DEF AccountInv
<1>7. ASSUME NEW c \in Chans, NEW n \in DOMAIN net'[c], NEW s PROVE <<s, "user">> \notin net'[c][n]
  <2>1. net'[c] = [k \in NetMembers(c) |-> {f[1] : f \in net[c][k]} \X {"server"}]
    BY <1>2
  <2> QED BY <2>1
<1>8. StatusInv'
  BY <1>7 DEF StatusInv, ByUser, NetMembers
<1> QED BY <1>6, <1>8

LEMMA InitGood2 ==
  ASSUME Init
  PROVE  Good2
<1>1. Good1
  BY InitGood1
<1>2. account = [n \in Nicks |-> None] /\ toServices = <<>> /\ online = {} /\ net = [c \in Chans |-> <<>>]
  BY DEF Init
<1>3. AccountInv
  BY <1>2 DEF AccountInv
<1>4. \A c \in Chans : NetMembers(c) = {}
  <2>1. \A c \in Chans : net[c] = <<>>
    BY <1>2
  <2> QED BY <2>1, NoLists DEF NetMembers
<1>5. StatusInv
  BY <1>4 DEF StatusInv
<1> QED BY <1>1, <1>3, <1>5 DEF Good2

LEMMA NextKeepsGood2 ==
  ASSUME Good2, [Next]_vars
  PROVE  Good2'
<1>1. Good1 /\ Good0 /\ TypeOK /\ Typed /\ AccountInv /\ StatusInv
  BY DEF Good2, Good1, Good0, Typed
<1>2. Good1' /\ Good0'
  BY <1>1, NextKeepsGood1 DEF Good1
<1>3. AccountInv' /\ StatusInv'
  <2>1. CASE Handlers
    <3>1. setting' = setting
      <4>1. PICK T : Serves(T, Kept(Line))
        BY <1>1, <2>1, HandlersServe DEF Services
      <4> QED BY <4>1 DEF Serves, Leave, given
    <3>2. AccountInv'
      BY <1>1, <2>1, <3>1, HandlersKeepSessions DEF AccountInv
    <3> QED BY <2>1, <3>2, HandlersKeepStatus
  <2>2. CASE UserCommands
    <3>1. setting' = setting
      <4>1. PICK T : Serves(T, There)
        BY <1>1, <2>2, CommandsServe
      <4> QED BY <4>1 DEF Serves, Leave, given
    <3>2. AccountInv'
      BY <1>1, <2>2, <3>1, CommandsKeepSessions DEF AccountInv
    <3> QED BY <2>2, <3>2, CommandsKeepStatus
  <2>3. CASE Network
    BY <1>1, <1>2, <2>3, NetworkBears, BearsKeepsStatus, ObeyKeepsStatus, ReconnectKeepsStatus
  <2>4. CASE UNCHANGED vars
    <3>1. /\ UNCHANGED <<nicks, account, given>> /\ setting' = setting /\ net' = net
          /\ toServices' = toServices /\ toNet' = toNet
      BY <2>4 DEF vars, given
    <3>2. AccountInv'
      BY <1>1, <3>1 DEF AccountInv
    <3>3. \A c, n, s : Allowed(c, n, s)' <=> Allowed(c, n, s)
      BY <3>1, AllowedSame
    <3>4. \A c : HasOption(c, "STRICTOP")' <=> HasOption(c, "STRICTOP")
      BY <3>1, AllowedSame
    <3>5. StatusInv'
      BY <1>1, <3>1, <3>3, <3>4 DEF StatusInv, Settled, ByUser, NetMembers
    <3> QED BY <3>2, <3>5
  <2> QED BY <2>1, <2>2, <2>3, <2>4 DEF Next
<1> QED BY <1>2, <1>3 DEF Good2

\* STRICTOP: where SASL identifies nobody, once both sides have read what was under way, nobody
\* holds a status above voice that a user has given him and his access does not entitle him to,
\* whatever modes, joins, parts, kicks and renewed links have crossed on the way.
THEOREM StrictOpCorrect == Spec => []("sasl" \notin setting.features => StrictOpAtRest)
<1>1. Init => Good2
  BY InitGood2
<1>2. Good2 /\ [Next]_vars => Good2'
  BY NextKeepsGood2
<1>3. Good2 => ("sasl" \notin setting.features => StrictOpAtRest)
  <2> SUFFICES ASSUME Good2, "sasl" \notin setting.features, AtRest, NEW c \in Chans, HasOption(c, "STRICTOP"),
                      NEW n \in NetMembers(c) \ Nokick, NEW s \in Statuses \ {"v"}, <<s, "user">> \in net[c][n]
               PROVE  Entitled(find_account(n), c, s)
    BY DEF StrictOpAtRest
  <2>1. toServices = <<>> /\ toNet = <<>> /\ StatusInv
    BY DEF AtRest, Good2
  <2>2. Settled(c, n, s)
    BY <2>1 DEF StatusInv, ByUser
  <2> QED BY <2>1, <2>2 DEF Settled, Expelled, Taken, Noted, Allowed
<1> QED BY <1>1, <1>2, <1>3, PTL DEF Spec
=============================================================================
