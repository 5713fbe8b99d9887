-------------------------- MODULE ConnectionsProofs --------------------------
(***************************************************************************)
(* Theorems about the pool and the session table together, for every size  *)
(* of the pool, every limit of the receiver and every set of connections.  *)
(*                                                                         *)
(* A step of the two together is a step of the pool or leaves it alone, so *)
(* what SocketPoolProofs shows of the pool holds here; ConnInv, stated at  *)
(* the end of Connections, is inductive for both sides.                    *)
(***************************************************************************)
EXTENDS Connections, SocketPoolProofs

------------------------------------------------------------------------------
(***************************************************************************)
(* Sequences without repetition.                                           *)
(***************************************************************************)

LEMMA ConcatProps ==
  ASSUME NEW S, NEW s \in Seq(S), NEW t \in Seq(S)
  PROVE  /\ s \o t \in Seq(S)
         /\ Range(s \o t) = Range(s) \cup Range(t)
         /\ IsInjective(s \o t) <=>
              IsInjective(s) /\ IsInjective(t) /\ Range(s) \cap Range(t) = {}
<1>1. /\ s \o t \in Seq(S) /\ Len(s \o t) = Len(s) + Len(t) /\ DOMAIN (s \o t) = 1 .. Len(s) + Len(t)
      /\ DOMAIN s = 1 .. Len(s) /\ DOMAIN t = 1 .. Len(t) /\ Len(s) \in Nat /\ Len(t) \in Nat
  OBVIOUS
<1>2. /\ \A i \in DOMAIN s : i \in DOMAIN (s \o t) /\ (s \o t)[i] = s[i]
      /\ \A i \in DOMAIN t : Len(s) + i \in DOMAIN (s \o t) /\ (s \o t)[Len(s) + i] = t[i]
  OBVIOUS
<1>3. \A i \in DOMAIN (s \o t) : i \in DOMAIN s \/ \E j \in DOMAIN t : i = Len(s) + j
  <2> SUFFICES ASSUME NEW i \in DOMAIN (s \o t), i \notin DOMAIN s
               PROVE  \E j \in DOMAIN t : i = Len(s) + j
    OBVIOUS
  <2>1. i - Len(s) \in DOMAIN t /\ i = Len(s) + (i - Len(s))
    BY <1>1
  <2> QED BY <2>1
<1>4. Range(s \o t) = Range(s) \cup Range(t)
  <2>1. ASSUME NEW x \in Range(s \o t) PROVE x \in Range(s) \cup Range(t)
    BY <1>2, <1>3, <2>1 DEF Range
  <2>2. ASSUME NEW x \in Range(s) \cup Range(t) PROVE x \in Range(s \o t)
    BY <1>2, <2>2 DEF Range
  <2> QED BY <2>1, <2>2
<1>5. ASSUME IsInjective(s \o t)
      PROVE  IsInjective(s) /\ IsInjective(t) /\ Range(s) \cap Range(t) = {}
  <2>1. \A a, b \in DOMAIN (s \o t) : (s \o t)[a] = (s \o t)[b] => a = b
    BY <1>5 DEF IsInjective
  <2>2. IsInjective(s)
    BY <1>2, <2>1 DEF IsInjective
  <2>3. IsInjective(t)
    <3> SUFFICES ASSUME NEW a \in DOMAIN t, NEW b \in DOMAIN t, t[a] = t[b] PROVE a = b
      BY DEF IsInjective
    <3>1. Len(s) + a = Len(s) + b
      BY <1>2, <2>1
    <3> QED BY <1>1, <3>1
  <2>4. ASSUME NEW a \in DOMAIN s, NEW b \in DOMAIN t, s[a] = t[b] PROVE FALSE
    <3>1. a = Len(s) + b
      BY <1>2, <2>1, <2>4
    <3> QED BY <1>1, <3>1
  <2> QED BY <2>2, <2>3, <2>4 DEF Range
<1>6. ASSUME IsInjective(s), IsInjective(t), Range(s) \cap Range(t) = {}
      PROVE  IsInjective(s \o t)
  <2> SUFFICES ASSUME NEW a \in DOMAIN (s \o t), NEW b \in DOMAIN (s \o t), (s \o t)[a] = (s \o t)[b]
               PROVE  a = b
    BY DEF IsInjective
  <2>1. \A i \in DOMAIN s, j \in DOMAIN t : s[i] # t[j]
    BY <1>6 DEF Range
  <2>2. CASE a \in DOMAIN s
    BY <1>2, <1>3, <1>6, <2>1, <2>2 DEF IsInjective
  <2>3. CASE a \notin DOMAIN s
    <3>1. PICK i \in DOMAIN t : a = Len(s) + i
      BY <1>3, <2>3
    <3>2. PICK j \in DOMAIN t : b = Len(s) + j
      BY <1>2, <1>3, <2>1, <3>1
    <3> QED BY <1>2, <1>6, <3>1, <3>2 DEF IsInjective
  <2> QED BY <2>2, <2>3
<1> QED BY <1>1, <1>4, <1>5, <1>6

LEMMA AppendProps ==
  ASSUME NEW S, NEW s \in Seq(S), NEW x \in S
  PROVE  /\ Append(s, x) \in Seq(S) /\ Len(Append(s, x)) = Len(s) + 1
         /\ Range(Append(s, x)) = Range(s) \cup {x}
         /\ IsInjective(s) /\ x \notin Range(s) => IsInjective(Append(s, x))
<1>1. /\ Append(s, x) \in Seq(S) /\ Len(Append(s, x)) = Len(s) + 1
      /\ DOMAIN Append(s, x) = DOMAIN s \cup {Len(s) + 1}
      /\ Append(s, x)[Len(s) + 1] = x
      /\ \A i \in DOMAIN s : Append(s, x)[i] = s[i]
  OBVIOUS
<1>2. Range(Append(s, x)) = Range(s) \cup {x}
  BY <1>1 DEF Range
<1>3. ASSUME IsInjective(s), x \notin Range(s) PROVE IsInjective(Append(s, x))
  BY <1>1, <1>3 DEF IsInjective, Range
<1> QED BY <1>1, <1>2, <1>3

LEMMA TailProps ==
  ASSUME NEW S, NEW s \in Seq(S), s # << >>, IsInjective(s)
  PROVE  /\ Tail(s) \in Seq(S) /\ Head(s) \in S /\ Head(s) \in Range(s)
         /\ Range(Tail(s)) = Range(s) \ {Head(s)}
         /\ IsInjective(Tail(s))
<1>1. /\ Tail(s) \in Seq(S) /\ Head(s) \in S /\ Head(s) = s[1] /\ 1 \in DOMAIN s
      /\ DOMAIN Tail(s) = 1 .. Len(s) - 1 /\ DOMAIN s = 1 .. Len(s) /\ Len(s) \in Nat
      /\ \A i \in DOMAIN Tail(s) : i + 1 \in DOMAIN s /\ Tail(s)[i] = s[i + 1]
  OBVIOUS
<1>2. IsInjective(Tail(s))
  <2> SUFFICES ASSUME NEW a \in DOMAIN Tail(s), NEW b \in DOMAIN Tail(s), Tail(s)[a] = Tail(s)[b]
               PROVE  a = b
    BY DEF IsInjective
  <2>1. a + 1 = b + 1
    BY <1>1 DEF IsInjective
  <2> QED BY <1>1, <2>1
<1>3. ASSUME NEW x \in Range(Tail(s)) PROVE x \in Range(s) \ {Head(s)}
  <2>1. PICK i \in DOMAIN Tail(s) : x = s[i + 1] /\ i + 1 \in DOMAIN s
    BY <1>1, <1>3 DEF Range
  <2>2. i + 1 # 1
    BY <1>1
  <2> QED BY <1>1, <2>1, <2>2 DEF Range, IsInjective
<1>4. ASSUME NEW x \in Range(s), x # Head(s) PROVE x \in Range(Tail(s))
  <2>1. PICK i \in DOMAIN s : x = s[i]
    BY <1>4 DEF Range
  <2>2. i - 1 \in DOMAIN Tail(s) /\ (i - 1) + 1 = i
    BY <1>1, <1>4, <2>1
  <2>3. Tail(s)[i - 1] = x
    BY <1>1, <2>1, <2>2
  <2> QED BY <2>2, <2>3 DEF Range
<1>5. Head(s) \in Range(s)
  BY <1>1 DEF Range
<1> QED BY <1>1, <1>2, <1>3, <1>4, <1>5

\* session_remove takes one session out of the array.
LEMMA RemoveAtProps ==
  ASSUME NEW S, NEW s \in Seq(S), NEW n \in 1 .. Len(s), IsInjective(s)
  PROVE  /\ RemoveAt(s, n) \in Seq(S) /\ Len(RemoveAt(s, n)) = Len(s) - 1
         /\ Range(RemoveAt(s, n)) = Range(s) \ {s[n]}
         /\ IsInjective(RemoveAt(s, n))
<1> DEFINE r == RemoveAt(s, n)
<1>1. /\ r \in Seq(S) /\ Len(r) = Len(s) - 1 /\ DOMAIN r = 1 .. Len(s) - 1
      /\ DOMAIN s = 1 .. Len(s) /\ Len(s) \in Nat /\ n \in Nat
      /\ \A i \in DOMAIN r : r[i] = IF i < n THEN s[i] ELSE s[i + 1]
  <2> DEFINE u == SubSeq(s, 1, n - 1)
             v == SubSeq(s, n + 1, Len(s))
  <2>1. n \in Nat /\ Len(s) \in Nat /\ 1 <= n /\ n <= Len(s) /\ DOMAIN s = 1 .. Len(s)
    OBVIOUS
  <2>2. /\ u \in Seq(S) /\ Len(u) = n - 1
        /\ \A i \in 1 .. n - 1 : u[i] = s[i]
    BY <2>1
  <2>3. /\ v \in Seq(S) /\ Len(v) = Len(s) - n
        /\ \A i \in 1 .. Len(s) - n : v[i] = s[n + i]
    <3>1. CASE n = Len(s)
      BY <2>1, <3>1
    <3>2. CASE n < Len(s)
      <4>1. n + 1 \in 1 .. Len(s) /\ Len(s) \in 1 .. Len(s)
        BY <2>1, <3>2
      <4>2. v \in Seq(S) /\ Len(v) = Len(s) - n
        BY <2>1, <4>1
      <4>3. \A i \in 1 .. Len(s) - n : v[i] = s[n + i]
        BY <2>1, <4>1
      <4> QED BY <4>2, <4>3
    <3>3. n = Len(s) \/ n < Len(s)
      <4>1. ASSUME NEW a \in Nat, NEW b \in Nat, a <= b PROVE a = b \/ a < b
        BY <4>1
      <4> QED BY <2>1, <4>1
    <3> QED BY <3>1, <3>2, <3>3
  <2>4. r = u \o v
    BY DEF RemoveAt
  <2> HIDE DEF u, v, r
  <2>5. r \in Seq(S) /\ Len(r) = Len(s) - 1 /\ DOMAIN r = 1 .. Len(s) - 1
    <3>0. u \in Seq(S) /\ v \in Seq(S)
      BY <2>2, <2>3
    <3>1. r \in Seq(S) /\ Len(r) = Len(u) + Len(v)
      BY <2>4, <3>0
    <3>2. Len(r) = Len(s) - 1
      BY <2>1, <2>2, <2>3, <3>1
    <3> QED BY <3>1, <3>2
  <2>6. ASSUME NEW i \in 1 .. Len(s) - 1, i < n PROVE r[i] = s[i]
    BY <2>1, <2>2, <2>3, <2>4, <2>6
  <2>7. ASSUME NEW i \in 1 .. Len(s) - 1, ~(i < n) PROVE r[i] = s[i + 1]
    <3>1. r[i] = v[i - (n - 1)] /\ i - (n - 1) \in 1 .. Len(s) - n
      BY <2>1, <2>2, <2>3, <2>4, <2>7
    <3>2. n + (i - (n - 1)) = i + 1
      BY <2>1, <2>7
    <3> QED BY <2>3, <3>1, <3>2
  <2> QED BY <2>1, <2>5, <2>6, <2>7
<1> HIDE DEF r
<1>2. \A a, b \in DOMAIN s : s[a] = s[b] => a = b
  BY DEF IsInjective
<1>3. IsInjective(r)
  <2> SUFFICES ASSUME NEW a \in DOMAIN r, NEW b \in DOMAIN r, r[a] = r[b] PROVE a = b
    BY DEF IsInjective
  <2> DEFINE f(i) == IF i < n THEN i ELSE i + 1
  <2>1. f(a) \in DOMAIN s /\ f(b) \in DOMAIN s /\ r[a] = s[f(a)] /\ r[b] = s[f(b)]
    BY <1>1
  <2>2. f(a) = f(b)
    BY <1>2, <2>1
  <2> QED BY <1>1, <2>2
<1>4. ASSUME NEW x \in Range(r) PROVE x \in Range(s) \ {s[n]}
  <2>1. PICK i \in DOMAIN r : x = r[i]
    BY <1>4 DEF Range
  <2>2. PICK j \in DOMAIN s : j # n /\ x = s[j]
    BY <1>1, <2>1
  <2> QED BY <1>1, <1>2, <2>2 DEF Range
<1>5. ASSUME NEW x \in Range(s), x # s[n] PROVE x \in Range(r)
  <2>1. PICK i \in DOMAIN s : x = s[i] /\ i # n
    BY <1>5 DEF Range
  <2>2. CASE i < n
    <3>1. i \in DOMAIN r /\ r[i] = x
      BY <1>1, <2>1, <2>2
    <3> QED BY <3>1 DEF Range
  <2>3. CASE i > n
    <3>1. i - 1 \in DOMAIN r /\ ~(i - 1 < n) /\ (i - 1) + 1 = i
      BY <1>1, <2>1, <2>3
    <3>2. r[i - 1] = x
      BY <1>1, <2>1, <3>1
    <3> QED BY <3>1, <3>2 DEF Range
  <2> QED BY <1>1, <2>1, <2>2, <2>3
<1> QED BY <1>1, <1>3, <1>4, <1>5 DEF r

\* A finite set has an enumeration.
LEMMA SetToSeqProps ==
  ASSUME NEW S, IsFiniteSet(S)
  PROVE  /\ SetToSeq(S) \in Seq(S) /\ IsInjective(SetToSeq(S))
         /\ Len(SetToSeq(S)) = Cardinality(S)
<1>1. PICK n \in Nat : ExistsBijection(1 .. n, S)
  BY FS_NatBijection
<1>2. n = Cardinality(S)
  BY <1>1, FS_CountingElements
<1>3. PICK f \in Bijection(1 .. n, S) : TRUE
  BY <1>1 DEF ExistsBijection
<1>4. f \in [1 .. n -> S] /\ IsInjective(f)
  BY <1>3 DEF Bijection, Injection
<1>5. SetToSeq(S) \in [1 .. n -> S] /\ IsInjective(SetToSeq(S))
  BY <1>2, <1>4 DEF SetToSeq
<1> QED BY <1>2, <1>5

------------------------------------------------------------------------------
(***************************************************************************)
(* What the invariant says in other words.                                 *)
(***************************************************************************)

\* The session table and the backlog have no connection twice or in common, and
\* together they hold what the client has or has just closed.
LEMMA TableParts ==
  ASSUME ConnTypeOK
  PROVE  TableExact <=>
           /\ IsInjective(table) /\ IsInjective(backlog)
           /\ Range(table) \cap Range(backlog) = {}
           /\ Range(table) \cup Range(backlog) = (Socks \ refused) \cup eof
           /\ Len(table) <= MaxConnections
BY ConcatProps DEF ConnTypeOK, TableExact

LEMMA TableMade ==
  ASSUME ConnTypeOK',
         IsInjective(table'), IsInjective(backlog'), Range(table') \cap Range(backlog') = {},
         Range(table') \cup Range(backlog') = (Socks' \ refused') \cup eof',
         Len(table') <= MaxConnections
  PROVE  TableExact'
BY ConcatProps DEF ConnTypeOK, TableExact

\* A connection that neither side knows is new to everything.
LEMMA FreshProps ==
  ASSUME ConnInv
  PROVE  /\ Fresh \in Seq(Fds) /\ IsInjective(Fresh)
         /\ \A n \in DOMAIN Fresh :
              /\ Fresh[n] \in Fds /\ Fresh[n] # NoFd
              /\ Fresh[n] \notin Socks \cup Range(backlog) \cup Range(table) \cup eof \cup refused
<1> DEFINE F == Fds \ (Socks \cup Range(backlog) \cup Range(table))
<1>1. IsFiniteSet(F)
  BY SessionsAssumption, FS_Subset
<1>2. Fresh \in Seq(F) /\ IsInjective(Fresh)
  BY <1>1, SetToSeqProps DEF Fresh
<1>3. \A n \in DOMAIN Fresh : Fresh[n] \in F
  BY <1>2
<1>4. eof \subseteq Range(backlog) \cup Range(table) /\ refused \subseteq Socks
  BY TableParts DEF ConnInv, EndsApart
<1>5. NoFd \notin Fds
  BY SessionsAssumption DEF NoFd
<1>6. Fresh \in Seq(Fds)
  BY <1>2
<1> QED BY <1>2, <1>3, <1>4, <1>5, <1>6

------------------------------------------------------------------------------
(***************************************************************************)
(* The client's steps.                                                     *)
(***************************************************************************)

\* A step of the pool with the receiver, and nothing else, is a step of the pool.
LEMMA PoolStep == [CNext]_cvars => [Next]_vars
<1> SUFFICES ASSUME [CNext]_cvars PROVE [Next]_vars
  OBVIOUS
<1>1. CASE \E k \in 0 .. Size : Start(k)
  BY <1>1 DEF Start, Next
<1>2. CASE SendBlock
  BY <1>2 DEF SendBlock, SendOpen, SendNew, Next, Use
<1>3. CASE Reap \/ Reconnect \/ ClientEnds \/ Elsewhere
  BY <1>3 DEF Reap, Reconnect, ClientEnds, Elsewhere, Next
<1>4. CASE Receive \/ Fails \/ UNCHANGED cvars
  BY <1>4 DEF Receive, Fails, cvars
<1> QED BY <1>1, <1>2, <1>3, <1>4 DEF CNext

\* pool_init: the first connections of a client, which has none.
LEMMA StartStep ==
  ASSUME ConnInv, NEW k \in 0 .. Size, Start(k), TypeOK'
  PROVE  ConnInv'
<1> USE DEF ConnInv
<1> DEFINE fs == SubSeq(Fresh, 1, k)
<1>1. /\ pc = "start" /\ pc' \in {"ready", "exit"} /\ k <= Len(Fresh)
      /\ fd' = [i \in Slots |-> IF i < k THEN "open" ELSE IF i = k THEN "err" ELSE "zero"]
      /\ sock' = [i \in Slots |-> IF i < k THEN Fresh[i + 1] ELSE NoFd]
      /\ backlog' = backlog \o fs
      /\ pc' = "exit" => k = 0
      /\ UNCHANGED <<eof, refused, table, lready, idx, spc>>
  BY DEF Start, pool_init, Connect
<1>2. /\ k \in Nat /\ Size \in Nat /\ k <= Size /\ Slots = 0 .. Size - 1
  BY PoolAssumption DEF Slots
<1>3. Socks = {} /\ refused = {}
  BY <1>1 DEF Socks, SocksExact, EndsApart
<1>4. /\ Fresh \in Seq(Fds) /\ IsInjective(Fresh) /\ DOMAIN Fresh = 1 .. Len(Fresh) /\ Len(Fresh) \in Nat
      /\ \A n \in DOMAIN Fresh :
           /\ Fresh[n] \in Fds /\ Fresh[n] # NoFd
           /\ Fresh[n] \notin Range(backlog) \cup Range(table) \cup eof
  BY FreshProps
<1>5. /\ fs \in Seq(Fds) /\ DOMAIN fs = 1 .. k
      /\ \A n \in 1 .. k : n \in DOMAIN Fresh /\ fs[n] = Fresh[n]
  BY <1>1, <1>2, <1>4
<1> HIDE DEF fs
<1>6. IsInjective(fs) /\ Range(fs) \cap (Range(backlog) \cup Range(table) \cup eof) = {}
  BY <1>4, <1>5 DEF IsInjective, Range
<1>7. \A i \in Slots : IF i < k THEN i + 1 \in 1 .. k /\ sock'[i] = fs[i + 1] ELSE sock'[i] = NoFd
  BY <1>1, <1>2, <1>5
<1>8. \A i \in Slots : i < k => sock'[i] \in Fds /\ sock'[i] # NoFd
  BY <1>4, <1>5, <1>7
<1>9. Socks' = Range(fs)
  <2>1. ASSUME NEW x \in Socks' PROVE x \in Range(fs)
    BY <1>5, <1>7 DEF Socks, Range
  <2>2. ASSUME NEW n \in 1 .. k PROVE fs[n] \in Socks'
    <3>1. n - 1 \in Slots /\ n - 1 < k /\ (n - 1) + 1 = n
      BY <1>2
    <3>2. sock'[n - 1] = fs[n] /\ fs[n] # NoFd
      BY <1>7, <1>8, <3>1
    <3> QED BY <3>1, <3>2 DEF Socks
  <2> QED BY <1>5, <2>1, <2>2 DEF Range
<1>10. ConnTypeOK'
  <2>1. sock' \in [Slots -> Fds \cup {NoFd}]
    BY <1>1, <1>7, <1>8
  <2>2. backlog' \in Seq(Fds)
    BY <1>1, <1>5 DEF ConnTypeOK
  <2> QED BY <1>1, <2>1, <2>2 DEF ConnTypeOK
<1>11. SocksExact'
  <2>1. \A i \in Slots : sock'[i] # NoFd <=> fd'[i] = "open"
    BY <1>1, <1>2, <1>7, <1>8
  <2>2. ASSUME NEW i \in Slots, NEW j \in Slots, sock'[i] = sock'[j], sock'[i] # NoFd PROVE i = j
    <3>1. i < k /\ j < k /\ i + 1 \in DOMAIN fs /\ j + 1 \in DOMAIN fs /\ fs[i + 1] = fs[j + 1]
      BY <1>5, <1>7, <2>2
    <3>2. i + 1 = j + 1
      BY <1>6, <3>1 DEF IsInjective
    <3> QED BY <1>2, <3>2
  <2>3. pc' \in {"start", "exit"} => \A i \in Slots : fd'[i] # "open"
    BY <1>1, <1>2
  <2> QED BY <2>1, <2>2, <2>3 DEF SocksExact
<1>12. EndsApart'
  <2>1. backlog # << >> => backlog' # << >>
    BY <1>1, <1>5 DEF ConnTypeOK
  <2> QED BY <1>1, <1>3, <1>6, <1>9, <2>1 DEF EndsApart
<1>13. TableExact'
  <2>1. /\ IsInjective(table) /\ IsInjective(backlog)
        /\ Range(table) \cap Range(backlog) = {}
        /\ Range(table) \cup Range(backlog) = eof
        /\ Len(table) <= MaxConnections
    BY <1>3, TableParts
  <2>2. /\ Range(backlog') = Range(backlog) \cup Range(fs)
        /\ IsInjective(backlog')
    BY <1>1, <1>5, <1>6, <2>1, ConcatProps DEF ConnTypeOK
  <2>3. (Socks' \ refused') \cup eof' = Range(fs) \cup eof
    BY <1>1, <1>3, <1>9
  <2>4. /\ IsInjective(table') /\ IsInjective(backlog')
        /\ Range(table') \cap Range(backlog') = {}
        /\ Range(table') \cup Range(backlog') = (Socks' \ refused') \cup eof'
        /\ Len(table') <= MaxConnections
    BY <1>1, <1>6, <2>1, <2>2, <2>3
  <2> QED BY <1>10, <2>4, TableMade
<1> QED BY <1>10, <1>11, <1>12, <1>13

\* A closed slot gets a connection.
LEMMA ConnectSlotStep ==
  ASSUME ConnInv, NEW i \in Slots, NEW n, ConnectSlot(i, n), TypeOK',
         fd[i] = "err", fd' = [fd EXCEPT ![i] = "open"], pc' = pc, pc \in {"ready", "reconnect"}
  PROVE  ConnInv'
<1> USE DEF ConnInv
<1> DEFINE f == Fresh[1]
<1>1. /\ Fresh # << >>
      /\ sock' = [sock EXCEPT ![i] = f]
      /\ backlog' = backlog \o <<f>>
      /\ UNCHANGED <<eof, refused, table, lready, idx, spc>>
  BY DEF ConnectSlot, Connect
<1>2. /\ f \in Fds /\ f # NoFd
      /\ f \notin Socks \cup Range(backlog) \cup Range(table) \cup eof \cup refused
  <2>1. Fresh \in Seq(Fds)
    BY FreshProps
  <2>2. 1 \in DOMAIN Fresh
    BY <1>1, <2>1
  <2> QED BY <2>2, FreshProps
<1> HIDE DEF f
<1>3. sock \in [Slots -> Fds \cup {NoFd}] /\ fd \in [Slots -> {"err", "open", "zero"}]
  BY DEF ConnTypeOK, TypeOK
<1>4. sock[i] = NoFd /\ sock'[i] = f /\ \A j \in Slots \ {i} : sock'[j] = sock[j]
  BY <1>1, <1>3 DEF SocksExact
<1>5. Socks' = Socks \cup {f}
  BY <1>2, <1>4 DEF Socks
<1>6. <<f>> \in Seq(Fds) /\ Range(<<f>>) = {f} /\ IsInjective(<<f>>)
  BY <1>2 DEF Range, IsInjective
<1>7. ConnTypeOK'
  <2>1. sock' \in [Slots -> Fds \cup {NoFd}]
    BY <1>1, <1>2, <1>3
  <2>2. backlog' \in Seq(Fds)
    BY <1>1, <1>6 DEF ConnTypeOK
  <2> QED BY <1>1, <2>1, <2>2 DEF ConnTypeOK
<1>8. SocksExact'
  <2>1. \A j \in Slots : sock'[j] # NoFd <=> fd'[j] = "open"
    BY <1>2, <1>3, <1>4 DEF SocksExact
  <2>2. \A j, l \in Slots : sock'[j] = sock'[l] /\ sock'[j] # NoFd => j = l
    <3>1. \A j \in Slots : sock[j] # f
      BY <1>2 DEF Socks
    <3> QED BY <1>4, <3>1 DEF SocksExact
  <2> QED BY <2>1, <2>2 DEF SocksExact
<1>9. EndsApart'
  <2>1. backlog # << >> => backlog' # << >>
    BY <1>1, <1>6 DEF ConnTypeOK
  <2> QED BY <1>1, <1>2, <1>5, <2>1 DEF EndsApart
<1>10. TableExact'
  <2>1. /\ IsInjective(table) /\ IsInjective(backlog)
        /\ Range(table) \cap Range(backlog) = {}
        /\ Range(table) \cup Range(backlog) = (Socks \ refused) \cup eof
        /\ Len(table) <= MaxConnections
    BY TableParts
  <2>2. Range(backlog') = Range(backlog) \cup {f} /\ IsInjective(backlog')
    <3>1. backlog \in Seq(Fds) /\ <<f>> \in Seq(Fds)
      BY <1>6 DEF ConnTypeOK
    <3>2. /\ Range(backlog \o <<f>>) = Range(backlog) \cup Range(<<f>>)
          /\ IsInjective(backlog \o <<f>>) <=>
               IsInjective(backlog) /\ IsInjective(<<f>>) /\ Range(backlog) \cap Range(<<f>>) = {}
      BY <3>1, ConcatProps
    <3>3. Range(backlog) \cap Range(<<f>>) = {}
      BY <1>2, <1>6
    <3> QED BY <1>1, <1>6, <2>1, <3>2, <3>3
  <2>3. (Socks' \ refused') \cup eof' = (Socks \ refused) \cup eof \cup {f}
    BY <1>1, <1>2, <1>5
  <2>4. /\ Range(table') \cap Range(backlog') = {}
        /\ Range(table') \cup Range(backlog') = (Socks' \ refused') \cup eof'
    BY <1>1, <1>2, <2>1, <2>2, <2>3
  <2> QED BY <1>1, <1>7, <2>1, <2>2, <2>4, TableMade
<1> QED BY <1>7, <1>8, <1>9, <1>10

\* The client closes some of its slots; the others stay as they are.
LEMMA CloseSlotsStep ==
  ASSUME ConnInv, NEW I \in SUBSET Slots, CloseSlots(I), TypeOK',
         \A i \in I : fd'[i] # "open",
         \A i \in Slots \ I : fd'[i] = fd[i],
         pc' \in {"start", "exit"} => I = Slots
  PROVE  ConnInv'
<1> USE DEF ConnInv
<1> DEFINE F == {sock[i] : i \in I} \ {NoFd}
<1>1. /\ sock' = [i \in Slots |-> IF i \in I THEN NoFd ELSE sock[i]]
      /\ eof' = eof \cup (F \ refused) /\ refused' = refused \ F
      /\ UNCHANGED <<backlog, table, lready, idx, spc>>
  BY DEF CloseSlots, Close
<1>2. sock \in [Slots -> Fds \cup {NoFd}]
  BY DEF ConnTypeOK
<1>3. F \subseteq Socks /\ F \subseteq Fds
  BY <1>2 DEF Socks
<1>4. Socks' = Socks \ F
  <2>1. ASSUME NEW x \in Socks' PROVE x \in Socks \ F
    <3>1. PICK i \in Slots : i \notin I /\ x = sock[i] /\ x # NoFd
      BY <1>1, <2>1 DEF Socks
    <3>2. \A j \in I : sock[j] # x
      BY <3>1 DEF SocksExact
    <3> QED BY <3>1, <3>2 DEF Socks
  <2>2. ASSUME NEW x \in Socks \ F PROVE x \in Socks'
    <3>1. PICK i \in Slots : x = sock[i] /\ x # NoFd
      BY <2>2 DEF Socks
    <3>2. i \notin I
      BY <2>2, <3>1
    <3> QED BY <1>1, <3>1, <3>2 DEF Socks
  <2> QED BY <2>1, <2>2
<1> HIDE DEF F
<1>5. ConnTypeOK'
  <2>1. sock' \in [Slots -> Fds \cup {NoFd}]
    BY <1>1, <1>2
  <2> QED BY <1>1, <1>3, <2>1 DEF ConnTypeOK
<1>6. SocksExact'
  <2>1. \A i \in Slots : sock'[i] # NoFd <=> fd'[i] = "open"
    BY <1>1 DEF SocksExact
  <2>2. \A i, j \in Slots : sock'[i] = sock'[j] /\ sock'[i] # NoFd => i = j
    BY <1>1 DEF SocksExact
  <2> QED BY <2>1, <2>2 DEF SocksExact
<1>7. EndsApart'
  BY <1>1, <1>3, <1>4 DEF EndsApart
<1>8. TableExact'
  <2>1. (Socks' \ refused') \cup eof' = (Socks \ refused) \cup eof
    BY <1>1, <1>3, <1>4 DEF EndsApart
  <2> QED BY <1>1, <2>1 DEF TableExact
<1> QED BY <1>5, <1>6, <1>7, <1>8

\* The connections and what the receiver does with them stay as they are.
LEMMA ConnSteady ==
  ASSUME ConnInv, TypeOK',
         UNCHANGED <<sock, backlog, eof, refused, table, lready, idx, spc>>,
         \A i \in Slots : fd'[i] = "open" <=> fd[i] = "open",
         pc' \in {"start", "exit"} => pc \in {"start", "exit"}
  PROVE  ConnInv'
<1> USE DEF ConnInv
<1>1. Socks' = Socks
  BY DEF Socks
<1>2. ConnTypeOK'
  BY DEF ConnTypeOK
<1>3. SocksExact'
  BY DEF SocksExact
<1>4. EndsApart' /\ TableExact'
  BY <1>1 DEF EndsApart, TableExact
<1> QED BY <1>2, <1>3, <1>4

LEMMA SendStep ==
  ASSUME ConnInv, SendBlock, TypeOK'
  PROVE  ConnInv'
<1>1. ASSUME NEW i \in Slots, SendOpen(i) PROVE ConnInv'
  <2>1. UNCHANGED <<sock, backlog, eof, refused, table, lready, idx, spc, fd, pc>>
    BY <1>1 DEF SendOpen, UseOpen, AcquireOpen, Deliver, svars
  <2> QED BY <2>1, ConnSteady
<1>2. ASSUME NEW i \in Slots, SendNew(i) PROVE ConnInv'
  <2>1. /\ ConnectSlot(i, 1) /\ fd[i] = "err" /\ fd' = [fd EXCEPT ![i] = "open"]
        /\ pc' = pc /\ pc = "ready"
    BY <1>2 DEF SendNew, UseNew, AcquireNew, IsNextFree
  <2> QED BY <2>1, ConnectSlotStep
<1> QED BY <1>1, <1>2 DEF SendBlock

LEMMA ReapStep ==
  ASSUME ConnInv, Reap, TypeOK'
  PROVE  ConnInv'
<1> DEFINE I == {i \in Slots : fd'[i] = "err"}
<1>1. CloseSlots(I) /\ I \in SUBSET Slots
  BY DEF Reap
<1>2. /\ fd' = [i \in Slots |-> IF i \in {j \in stale : fd[j] # "err"} THEN "err" ELSE fd[i]]
      /\ pc' = "reconnect"
  BY DEF Reap, pool_reap_stale
<1>3. \A i \in Slots \ I : fd'[i] = fd[i]
  BY <1>2
<1>4. \A i \in I : fd'[i] # "open"
  OBVIOUS
<1> HIDE DEF I
<1> QED BY <1>1, <1>2, <1>3, <1>4, CloseSlotsStep

LEMMA ReconnectStep ==
  ASSUME ConnInv, Reconnect, TypeOK'
  PROVE  ConnInv'
<1> DEFINE made == {i \in Slots : fd[i] = "err" /\ fd'[i] = "open"}
<1>1. /\ ReconnectLoop
      /\ IF made = {} THEN UNCHANGED <<svars, sock>> ELSE \E i \in made : ConnectSlot(i, 0)
  BY DEF Reconnect
<1>2. CASE \E i \in Slots : AcquireNew(i) /\ stale' = stale \ {i} /\ UNCHANGED pc
  <2>1. PICK i \in Slots : AcquireNew(i) /\ pc' = pc
    BY <1>2
  <2>2. fd[i] = "err" /\ fd' = [fd EXCEPT ![i] = "open"] /\ pc = "reconnect"
    BY <1>1, <2>1 DEF AcquireNew, IsNextFree, ReconnectLoop
  <2>3. made = {i}
    BY <2>2 DEF ConnInv, ConnTypeOK, TypeOK
  <2>4. ConnectSlot(i, 0)
    BY <1>1, <2>3
  <2> QED BY <2>1, <2>2, <2>4, ConnectSlotStep
<1>3. CASE fd' = fd /\ pc' \in {pc, "ready"}
  <2>1. made = {}
    BY <1>3
  <2>2. UNCHANGED <<sock, backlog, eof, refused, table, lready, idx, spc>>
    BY <1>1, <2>1 DEF svars
  <2> QED BY <1>1, <1>3, <2>2, ConnSteady DEF ReconnectLoop
<1>4. \/ fd' = fd /\ pc' \in {pc, "ready"}
      \/ \E i \in Slots : AcquireNew(i) /\ stale' = stale \ {i} /\ UNCHANGED pc
  BY <1>1 DEF ReconnectLoop, AcquireOpen, AcquireFails
<1> QED BY <1>2, <1>3, <1>4

LEMMA ClientEndsStep ==
  ASSUME ConnInv, ClientEnds, TypeOK'
  PROVE  ConnInv'
<1>1. CloseSlots(Slots) /\ \A i \in Slots : fd'[i] = "err"
  BY DEF ClientEnds, pool_destroy
<1> QED BY <1>1, CloseSlotsStep

LEMMA ElsewhereStep ==
  ASSUME ConnInv, Elsewhere, TypeOK'
  PROVE  ConnInv'
<1>1. UNCHANGED <<sock, backlog, eof, refused, table, lready, idx, spc>>
  BY DEF Elsewhere, svars
<1>2. CASE ReconnectReturns \/ Reach \/ \E i \in Slots : Age(i)
  <2>1. fd' = fd /\ pc' \in {pc, "ready"}
    BY <1>2 DEF ReconnectReturns, Reach, Age
  <2> QED BY <1>1, <2>1, ConnSteady
<1>3. CASE Restart
  <2>1. pc = "exit" /\ \A i \in Slots : fd'[i] = "zero"
    BY <1>3 DEF Restart
  <2>2. \A i \in Slots : fd[i] # "open"
    BY <2>1 DEF ConnInv, SocksExact
  <2> QED BY <1>1, <2>1, <2>2, ConnSteady
<1> QED BY <1>2, <1>3 DEF Elsewhere

------------------------------------------------------------------------------
(***************************************************************************)
(* The receiver's steps.                                                   *)
(***************************************************************************)

\* The pool and its sockets stay as they are when the receiver takes a step.
LEMMA ClientSteady ==
  ASSUME ConnInv, UNCHANGED <<vars, sock>>
  PROVE  TypeOK' /\ SocksExact' /\ Socks' = Socks
<1>1. TypeOK'
  BY DEF ConnInv, ConnTypeOK, TypeOK, vars
<1>2. SocksExact'
  BY DEF ConnInv, SocksExact, vars
<1> QED BY <1>1, <1>2 DEF Socks

LEMMA AcceptStep ==
  ASSUME ConnInv, Accept, UNCHANGED <<vars, sock>>
  PROVE  ConnInv'
<1> USE DEF ConnInv
<1> DEFINE f == Head(backlog)
<1>0. TypeOK' /\ SocksExact' /\ Socks' = Socks /\ sock' = sock
  BY ClientSteady
<1>1. spc' = "foreach" /\ idx' = 1
  BY DEF Accept
<1>2. /\ IsInjective(table) /\ IsInjective(backlog)
      /\ Range(table) \cap Range(backlog) = {}
      /\ Range(table) \cup Range(backlog) = (Socks \ refused) \cup eof
      /\ Len(table) <= MaxConnections
  BY TableParts
<1>3. CASE ~lready
  <2>1. UNCHANGED <<backlog, table, refused, eof>>
    BY <1>3 DEF Accept
  <2>2. ConnTypeOK'
    BY <1>0, <1>1, <2>1 DEF ConnTypeOK
  <2> QED BY <1>0, <1>1, <2>1, <2>2 DEF EndsApart, TableExact
<1>4. CASE lready
  <2>1. backlog # << >> /\ backlog' = Tail(backlog)
    BY <1>4 DEF EndsApart, Accept
  <2>2. /\ backlog' \in Seq(Fds) /\ f \in Fds /\ f \in Range(backlog)
        /\ Range(backlog') = Range(backlog) \ {f} /\ IsInjective(backlog')
    BY <1>2, <2>1, TailProps DEF ConnTypeOK
  <2>3. CASE TableFull
    <3>1. /\ refused' = IF f \in eof THEN refused ELSE refused \cup {f}
          /\ eof' = eof \ {f} /\ table' = table
      BY <1>4, <2>3 DEF Accept, Refuse
    <3> HIDE DEF f
    <3>2. f \in Socks \/ f \in eof
      BY <1>2, <2>2
    <3>3. ConnTypeOK'
      BY <1>0, <1>1, <2>2, <3>1 DEF ConnTypeOK
    <3>4. EndsApart'
      BY <1>0, <1>1, <3>1, <3>2 DEF EndsApart
    <3>5. Range(table') \cup Range(backlog') = (Socks' \ refused') \cup eof'
      BY <1>0, <1>2, <2>2, <3>1, <3>2 DEF EndsApart
    <3>6. TableExact'
      BY <1>2, <2>2, <3>1, <3>3, <3>5, TableMade
    <3> QED BY <1>0, <3>3, <3>4, <3>6
  <2>4. CASE ~TableFull
    <3>1. table' = Append(table, f) /\ UNCHANGED <<refused, eof>>
      BY <1>4, <2>4 DEF Accept, session_create
    <3> HIDE DEF f
    <3>2. /\ table' \in Seq(Fds) /\ Len(table') = Len(table) + 1
          /\ Range(table') = Range(table) \cup {f} /\ IsInjective(table')
      BY <1>2, <2>2, <3>1, AppendProps DEF ConnTypeOK
    <3>3. ConnTypeOK'
      BY <1>0, <1>1, <2>2, <3>1, <3>2 DEF ConnTypeOK
    <3>4. EndsApart'
      BY <1>0, <1>1, <3>1 DEF EndsApart
    <3>5. Len(table') <= MaxConnections
      BY <2>4, <3>2, SessionsAssumption DEF TableFull, ConnTypeOK
    <3>6. TableExact'
      BY <1>0, <1>2, <2>2, <3>1, <3>2, <3>3, <3>5, TableMade
    <3> QED BY <1>0, <3>3, <3>4, <3>6
  <2> QED BY <2>3, <2>4
<1> QED BY <1>3, <1>4

\* A session is removed: at the end of the stream, or because it failed while the
\* client still holds the connection.
LEMMA RemoveStep ==
  ASSUME ConnInv, recv_eof \/ session_fails, UNCHANGED <<vars, sock>>
  PROVE  ConnInv'
<1> USE DEF ConnInv
<1>0. TypeOK' /\ SocksExact' /\ Socks' = Socks /\ sock' = sock
  BY ClientSteady
<1>1. PICK f : /\ spc = "foreach" /\ idx <= Len(table) /\ f = table[idx]
               /\ refused' = IF f \in eof THEN refused ELSE refused \cup {f}
               /\ table' = RemoveAt(table, idx) /\ eof' = eof \ {f} /\ idx' = idx + 1
               /\ UNCHANGED <<backlog, lready, spc>>
  <2>1. CASE recv_eof
    BY <2>1 DEF recv_eof, Reading, session_remove
  <2>2. CASE session_fails
    BY <2>2 DEF session_fails, Reading, session_remove
  <2> QED BY <2>1, <2>2
<1>2. /\ IsInjective(table) /\ IsInjective(backlog)
      /\ Range(table) \cap Range(backlog) = {}
      /\ Range(table) \cup Range(backlog) = (Socks \ refused) \cup eof
      /\ Len(table) <= MaxConnections
  BY TableParts
<1>3. idx \in 1 .. Len(table) /\ table \in Seq(Fds) /\ Len(table) \in Nat
  BY <1>1 DEF ConnTypeOK
<1>4. /\ table' \in Seq(Fds) /\ Len(table') = Len(table) - 1
      /\ Range(table') = Range(table) \ {f} /\ IsInjective(table')
  BY <1>1, <1>2, <1>3, RemoveAtProps
<1>5. f \in Range(table) /\ f \in Fds
  BY <1>1, <1>3 DEF Range
<1>6. f \in eof \/ (f \in Socks /\ f \notin refused)
  BY <1>2, <1>5
<1>7. ConnTypeOK'
  BY <1>0, <1>1, <1>4, <1>5 DEF ConnTypeOK
<1>8. EndsApart'
  BY <1>0, <1>1, <1>6 DEF EndsApart
<1>9. Range(table') \cup Range(backlog') = (Socks' \ refused') \cup eof'
  BY <1>0, <1>1, <1>2, <1>4, <1>5, <1>6 DEF EndsApart
<1>10. TableExact'
  <2>1. Len(table') <= MaxConnections
    BY <1>2, <1>3, <1>4, SessionsAssumption
  <2>2. Range(table') \cap Range(backlog') = {} /\ IsInjective(backlog')
    BY <1>1, <1>2, <1>4
  <2> QED BY <1>4, <1>7, <1>9, <2>1, <2>2, TableMade
<1> QED BY <1>0, <1>7, <1>8, <1>10

LEMMA ReceiveStep ==
  ASSUME ConnInv, Receive
  PROVE  ConnInv'
<1>1. UNCHANGED <<vars, sock>> /\ ServerStep
  BY DEF Receive
<1>2. CASE Select \/ SkipSession \/ ForeachEnds \/ recv \/ recv_again
  <2>0. TypeOK' /\ SocksExact' /\ Socks' = Socks /\ sock' = sock
    BY <1>1, ClientSteady
  <2>1. /\ UNCHANGED <<backlog, eof, refused, table>>
        /\ idx' \in {1, idx, idx + 1}
        /\ (spc' = "accept" /\ lready' => backlog # << >>) \/ UNCHANGED <<spc, lready>>
    BY <1>2 DEF Select, SkipSession, ForeachEnds, recv, recv_again
  <2>2. ConnTypeOK'
    BY <2>0, <2>1 DEF ConnInv, ConnTypeOK
  <2>3. EndsApart' /\ TableExact'
    BY <2>0, <2>1 DEF ConnInv, EndsApart, TableExact
  <2> QED BY <2>0, <2>2, <2>3 DEF ConnInv
<1> QED BY <1>1, <1>2, AcceptStep, RemoveStep DEF ServerStep

------------------------------------------------------------------------------
(***************************************************************************)
(* The theorems.                                                           *)
(***************************************************************************)

LEMMA ConnInvStep == ConnInv /\ [CNext]_cvars => ConnInv'
<1> SUFFICES ASSUME ConnInv, [CNext]_cvars PROVE ConnInv'
  OBVIOUS
<1>1. TypeOK'
  BY PoolStep, TypesStep DEF ConnInv, ConnTypeOK
<1>2. CASE UNCHANGED cvars
  BY <1>1, <1>2, ConnSteady DEF cvars, vars, svars
<1> QED
  BY <1>1, <1>2, StartStep, SendStep, ReapStep, ReconnectStep, ClientEndsStep, ElsewhereStep,
     ReceiveStep, RemoveStep DEF CNext, Fails

LEMMA ConnInvInit == CInit => ConnInv
<1> SUFFICES ASSUME CInit PROVE ConnInv
  OBVIOUS
<1>1. ConnTypeOK
  BY InitTypes DEF CInit, SInit, ConnTypeOK
<1>2. Socks = {}
  BY DEF CInit, Socks
<1>3. SocksExact /\ EndsApart
  BY <1>2 DEF CInit, Init, SInit, SocksExact, EndsApart
<1>4. TableExact
  BY <1>1, <1>2, TableParts, SessionsAssumption DEF CInit, SInit, IsInjective, Range
<1> QED BY <1>1, <1>3, <1>4 DEF ConnInv

\* The receiver's session table is exact: no connection twice, none forgotten, none
\* kept that has no end to read, and never more than max_connections.
THEOREM SessionTableIsExact == CSpec => []TableExact
<1>1. ConnInv => TableExact
  BY DEF ConnInv
<1> QED BY <1>1, ConnInvInit, ConnInvStep, PTL DEF CSpec

\* A pool has no more connections than slots.
LEMMA FewConnections ==
  ASSUME ConnInv, NEW s \in Seq(Socks), IsInjective(s)
  PROVE  Len(s) <= Size
<1> DEFINE g == [n \in 1 .. Len(s) |-> CHOOSE i \in Slots : sock[i] = s[n]]
<1>1. \A n \in 1 .. Len(s) : g[n] \in Slots /\ sock[g[n]] = s[n]
  <2> SUFFICES ASSUME NEW n \in 1 .. Len(s) PROVE \E i \in Slots : sock[i] = s[n]
    OBVIOUS
  <2>1. s[n] \in Socks
    OBVIOUS
  <2> QED BY <2>1 DEF Socks
<1> HIDE DEF g
<1>2. g \in Injection(1 .. Len(s), Slots)
  <2>1. g \in [1 .. Len(s) -> Slots]
    BY <1>1 DEF g
  <2>2. \A a, b \in 1 .. Len(s) : g[a] = g[b] => a = b
    BY <1>1 DEF IsInjective
  <2> QED BY <2>1, <2>2 DEF Injection, IsInjective
<1>3. Cardinality(1 .. Len(s)) <= Cardinality(Slots)
  BY <1>2, SlotsFinite, FS_Injection
<1>4. Cardinality(1 .. Len(s)) = Len(s)
  <2>1. ASSUME NEW n \in Nat PROVE Cardinality(1 .. n) = n
    BY FS_Interval
  <2>2. Len(s) \in Nat
    OBVIOUS
  <2> QED BY <2>1, <2>2
<1> QED BY <1>3, <1>4, SlotsFinite

LEMMA RefusedStep ==
  ASSUME Size <= MaxConnections, Size <= MaxSessions, ConnInv, [CNext]_cvars
  PROVE  \A f \in Range(backlog) : f \in refused' \ refused
           => \E g \in Range(table) : g \in eof
<1> SUFFICES ASSUME NEW f \in Range(backlog), f \in refused' \ refused,
                    Range(table) \cap eof = {}
             PROVE  FALSE
  OBVIOUS
<1>0. /\ IsInjective(table) /\ IsInjective(backlog)
      /\ Range(table) \cap Range(backlog) = {}
      /\ Range(table) \cup Range(backlog) = (Socks \ refused) \cup eof
  BY TableParts DEF ConnInv
<1>1. Accept /\ UNCHANGED <<vars, sock>>
  <2>1. CASE UNCHANGED refused
    BY <2>1
  <2>2. CASE \E I : CloseSlots(I)
    BY <2>2 DEF CloseSlots, Close
  <2>3. CASE Receive
    BY <2>3, <2>1 DEF Receive, ServerStep, Select, SkipSession, ForeachEnds, recv, recv_again, recv_eof
  <2>4. CASE SendBlock
    BY <2>1, <2>4 DEF SendBlock, SendOpen, SendNew, ConnectSlot, Connect, Deliver, svars
  <2>5. CASE Reconnect \/ Elsewhere \/ UNCHANGED cvars \/ \E k \in 0 .. Size : Start(k)
    BY <2>1, <2>5 DEF Reconnect, ConnectSlot, Connect, Elsewhere, cvars, Start, svars
  <2>6. CASE Fails
    <3>1. PICK g \in ready : Reading(g) /\ refused' \subseteq refused \cup {g}
      BY <2>6 DEF Fails, session_fails
    <3>2. g \in Range(table)
      BY <3>1 DEF Reading, Range, ConnInv, ConnTypeOK
    <3> QED BY <1>0, <3>1, <3>2
  <2> QED BY <2>2, <2>3, <2>4, <2>5, <2>6 DEF CNext, Reap, ClientEnds
<1>2. /\ lready /\ TableFull /\ f = Head(backlog) /\ f \notin eof
  BY <1>1 DEF Accept, Refuse, session_create
<1>3. backlog # << >>
  BY <1>1, <1>2 DEF Accept, ConnInv, EndsApart
<1>6. f \in Socks /\ Range(table) \subseteq Socks /\ f \notin Range(table)
  BY <1>0, <1>2
<1>7. table \in Seq(Socks)
  <2>1. table \in Seq(Fds)
    BY DEF ConnInv, ConnTypeOK
  <2>2. \A n \in DOMAIN table : table[n] \in Socks
    BY <1>6 DEF Range
  <2> QED BY <2>1, <2>2
<1>8. Append(table, f) \in Seq(Socks) /\ IsInjective(Append(table, f)) /\ Len(Append(table, f)) = Len(table) + 1
  BY <1>0, <1>6, <1>7, AppendProps
<1>9. Len(table) + 1 <= Size
  BY <1>8, FewConnections
<1>10. Len(table) \in Nat /\ Size \in Nat
  BY <1>7, PoolAssumption
<1> QED BY <1>2, <1>9, <1>10, SessionsAssumption DEF TableFull

\* A receiver that takes as many connections as the pool has slots, and has as many
\* sessions, as the defaults of both sides do, refuses the pool only for sessions of
\* a client that has gone.
THEOREM RefusedForTheDead ==
  ASSUME Size <= MaxConnections, Size <= MaxSessions
  PROVE  CSpec => RefusedOnlyForTheDead
<1>1. ConnInv /\ [CNext]_cvars =>
        [\A f \in Range(backlog) : f \in refused' \ refused
           => \E g \in Range(table) : g \in eof]_svars
  BY RefusedStep
<1> QED BY <1>1, ConnInvInit, ConnInvStep, PTL DEF CSpec, RefusedOnlyForTheDead
=============================================================================
