--------------------------- MODULE FramingProofs ----------------------------
(***************************************************************************)
(* However the network cuts the stream, the receiver handles whole frames  *)
(* and its buffer does not overflow: for every set of frames, every size   *)
(* of header, body and piece, and every buffer that has room for a piece   *)
(* behind an incomplete frame.                                             *)
(***************************************************************************)
EXTENDS Framing, SequenceTheorems, FiniteSetTheorems, WellFoundedInduction, TLAPS

------------------------------------------------------------------------------
(***************************************************************************)
(* Sequences.                                                              *)
(***************************************************************************)

LEMMA Prefix ==
  ASSUME NEW S, NEW s \in Seq(S), NEW n \in 0 .. Len(s)
  PROVE  /\ SubSeq(s, 1, n) \in Seq(S)
         /\ Len(SubSeq(s, 1, n)) = n
         /\ \A i \in 1 .. n : SubSeq(s, 1, n)[i] = s[i]
  OBVIOUS

LEMMA Suffix ==
  ASSUME NEW S, NEW s \in Seq(S), NEW n \in 0 .. Len(s)
  PROVE  /\ SubSeq(s, n + 1, Len(s)) \in Seq(S)
         /\ Len(SubSeq(s, n + 1, Len(s))) = Len(s) - n
         /\ \A i \in 1 .. Len(s) - n : SubSeq(s, n + 1, Len(s))[i] = s[i + n]
  OBVIOUS

LEMMA Joined ==
  ASSUME NEW S, NEW s \in Seq(S), NEW t \in Seq(S)
  PROVE  /\ s \o t \in Seq(S)
         /\ Len(s \o t) = Len(s) + Len(t)
         /\ \A i \in 1 .. Len(s) : (s \o t)[i] = s[i]
         /\ \A i \in Len(s) + 1 .. Len(s) + Len(t) : (s \o t)[i] = t[i - Len(s)]
  OBVIOUS

LEMMA SameUnits ==
  ASSUME NEW S, NEW s \in Seq(S), NEW t \in Seq(S), Len(s) = Len(t),
         \A i \in 1 .. Len(t) : s[i] = t[i]
  PROVE  t = s
  OBVIOUS

Cat(s, t) == s \o t

\* p are the first n elements of t, and q the others.
Cut(t, n, p, q) ==
  /\ Len(p) = n /\ \A i \in 1 .. n : p[i] = t[i]
  /\ Len(q) = Len(t) - n /\ \A i \in 1 .. Len(t) - n : q[i] = t[i + n]

\* A sequence behind s may be appended in two pieces.
LEMMA CutJoined ==
  ASSUME NEW S, NEW s \in Seq(S), NEW t \in Seq(S), NEW n \in 1 .. Len(t),
         NEW p \in Seq(S), NEW q \in Seq(S), Cut(t, n, p, q)
  PROVE  /\ Cat(s, p) \in Seq(S) /\ Len(Cat(s, p)) = Len(s) + n
         /\ Cat(s, t) \in Seq(S) /\ Len(Cat(s, t)) = Len(s) + Len(t)
         /\ Cat(s, t) = Cat(Cat(s, p), q)
<1>0. PICK u, w : u = s \o p /\ w = s \o t
  OBVIOUS
<1>1. /\ u \in Seq(S) /\ Len(u) = Len(s) + n
      /\ \A i \in 1 .. Len(s) : u[i] = s[i]
      /\ \A i \in Len(s) + 1 .. Len(s) + n : u[i] = p[i - Len(s)]
  <2>1. Len(p) = n /\ u = s \o p
    BY <1>0 DEF Cut
  <2>2. /\ s \o p \in Seq(S)
        /\ Len(s \o p) = Len(s) + Len(p)
        /\ \A i \in 1 .. Len(s) : (s \o p)[i] = s[i]
        /\ \A i \in Len(s) + 1 .. Len(s) + Len(p) : (s \o p)[i] = p[i - Len(s)]
    BY ONLY s \in Seq(S), p \in Seq(S), Joined
  <2> QED
    BY ONLY <2>1, <2>2
<1>2. /\ w \in Seq(S) /\ Len(w) = Len(s) + Len(t)
      /\ \A i \in 1 .. Len(s) : w[i] = s[i]
      /\ \A i \in Len(s) + 1 .. Len(s) + Len(t) : w[i] = t[i - Len(s)]
  BY <1>0, Joined
<1>3. PICK z : z = u \o q
  OBVIOUS
<1>4. /\ z \in Seq(S) /\ Len(z) = Len(u) + Len(q)
      /\ \A i \in 1 .. Len(u) : z[i] = u[i]
      /\ \A i \in Len(u) + 1 .. Len(u) + Len(q) : z[i] = q[i - Len(u)]
  BY ONLY <1>1, <1>3, q \in Seq(S), Joined
<1>5. /\ Len(s) \in Nat /\ Len(t) \in Nat /\ n \in 1 .. Len(t)
      /\ Len(p) = n /\ (\A i \in 1 .. n : p[i] = t[i])
      /\ Len(q) = Len(t) - n /\ (\A i \in 1 .. Len(t) - n : q[i] = t[i + n])
  BY DEF Cut
<1>6. Len(z) = Len(w)
  BY ONLY <1>1, <1>2, <1>4, <1>5
<1>7. ASSUME NEW i \in 1 .. Len(w) PROVE z[i] = w[i]
  <2>1. CASE i <= Len(s)
    BY ONLY <1>1, <1>2, <1>4, <1>5, <2>1, i \in 1 .. Len(w)
  <2>2. CASE i > Len(s) /\ i <= Len(u)
    <3>1. /\ i \in 1 .. Len(u) /\ i \in Len(s) + 1 .. Len(s) + n
          /\ i \in Len(s) + 1 .. Len(s) + Len(t) /\ i - Len(s) \in 1 .. n
      BY ONLY <1>1, <1>2, <1>5, <2>2, i \in 1 .. Len(w)
    <3> QED
      BY ONLY <1>1, <1>2, <1>4, <1>5, <3>1
  <2>3. CASE i > Len(u)
    <3>1. i \in Len(u) + 1 .. Len(u) + Len(q) /\ i \in Len(s) + 1 .. Len(s) + Len(t)
      BY ONLY <1>1, <1>2, <1>5, <2>3, i \in 1 .. Len(w)
    <3>2. i - Len(u) \in 1 .. Len(t) - n /\ (i - Len(u)) + n = i - Len(s)
      BY ONLY <1>1, <1>5, <3>1
    <3> QED
      BY ONLY <1>2, <1>4, <1>5, <3>1, <3>2
  <2> QED
    BY ONLY <1>1, <1>2, <1>5, <2>1, <2>2, <2>3, i \in 1 .. Len(w)
<1>8. w = z
  BY ONLY <1>2, <1>4, <1>6, <1>7, SameUnits
<1> QED
  BY ONLY <1>0, <1>1, <1>2, <1>3, <1>8 DEF Cat

------------------------------------------------------------------------------
(***************************************************************************)
(* The invariant.  It speaks of a stream s so that the lemmas can be about *)
(* the streams that actions make.                                          *)
(***************************************************************************)

UnitsOf(K) == [kind : K, pos : Nat \ {0}]

\* Every unit is followed by the units of its frame that are still to come, a
\* frame by the beginning of another one, and the stream begins with a frame.
Aligned(L, s) ==
  /\ s # << >> => s[1].pos = 1
  /\ \A i \in 1 .. Len(s) : \A j \in i .. Len(s) :
       s[i].pos + (j - i) <= L[s[i].kind]
         => s[j] = Unit(s[i].kind, s[i].pos + (j - i))
  /\ \A i \in 1 .. Len(s) - 1 :
       s[i].pos = L[s[i].kind] => s[i + 1].pos = 1

\* The last frame is complete; the client's death may leave a part of it.
Closed(L, s) == s # << >> => s[Len(s)].pos = L[s[Len(s)].kind]

\* The first frame of an aligned stream is complete when its length is there.
LEMMA FirstFrame ==
  ASSUME NEW K, NEW L \in [K -> Nat \ {0}],
         NEW s \in Seq(UnitsOf(K)), s # << >>, Aligned(L, s), L[s[1].kind] <= Len(s)
  PROVE  \A j \in 1 .. L[s[1].kind] : s[j] = Unit(s[1].kind, j)
<1>1. s[1] \in UnitsOf(K) /\ 1 \in 1 .. Len(s)
  OBVIOUS
<1>2. L[s[1].kind] \in Nat
  BY <1>1 DEF UnitsOf
<1>3. s[1].pos = 1
  BY DEF Aligned
<1>4. ASSUME NEW j \in 1 .. L[s[1].kind]
      PROVE  s[j] = Unit(s[1].kind, j)
  <2>1. j \in 1 .. Len(s)
    BY <1>2
  <2>2. s[1].pos + (j - 1) <= L[s[1].kind]
    BY <1>2, <1>3
  <2>3. s[j] = Unit(s[1].kind, s[1].pos + (j - 1))
    BY <1>1, <2>1, <2>2 DEF Aligned
  <2> QED
    BY <1>3, <2>3
<1> QED
  BY <1>4

\* What stays when a prefix is kept, or the first frame is removed.
LEMMA PrefixAligned ==
  ASSUME NEW K, NEW L \in [K -> Nat \ {0}],
         NEW s \in Seq(UnitsOf(K)), Aligned(L, s), NEW n \in 0 .. Len(s)
  PROVE  Aligned(L, SubSeq(s, 1, n))
<1> DEFINE t == SubSeq(s, 1, n)
<1>1. t \in Seq(UnitsOf(K)) /\ Len(t) = n /\ \A i \in 1 .. n : t[i] = s[i]
  BY Prefix
<1> HIDE DEF t
<1>2. t # << >> => t[1].pos = 1
  BY <1>1 DEF Aligned
<1>3. \A i \in 1 .. Len(t) : \A j \in i .. Len(t) :
        t[i].pos + (j - i) <= L[t[i].kind]
          => t[j] = Unit(t[i].kind, t[i].pos + (j - i))
  BY <1>1 DEF Aligned
<1>4. \A i \in 1 .. Len(t) - 1 : t[i].pos = L[t[i].kind] => t[i + 1].pos = 1
  BY <1>1 DEF Aligned
<1> QED
  BY <1>2, <1>3, <1>4 DEF Aligned, t

LEMMA RestAligned ==
  ASSUME NEW K, NEW L \in [K -> Nat \ {0}],
         NEW s \in Seq(UnitsOf(K)), s # << >>, Aligned(L, s), L[s[1].kind] <= Len(s)
  PROVE  /\ Aligned(L, SubSeq(s, L[s[1].kind] + 1, Len(s)))
         /\ Closed(L, s) => Closed(L, SubSeq(s, L[s[1].kind] + 1, Len(s)))
<1> DEFINE n == L[s[1].kind]
           t == SubSeq(s, n + 1, Len(s))
<1>1. n \in Nat \ {0} /\ n \in 0 .. Len(s)
  <2>1. s[1] \in UnitsOf(K)
    OBVIOUS
  <2>2. s[1].kind \in K
    BY <2>1 DEF UnitsOf
  <2> QED
    BY <2>2
<1>2. t \in Seq(UnitsOf(K)) /\ Len(t) = Len(s) - n /\ \A i \in 1 .. Len(s) - n : t[i] = s[i + n]
  BY <1>1, Suffix
<1>3. s[n] = Unit(s[1].kind, n)
  BY <1>1, FirstFrame
<1>4. s[n].pos = L[s[n].kind]
  BY <1>3 DEF Unit
<1> HIDE DEF n, t
<1>5. t # << >> => t[1].pos = 1
  <2>1. SUFFICES ASSUME t # << >> PROVE t[1].pos = 1
    OBVIOUS
  <2>2. Len(t) >= 1 /\ n \in 1 .. Len(s) - 1
    BY <1>1, <1>2, <2>1
  <2>3. s[n + 1].pos = 1
    BY <1>4, <2>2 DEF Aligned
  <2> QED
    BY <1>1, <1>2, <2>2, <2>3
<1>6. \A i \in 1 .. Len(t) : \A j \in i .. Len(t) :
        t[i].pos + (j - i) <= L[t[i].kind]
          => t[j] = Unit(t[i].kind, t[i].pos + (j - i))
  <2>1. SUFFICES ASSUME NEW i \in 1 .. Len(t), NEW j \in i .. Len(t),
                        t[i].pos + (j - i) <= L[t[i].kind]
                 PROVE  t[j] = Unit(t[i].kind, t[i].pos + (j - i))
    OBVIOUS
  <2>2. i + n \in 1 .. Len(s) /\ j + n \in i + n .. Len(s) /\ (j + n) - (i + n) = j - i
    BY <1>1, <1>2
  <2>3. t[i] = s[i + n] /\ t[j] = s[j + n]
    BY <1>1, <1>2
  <2>4. s[i + n].pos + ((j + n) - (i + n)) <= L[s[i + n].kind]
          => s[j + n] = Unit(s[i + n].kind, s[i + n].pos + ((j + n) - (i + n)))
    BY <2>2 DEF Aligned
  <2> QED
    BY <2>1, <2>2, <2>3, <2>4
<1>7. \A i \in 1 .. Len(t) - 1 : t[i].pos = L[t[i].kind] => t[i + 1].pos = 1
  <2>1. SUFFICES ASSUME NEW i \in 1 .. Len(t) - 1, t[i].pos = L[t[i].kind]
                 PROVE  t[i + 1].pos = 1
    OBVIOUS
  <2>2. i + n \in 1 .. Len(s) - 1 /\ (i + n) + 1 = (i + 1) + n
    BY <1>1, <1>2
  <2>3. i \in 1 .. Len(s) - n /\ i + 1 \in 1 .. Len(s) - n
    BY <1>1, <1>2
  <2>4. t[i] = s[i + n] /\ t[i + 1] = s[(i + 1) + n]
    BY <1>2, <2>3
  <2> QED
    BY <2>1, <2>2, <2>4 DEF Aligned
<1>8. Closed(L, s) => Closed(L, t)
  <2>1. CASE Len(t) = 0
    BY <1>2, <2>1 DEF Closed
  <2>2. CASE Len(t) # 0
    <3>1. Len(t) \in 1 .. Len(s) - n /\ Len(t) + n = Len(s)
      BY <1>1, <1>2, <2>2
    <3>2. t[Len(t)] = s[Len(s)]
      BY <1>2, <3>1
    <3> QED
      BY <3>2 DEF Closed
  <2> QED
    BY <2>1, <2>2
<1> QED
  BY <1>5, <1>6, <1>7, <1>8 DEF Aligned, n, t

\* A frame behind a stream that ends with a complete frame.
LEMMA AppendAligned ==
  ASSUME NEW K, NEW L \in [K -> Nat \ {0}],
         NEW s \in Seq(UnitsOf(K)), Aligned(L, s), Closed(L, s), NEW k \in K,
         NEW f \in Seq(UnitsOf(K)), Len(f) = L[k], \A i \in 1 .. L[k] : f[i] = Unit(k, i)
  PROVE  s \o f \in Seq(UnitsOf(K)) /\ Len(s \o f) = Len(s) + L[k]
         /\ Aligned(L, s \o f) /\ Closed(L, s \o f)
         /\ \A i \in 1 .. Len(s) : (s \o f)[i] = s[i]
<1> DEFINE t == s \o f
           n == Len(s)
           m == L[k]
<1>1. m \in Nat \ {0} /\ n \in Nat
  OBVIOUS
<1>2. f \in Seq(UnitsOf(K)) /\ Len(f) = m /\ \A i \in 1 .. m : f[i] = Unit(k, i)
  OBVIOUS
<1>3. /\ t \in Seq(UnitsOf(K)) /\ Len(t) = n + m
      /\ \A i \in 1 .. n : t[i] = s[i]
      /\ \A i \in n + 1 .. n + m : t[i] = f[i - n]
  <2>1. /\ s \o f \in Seq(UnitsOf(K))
        /\ Len(s \o f) = Len(s) + Len(f)
        /\ \A i \in 1 .. Len(s) : (s \o f)[i] = s[i]
        /\ \A i \in Len(s) + 1 .. Len(s) + Len(f) : (s \o f)[i] = f[i - Len(s)]
    <3>1. f \in Seq(UnitsOf(K))
      BY <1>2
    <3> HIDE DEF t, n, m
    <3> QED
      BY ONLY <3>1, s \in Seq(UnitsOf(K)), Joined
  <2>2. Len(f) = m
    BY <1>2
  <2> QED
    BY <2>1, <2>2
<1>4. \A i \in n + 1 .. n + m : t[i] = Unit(k, i - n)
  BY <1>1, <1>2, <1>3
<1>5. \A i \in n + 1 .. n + m : t[i].kind = k /\ t[i].pos = i - n
  <2>1. \A i : Unit(k, i).kind = k /\ Unit(k, i).pos = i
    BY DEF Unit
  <2> HIDE DEF t, n, m
  <2> QED
    BY <1>4, <2>1
<1>6. \A i \in 1 .. n : s[i] \in UnitsOf(K)
  OBVIOUS
<1>7. n > 0 => s[n].pos = L[s[n].kind]
  BY DEF Closed
<1> HIDE DEF t, n, m
<1>8. t # << >> => t[1].pos = 1
  <2>1. CASE n = 0
    BY <1>1, <1>5, <2>1
  <2>2. CASE n > 0
    <3>1. s # << >> /\ t[1] = s[1]
      BY <1>1, <1>3, <2>2 DEF n
    <3> QED
      BY <3>1 DEF Aligned
  <2> QED
    BY <1>1, <2>1, <2>2
<1>9. ASSUME NEW i \in 1 .. n + m, NEW j \in i .. n + m,
             t[i].pos + (j - i) <= L[t[i].kind]
      PROVE  t[j] = Unit(t[i].kind, t[i].pos + (j - i))
  <2>1. CASE i > n
    <3>1. t[i].kind = k /\ t[i].pos = i - n /\ j \in n + 1 .. n + m
      BY <1>1, <1>5, <2>1
    <3>2. t[j] = Unit(k, j - n)
      BY <1>4, <3>1
    <3>3. (i - n) + (j - i) = j - n
      BY <1>1, <3>1
    <3> QED
      BY <3>1, <3>2, <3>3
  <2>2. CASE i <= n /\ j <= n
    <3>1. i \in 1 .. Len(s) /\ j \in i .. Len(s) /\ t[i] = s[i] /\ t[j] = s[j]
      BY <1>1, <1>3, <2>2 DEF n
    <3> QED
      BY <1>9, <3>1 DEF Aligned
  <2>3. CASE i <= n /\ j > n
    <3>1. i \in 1 .. n /\ n \in i .. n /\ t[i] = s[i] /\ n > 0
      BY <1>1, <1>3, <2>3
    <3>2. s[i].kind \in K /\ s[i].pos \in Nat
      BY <1>6, <3>1 DEF UnitsOf
    <3>3. L[s[i].kind] \in Nat
      BY <3>2
    <3>4. s[i].pos + (n - i) < L[s[i].kind]
      BY <1>1, <1>9, <2>3, <3>1, <3>2, <3>3
    <3>5. s[i].pos + (n - i) <= L[s[i].kind]
      BY <1>1, <3>1, <3>2, <3>3, <3>4
    <3>6. s[n] = Unit(s[i].kind, s[i].pos + (n - i))
      BY <3>1, <3>5 DEF Aligned, n
    <3>7. s[n].kind = s[i].kind /\ s[n].pos = s[i].pos + (n - i)
      BY <3>6 DEF Unit
    <3> QED
      BY <1>1, <1>7, <3>1, <3>2, <3>3, <3>4, <3>7
  <2> QED
    BY <1>1, <2>1, <2>2, <2>3
<1>10. ASSUME NEW i \in 1 .. n + m - 1, t[i].pos = L[t[i].kind]
       PROVE  t[i + 1].pos = 1
  <2>1. CASE i < n
    <3>1. i \in 1 .. Len(s) - 1 /\ t[i] = s[i] /\ t[i + 1] = s[i + 1]
      BY <1>1, <1>3, <2>1 DEF n
    <3> QED
      BY <1>10, <3>1 DEF Aligned
  <2>2. CASE i = n
    BY <1>1, <1>5, <2>2
  <2>3. CASE i > n
    <3>1. t[i].kind = k /\ t[i].pos = i - n
      BY <1>1, <1>5, <2>3
    <3> QED
      BY <1>1, <1>10, <2>3, <3>1 DEF m
  <2> QED
    BY <1>1, <2>1, <2>2, <2>3
<1>11. Aligned(L, t)
  <2>1. \A i \in 1 .. Len(t) : \A j \in i .. Len(t) :
          t[i].pos + (j - i) <= L[t[i].kind]
            => t[j] = Unit(t[i].kind, t[i].pos + (j - i))
    BY <1>3, <1>9
  <2>2. \A i \in 1 .. Len(t) - 1 : t[i].pos = L[t[i].kind] => t[i + 1].pos = 1
    <3>0. Len(t) = n + m
      BY <1>3
    <3>1. Len(t) - 1 = n + m - 1
      BY ONLY <1>1, <3>0
    <3>2. \A i \in 1 .. n + m - 1 : t[i].pos = L[t[i].kind] => t[i + 1].pos = 1
      BY <1>10, Zenon
    <3> QED
      BY <3>1, <3>2, Zenon
  <2> QED
    BY <1>8, <2>1, <2>2 DEF Aligned
<1>12. Closed(L, t)
  <2>1. t[n + m].kind = k /\ t[n + m].pos = m
    BY <1>1, <1>5
  <2> QED
    BY <1>3, <2>1 DEF Closed, m
<1> QED
  BY <1>3, <1>11, <1>12 DEF t, n, m

LEMMA EmptyAligned ==
  \A L, K : << >> \in Seq(K) /\ Len(<< >>) = 0 /\ Aligned(L, << >>) /\ Closed(L, << >>)
  BY DEF Aligned, Closed

\* The frames of the client, and the responses of the receiver.
FrameLens == [k \in Kinds |-> FrameLen(k)]

\* Nothing is left in recv_buf but the beginning of one frame.
Residue == recv_len = 0 \/ recv_len < FrameLen(stream[1].kind)

FrInv ==
  /\ FrTypeOK
  /\ Aligned(FrameLens, stream)
  /\ cpc # "down" => Closed(FrameLens, stream)
  /\ spc \in {"idle", "recv"} => Residue
  /\ spc = "gone" => recv_len = 0 /\ inflight = 0
  /\ FramesIntact

LEMMA FrameLenPositive ==
  ASSUME NEW k \in Kinds
  PROVE  FrameLen(k) \in Nat \ {0} /\ HeaderLen \in Nat /\ HeaderLen < FrameLen(k) /\ BodyLen[k] \in Nat
  BY FramingAssumption DEF FrameLen

LEMMA FrameLensIs ==
  /\ FrameLens \in [Kinds -> Nat \ {0}] /\ Units = UnitsOf(Kinds)
  /\ \A k \in Kinds : FrameLens[k] = FrameLen(k)
  BY FrameLenPositive DEF FrameLens, Units, UnitsOf

LEMMA FramePrefix ==
  ASSUME NEW s \in Seq(Units), Aligned(FrameLens, s), NEW n \in 0 .. Len(s)
  PROVE  Aligned(FrameLens, SubSeq(s, 1, n))
  BY FrameLensIs, PrefixAligned

LEMMA FrameAppend ==
  ASSUME NEW s \in Seq(Units), Aligned(FrameLens, s), Closed(FrameLens, s), NEW k \in Kinds,
         NEW f, f = [i \in 1 .. FrameLen(k) |-> Unit(k, i)]
  PROVE  /\ s \o f \in Seq(Units) /\ Len(s \o f) = Len(s) + FrameLen(k)
         /\ Aligned(FrameLens, s \o f) /\ Closed(FrameLens, s \o f)
         /\ \A i \in 1 .. Len(s) : (s \o f)[i] = s[i]
<1>1. FrameLens[k] = FrameLen(k) /\ s \in Seq(UnitsOf(Kinds)) /\ Units = UnitsOf(Kinds)
  BY FrameLensIs
<1>2. f \in Seq(UnitsOf(Kinds)) /\ Len(f) = FrameLens[k] /\ \A i \in 1 .. FrameLens[k] : f[i] = Unit(k, i)
  <2>1. FrameLen(k) \in Nat
    BY FrameLenPositive
  <2>2. \A i \in 1 .. FrameLen(k) : Unit(k, i) \in UnitsOf(Kinds)
    BY DEF Unit, UnitsOf
  <2> QED
    BY <1>1, <2>1, <2>2
<1>3. FrameLens \in [Kinds -> Nat \ {0}]
  BY FrameLensIs
<1>4. /\ s \o f \in Seq(UnitsOf(Kinds)) /\ Len(s \o f) = Len(s) + FrameLens[k]
      /\ Aligned(FrameLens, s \o f) /\ Closed(FrameLens, s \o f)
      /\ \A i \in 1 .. Len(s) : (s \o f)[i] = s[i]
  <2>1. Aligned(FrameLens, s) /\ Closed(FrameLens, s) /\ k \in Kinds
    OBVIOUS
  <2> QED
    BY ONLY <1>1, <1>2, <1>3, <2>1, AppendAligned
<1> QED
  BY <1>1, <1>4

\* What protocol_decode takes, and what it leaves.
LEMMA FrameTaken ==
  ASSUME NEW s \in Seq(Units), s # << >>, Aligned(FrameLens, s), FrameLen(s[1].kind) <= Len(s)
  PROVE  /\ \A j \in 1 .. FrameLen(s[1].kind) : s[j] = Unit(s[1].kind, j)
         /\ Aligned(FrameLens, SubSeq(s, FrameLen(s[1].kind) + 1, Len(s)))
         /\ Closed(FrameLens, s) => Closed(FrameLens, SubSeq(s, FrameLen(s[1].kind) + 1, Len(s)))
<1>1. s[1].kind \in Kinds
  <2>1. s[1] \in Units
    OBVIOUS
  <2> QED
    BY <2>1 DEF Units
<1>2. FrameLens[s[1].kind] = FrameLen(s[1].kind) /\ s \in Seq(UnitsOf(Kinds))
  BY <1>1, FrameLensIs
<1> QED
  BY <1>2, FrameLensIs, FirstFrame, RestAligned

------------------------------------------------------------------------------
(***************************************************************************)
(* The steps.                                                              *)
(***************************************************************************)

LEMMA FrInitInv == FrInit => FrInv
  BY EmptyAligned, FramingAssumption
     DEF FrInit, FrInv, FrTypeOK, Residue, FramesIntact

\* Steps that leave the stream, its lengths and the receiver alone.
LEMMA ElsewhereKeeps ==
  ASSUME FrInv, UNCHANGED <<stream, recv_len, inflight, spc, frame>>,
         cpc' \in {"flush", "send", "ack"}, cpc # "down"
  PROVE  FrInv'
  BY DEF FrInv, FrTypeOK, Residue, FramesIntact, Aligned, Closed

\* session_remove empties everything.
LEMMA RemoveKeeps ==
  ASSUME FrInv, session_remove, UNCHANGED frame
  PROVE  FrInv'
  BY EmptyAligned, FramingAssumption DEF FrInv, FrTypeOK, session_remove, FramesIntact

LEMMA SendKeeps ==
  ASSUME FrInv, NEW k \in Kinds, wire_send(k)
  PROVE  FrInv'
<1> DEFINE f == [i \in 1 .. FrameLen(k) |-> Unit(k, i)]
<1>1. /\ stream \in Seq(Units) /\ Aligned(FrameLens, stream) /\ Closed(FrameLens, stream)
      /\ stream' = stream \o f /\ cpc' = "send"
      /\ UNCHANGED <<recv_len, inflight, spc, frame>>
  BY DEF FrInv, FrTypeOK, wire_send
<1>2. FrameLen(k) \in Nat
  BY FrameLenPositive
<1>3. /\ stream' \in Seq(Units) /\ Len(stream') = Len(stream) + FrameLen(k)
      /\ Aligned(FrameLens, stream') /\ Closed(FrameLens, stream')
      /\ \A i \in 1 .. Len(stream) : stream'[i] = stream[i]
  <2> HIDE DEF f
  <2>1. f = [i \in 1 .. FrameLen(k) |-> Unit(k, i)]
    BY DEF f
  <2> QED
    BY <1>1, <2>1, FrameAppend
<1> HIDE DEF f
<1>4. FrTypeOK'
  BY <1>1, <1>2, <1>3 DEF FrInv, FrTypeOK
<1>5. spc' \in {"idle", "recv"} => Residue'
  <2>1. Len(stream) \in Nat
    BY <1>1
  <2>2. recv_len > 0 => stream'[1] = stream[1]
    BY <1>3, <2>1 DEF FrInv, FrTypeOK
  <2> QED
    BY <1>1, <2>2 DEF FrInv, FrTypeOK, Residue
<1> QED
  BY <1>1, <1>3, <1>4, <1>5 DEF FrInv, FramesIntact

\* The pieces of a frame reach the sockets.
LEMMA PieceKeeps ==
  ASSUME FrInv, send_all
  PROVE  FrInv'
  BY FramingAssumption DEF FrInv, FrTypeOK, send_all, Unsent, Residue, FramesIntact, Aligned, Closed

LEMMA SendFailsKeeps ==
  ASSUME FrInv, SendFails
  PROVE  FrInv'
  BY EmptyAligned DEF FrInv, FrTypeOK, SendFails, FramesIntact

LEMMA CloseKeeps ==
  ASSUME FrInv, Close
  PROVE  FrInv'
<1> DEFINE n == recv_len + inflight
<1>1. /\ stream \in Seq(Units) /\ n \in 0 .. Len(stream) /\ Aligned(FrameLens, stream)
      /\ stream' = SubSeq(stream, 1, n) /\ cpc' = "down"
      /\ UNCHANGED <<recv_len, inflight, spc, frame>>
  BY DEF FrInv, FrTypeOK, Close
<1> HIDE DEF n
<1>2. /\ stream' \in Seq(Units) /\ Len(stream') = n
      /\ \A i \in 1 .. n : stream'[i] = stream[i]
  BY <1>1, Prefix
<1>3. Aligned(FrameLens, stream')
  BY <1>1, FramePrefix
<1>4. FrTypeOK'
  BY <1>1, <1>2 DEF FrInv, FrTypeOK, n
<1>5. spc' \in {"idle", "recv"} => Residue'
  <2>1. recv_len \in Nat /\ inflight \in Nat
    BY DEF FrInv, FrTypeOK
  <2>2. recv_len > 0 => 1 \in 1 .. n
    BY <2>1 DEF n
  <2>3. recv_len > 0 => stream'[1] = stream[1]
    BY <1>2, <2>2
  <2>4. recv_len = 0 \/ recv_len > 0
    BY <2>1
  <2>5. spc \in {"idle", "recv"} => Residue
    BY DEF FrInv
  <2> QED
    BY <1>1, <2>3, <2>4, <2>5 DEF Residue
<1> QED
  BY <1>1, <1>3, <1>4, <1>5 DEF FrInv, FramesIntact

LEMMA RecvKeeps ==
  ASSUME FrInv, recv
  PROVE  FrInv'
<1>1. CASE session_remove /\ UNCHANGED frame
  BY <1>1, RemoveKeeps
<1>2. CASE ~(session_remove /\ UNCHANGED frame)
  <2>1. PICK n \in 1 .. inflight :
          /\ recv_len' = recv_len + n
          /\ inflight' = inflight - n
          /\ spc' = "decode"
          /\ UNCHANGED <<cpc, stream, frame>>
    BY <1>2 DEF recv
  <2> QED
    BY <2>1, FramingAssumption DEF FrInv, FrTypeOK, FramesIntact, Aligned, Closed
<1> QED
  BY <1>1, <1>2

\* A frame is decoded: it is the first of the stream.
LEMMA DecodeKeeps ==
  ASSUME FrInv, protocol_decode
  PROVE  FrInv'
<1> DEFINE k == stream[1].kind
           n == FrameLen(k)
<1>1. /\ stream \in Seq(Units) /\ Aligned(FrameLens, stream)
      /\ recv_len \in Nat /\ inflight \in Nat /\ recv_len + inflight <= Len(stream)
      /\ recv_len >= HeaderLen /\ recv_len >= n
      /\ frame' = SubSeq(stream, 1, n)
      /\ stream' = SubSeq(stream, n + 1, Len(stream))
      /\ recv_len' = recv_len - n
      /\ spc' = "handle" /\ UNCHANGED <<inflight, cpc>>
  BY DEF FrInv, FrTypeOK, protocol_decode, FrameComplete, Consume
<1>2. stream # << >> /\ stream[1] \in Units
  BY <1>1, FramingAssumption
<1>3. k \in Kinds /\ n \in Nat \ {0}
  <2>1. k \in Kinds
    BY <1>2 DEF Units
  <2> QED
    BY <2>1, FrameLenPositive
<1>4. n \in 0 .. Len(stream) /\ n <= Len(stream)
  BY <1>1, <1>3
<1>5. /\ stream' \in Seq(Units) /\ Len(stream') = Len(stream) - n
      /\ frame' \in Seq(Units) /\ Len(frame') = n
      /\ \A i \in 1 .. n : frame'[i] = stream[i]
  BY <1>1, <1>4, Prefix, Suffix
<1>6. Aligned(FrameLens, stream') /\ (Closed(FrameLens, stream) => Closed(FrameLens, stream'))
  BY <1>1, <1>2, <1>4, FrameTaken
<1>7. \A i \in 1 .. n : frame'[i] = Unit(k, i)
  <2>1. \A i \in 1 .. n : stream[i] = Unit(k, i)
    BY <1>1, <1>2, <1>4, FrameTaken
  <2> QED
    BY <1>5, <2>1
<1> HIDE DEF n, k
<1>8. FrTypeOK'
  BY <1>1, <1>3, <1>5 DEF FrInv, FrTypeOK
<1>9. frame'[1].kind = k
  <2>1. frame'[1] = Unit(k, 1)
    BY <1>3, <1>7
  <2> QED
    BY <2>1 DEF Unit
<1>10. frame' = [i \in 1 .. n |-> Unit(k, i)]
  BY <1>3, <1>5, <1>7
<1>11. FramesIntact'
  <2>1. frame' # << >>
    BY <1>3, <1>5
  <2> QED
    BY <1>9, <1>10, <2>1 DEF FramesIntact, n
<1> QED
  BY <1>1, <1>6, <1>8, <1>11 DEF FrInv

\* protocol_decode asks for more: what is left is less than a frame.
LEMMA PendingKeeps ==
  ASSUME FrInv, decode_pending
  PROVE  FrInv'
<1>1. recv_len = 0 \/ recv_len < FrameLen(stream[1].kind)
  <2>1. CASE recv_len = 0
    BY <2>1
  <2>2. CASE recv_len # 0
    <3>1. stream[1] \in Units /\ recv_len \in Nat
      BY <2>2 DEF FrInv, FrTypeOK
    <3>2. stream[1].kind \in Kinds
      BY <3>1 DEF Units
    <3>3. HeaderLen < FrameLen(stream[1].kind) /\ FrameLen(stream[1].kind) \in Nat /\ HeaderLen \in Nat
      BY <3>2, FrameLenPositive
    <3> QED
      BY <3>1, <3>3 DEF decode_pending, FrameComplete
  <2> QED
    BY <2>1, <2>2
<1> QED
  BY <1>1 DEF FrInv, FrTypeOK, decode_pending, Residue, FramesIntact, Aligned, Closed

LEMMA ReceiverTurns ==
  ASSUME FrInv, Select \/ recv_again \/ handle
  PROVE  FrInv'
<1>1. UNCHANGED <<stream, recv_len, inflight, cpc>>
  BY DEF Select, recv_again, handle
<1>2. spc' \in {"idle", "recv", "decode"} /\ (spc' \in {"idle", "recv"} => spc \in {"idle", "recv"})
  BY DEF Select, recv_again, handle, AfterFrame
<1>3. frame' = frame \/ frame' = << >>
  BY DEF Select, recv_again, handle
<1>4. frame' \in Seq(Units)
  BY <1>3, EmptyAligned DEF FrInv, FrTypeOK
<1> QED
  BY <1>1, <1>2, <1>4 DEF FrInv, FrTypeOK, Residue, FramesIntact, Aligned, Closed

LEMMA ConnectKeeps ==
  ASSUME FrInv, Connect
  PROVE  FrInv'
  BY EmptyAligned, FramingAssumption DEF FrInv, FrTypeOK, Connect, Residue, FramesIntact

LEMMA FrStep == FrInv /\ [FrNext]_fvars => FrInv'
<1> SUFFICES ASSUME FrInv, [FrNext]_fvars PROVE FrInv'
  OBVIOUS
<1>1. ASSUME NEW k \in Kinds, wire_send(k) PROVE FrInv'
  BY <1>1, SendKeeps
<1>2. CASE ClientSends
  BY <1>2, PieceKeeps, SendFailsKeeps DEF ClientSends
<1>3. CASE process_ack \/ pool_recv_ack \/ NoMoreResponses
  BY <1>3, ElsewhereKeeps DEF process_ack, pool_recv_ack, NoMoreResponses
<1>4. CASE Close
  BY <1>4, CloseKeeps
<1>5. CASE Connect
  BY <1>5, ConnectKeeps
<1>6. CASE ServerStep
  <2>1. CASE Select \/ recv_again \/ handle
    BY <2>1, ReceiverTurns
  <2>2. CASE recv
    BY <2>2, RecvKeeps
  <2>3. CASE recv_eof \/ decode_error
    BY <2>3, RemoveKeeps DEF recv_eof, decode_error
  <2>4. CASE protocol_decode
    BY <2>4, DecodeKeeps
  <2>5. CASE decode_pending
    BY <2>5, PendingKeeps
  <2> QED
    BY <1>6, <2>1, <2>2, <2>3, <2>4, <2>5 DEF ServerStep
<1>7. CASE UNCHANGED fvars
  BY <1>7 DEF fvars, FrInv, FrTypeOK, Residue, FramesIntact, Aligned, Closed
<1> QED
  BY <1>1, <1>2, <1>3, <1>4, <1>5, <1>6, <1>7 DEF FrNext

\* Whatever send_all, recv() and protocol_decode do, the stream stays a sequence of
\* frames, and recv_buf holds less than one of them before each recv().
THEOREM FramingInvariant == FrSpec => []FrInv
<1>1. FrInit => FrInv
  BY FrInitInv
<1>2. FrInv /\ [FrNext]_fvars => FrInv'
  BY FrStep
<1> QED
  BY <1>1, <1>2, PTL DEF FrSpec

\* The receiver's handler only ever sees frames of the client, from the first
\* byte to the last: protocol_decode's buffering is right for every way recv()
\* can cut the stream.
THEOREM HandledFramesAreIntact == FrSpec => []FramesIntact
<1>1. FrInv => FramesIntact
  BY DEF FrInv
<1> QED
  BY <1>1, FramingInvariant, PTL

\* recv_buf has room for what recv() may return, whenever it is called.
THEOREM BufferNeverOverflows == FrSpec => []NoOverflow
<1>1. FrInv => NoOverflow
  <2>1. SUFFICES ASSUME FrInv, spc \in {"idle", "recv"} PROVE recv_len + ChunkMax <= BufSize
    BY DEF NoOverflow
  <2>2. recv_len \in Nat /\ Residue
    BY <2>1 DEF FrInv, FrTypeOK
  <2>3. CASE recv_len = 0
    <3>1. PICK k \in Kinds : TRUE
      BY FramingAssumption
    <3>2. FrameLen(k) - 1 + ChunkMax <= BufSize /\ FrameLen(k) \in Nat \ {0}
      BY FramingAssumption, FrameLenPositive
    <3> QED
      BY <2>3, <3>2, FramingAssumption
  <2>4. CASE recv_len # 0
    <3>1. stream[1] \in Units
      BY <2>1, <2>2, <2>4 DEF FrInv, FrTypeOK
    <3>2. stream[1].kind \in Kinds
      BY <3>1 DEF Units
    <3>3. FrameLen(stream[1].kind) - 1 + ChunkMax <= BufSize /\ FrameLen(stream[1].kind) \in Nat
      BY <3>2, FramingAssumption, FrameLenPositive
    <3> QED
      BY <2>2, <2>4, <3>3, FramingAssumption DEF Residue
  <2> QED
    BY <2>3, <2>4
<1> QED
  BY <1>1, FramingInvariant, PTL

\* The lengths kept by both sides describe the stream.
THEOREM FramingTypes == FrSpec => []FrTypeOK
<1>1. FrInv => FrTypeOK
  BY DEF FrInv
<1> QED
  BY <1>1, FramingInvariant, PTL

------------------------------------------------------------------------------
(***************************************************************************)
(* Responses.                                                              *)
(***************************************************************************)

RespKinds == {"ack", "done"}

RespLens == [k \in RespKinds |-> RespLen]

\* Until a response is torn, what pool_recv_ack has read of a response and what
\* is on its way are whole responses one after the other.
RespInv ==
  whole =>
    /\ part \in Seq(UnitsOf(RespKinds)) /\ resp \in Seq(UnitsOf(RespKinds))
    /\ Len(part) < RespLen
    /\ Aligned(RespLens, part \o resp)
    /\ Closed(RespLens, part \o resp)
    /\ ResponsesWhole

LEMMA RespLensIs ==
  RespLens \in [RespKinds -> Nat \ {0}] /\ \A k \in RespKinds : RespLens[k] = RespLen
  BY ResponseAssumption DEF RespLens

LEMMA NoResponses ==
  << >> \in Seq(UnitsOf(RespKinds)) /\ Len(<< >>) < RespLen /\ << >> \o << >> = << >>
  BY ResponseAssumption

\* Nothing is on its way.
LEMMA RespEmpty ==
  ASSUME part' = << >>, resp' = << >>, got' = << >> PROVE RespInv'
  BY NoResponses, EmptyAligned DEF RespInv, ResponsesWhole

\* send_response, when the response is not torn.
LEMMA RespSends ==
  ASSUME RespInv, NEW a \in RespKinds, send_response(a), UNCHANGED <<part, got>>
  PROVE  RespInv'
<1> SUFFICES ASSUME whole' PROVE RespInv'
  BY DEF RespInv
<1>1. whole
  BY DEF send_response
<1>2. CASE cpc = "down"
  BY <1>1, <1>2 DEF send_response, RespInv, ResponsesWhole
<1>3. CASE cpc # "down"
  <2>1. PICK f : f = [i \in 1 .. RespLens[a] |-> Unit(a, i)]
    OBVIOUS
  <2>2. resp' = resp \o f
    BY <1>3, <2>1, RespLensIs DEF send_response
  <2>3. PICK s : s = part \o resp
    OBVIOUS
  <2>4. /\ part \in Seq(UnitsOf(RespKinds)) /\ resp \in Seq(UnitsOf(RespKinds))
        /\ Aligned(RespLens, s) /\ Closed(RespLens, s)
    BY <1>1, <2>3 DEF RespInv
  <2>5. s \in Seq(UnitsOf(RespKinds)) /\ RespLens \in [RespKinds -> Nat \ {0}]
    BY <2>3, <2>4, Joined, RespLensIs
  <2>6. f \in Seq(UnitsOf(RespKinds)) /\ Len(f) = RespLens[a] /\ \A i \in 1 .. RespLens[a] : f[i] = Unit(a, i)
    <3>1. \A i \in 1 .. RespLens[a] : Unit(a, i) \in UnitsOf(RespKinds)
      BY <2>5 DEF Unit, UnitsOf
    <3>2. RespLens[a] \in Nat
      BY <2>5
    <3> QED
      BY <2>1, <3>1, <3>2
  <2>7. Aligned(RespLens, s \o f) /\ Closed(RespLens, s \o f)
    BY <2>4, <2>5, <2>6, AppendAligned
  <2>8. s \o f = part \o (resp \o f) /\ resp \o f \in Seq(UnitsOf(RespKinds))
    BY <2>3, <2>4, <2>6
  <2> QED
    BY <1>1, <2>2, <2>4, <2>7, <2>8 DEF RespInv, ResponsesWhole
<1> QED
  BY <1>2, <1>3

\* pool_recv_ack takes a piece, and returns it when the response is complete.
LEMMA RespArrives ==
  ASSUME RespInv, pool_recv_ack PROVE RespInv'
<1> SUFFICES ASSUME whole' PROVE RespInv'
  BY DEF RespInv
<1>1. whole /\ resp # << >>
  BY DEF pool_recv_ack
<1>2. /\ part \in Seq(UnitsOf(RespKinds)) /\ resp \in Seq(UnitsOf(RespKinds))
      /\ Len(part) < RespLen /\ RespLen \in Nat \ {0} /\ ResponsesWhole
      /\ Len(part) \in Nat /\ Len(resp) \in Nat \ {0}
  BY <1>1, ResponseAssumption DEF RespInv
<1>3. PICK n \in Arriving :
        /\ resp' = SubSeq(resp, n + 1, Len(resp))
        /\ IF Len(part \o SubSeq(resp, 1, n)) = RespLen
           THEN got' = part \o SubSeq(resp, 1, n) /\ part' = << >>
           ELSE part' = part \o SubSeq(resp, 1, n) /\ UNCHANGED got
  BY DEF pool_recv_ack
<1>4. n \in 1 .. Len(resp) /\ Len(part) + n <= RespLen
  BY <1>2 DEF Arriving
<1>5. PICK s, r, q : s = part \o resp /\ r = part \o SubSeq(resp, 1, n)
                     /\ q = SubSeq(resp, n + 1, Len(resp))
  OBVIOUS
<1>6. /\ r \in Seq(UnitsOf(RespKinds)) /\ Len(r) = Len(part) + n
      /\ q \in Seq(UnitsOf(RespKinds)) /\ s \in Seq(UnitsOf(RespKinds))
      /\ Len(s) = Len(part) + Len(resp)
      /\ s = r \o q
  <2>1. n \in 1 .. Len(resp) /\ part \in Seq(UnitsOf(RespKinds)) /\ resp \in Seq(UnitsOf(RespKinds))
    BY <1>2, <1>4
  <2>2. PICK p, R : p = SubSeq(resp, 1, n) /\ R = UnitsOf(RespKinds)
    OBVIOUS
  <2>3. p \in Seq(R) /\ Len(p) = n /\ \A i \in 1 .. n : p[i] = resp[i]
    BY ONLY <2>1, <2>2, Prefix
  <2>4. q \in Seq(R) /\ Len(q) = Len(resp) - n /\ \A i \in 1 .. Len(resp) - n : q[i] = resp[i + n]
    BY ONLY <1>5, <2>1, <2>2, Suffix
  <2>5. r = part \o p /\ s = part \o resp
    BY <1>5, <2>2
  <2>6. /\ Cat(part, p) \in Seq(R) /\ Len(Cat(part, p)) = Len(part) + n
        /\ Cat(part, resp) \in Seq(R) /\ Len(Cat(part, resp)) = Len(part) + Len(resp)
        /\ Cat(part, resp) = Cat(Cat(part, p), q)
    <3>1. part \in Seq(R) /\ resp \in Seq(R) /\ n \in 1 .. Len(resp)
      BY ONLY <2>1, <2>2
    <3>2. p \in Seq(R) /\ q \in Seq(R) /\ Cut(resp, n, p, q)
      BY ONLY <2>3, <2>4 DEF Cut
    <3> QED
      BY ONLY <3>1, <3>2, CutJoined
  <2>7. Cat(part, p) = r /\ Cat(part, resp) = s /\ Cat(r, q) = r \o q
    BY ONLY <2>5 DEF Cat
  <2> QED
    BY ONLY <2>2, <2>4, <2>6, <2>7
<1>7. Aligned(RespLens, s) /\ Closed(RespLens, s)
  BY <1>1, <1>5 DEF RespInv
<1>8. CASE Len(r) # RespLen
  <2>1. part' = r /\ resp' = q /\ got' = got
    BY <1>3, <1>5, <1>8
  <2>2. Len(r) < RespLen
    <3>1. n \in Nat /\ Len(r) = Len(part) + n /\ Len(part) + n <= RespLen
      BY <1>4, <1>6
    <3> QED
      BY ONLY <1>2, <1>8, <3>1
  <2> QED
    BY <1>1, <1>2, <1>6, <1>7, <2>1, <2>2 DEF RespInv, ResponsesWhole
<1>9. CASE Len(r) = RespLen
  <2>1. part' = << >> /\ resp' = q /\ got' = r
    BY <1>3, <1>5, <1>9
  <2>2. s # << >> /\ s[1] \in UnitsOf(RespKinds) /\ RespLen <= Len(s)
    BY <1>2, <1>4, <1>6, <1>9
  <2>3. s[1].kind \in RespKinds
    BY <2>2 DEF UnitsOf
  <2>4. RespLens[s[1].kind] = RespLen /\ RespLens \in [RespKinds -> Nat \ {0}]
    BY <2>3, RespLensIs
  <2>5. \A j \in 1 .. RespLen : s[j] = Unit(s[1].kind, j)
    BY <1>6, <1>7, <2>2, <2>4, FirstFrame
  <2>6. /\ Aligned(RespLens, SubSeq(s, RespLen + 1, Len(s)))
        /\ Closed(RespLens, SubSeq(s, RespLen + 1, Len(s)))
    BY <1>6, <1>7, <2>2, <2>4, RestAligned
  <2>7. SubSeq(s, RespLen + 1, Len(s)) = q /\ << >> \o q = q
    BY <1>2, <1>6, <1>9
  <2>8. \A j \in 1 .. RespLen : r[j] = Unit(s[1].kind, j)
    BY <1>2, <1>6, <1>9, <2>5
  <2>9. r = [j \in 1 .. RespLen |-> Unit(r[1].kind, j)]
    <3>1. r[1] = Unit(s[1].kind, 1)
      BY <1>2, <2>8
    <3>2. r[1].kind = s[1].kind
      BY <3>1 DEF Unit
    <3> QED
      BY <1>2, <1>6, <1>9, <2>8, <3>2
  <2> QED
    BY <1>6, <2>1, <2>6, <2>7, <2>9, NoResponses DEF RespInv, ResponsesWhole
<1> QED
  BY <1>8, <1>9

LEMMA RespStep == RespInv /\ [FrNext]_fvars => RespInv'
<1> SUFFICES ASSUME RespInv, [FrNext]_fvars PROVE RespInv'
  OBVIOUS
<1>1. CASE UNCHANGED <<resp, part, got, whole>>
  BY <1>1 DEF RespInv, ResponsesWhole
<1>2. CASE Close \/ Connect
  BY <1>2, RespEmpty DEF Close, Connect
<1>3. CASE NoMoreResponses
  <2>1. part' = << >> /\ got' = << >> /\ resp' = resp
        /\ (whole' => whole /\ part = << >>)
    BY <1>3 DEF NoMoreResponses
  <2> QED
    BY <2>1 DEF RespInv, ResponsesWhole
<1>4. CASE pool_recv_ack
  BY <1>4, RespArrives
<1>5. CASE handle
  <2>1. CASE UNCHANGED <<resp, whole>>
    BY <1>1, <1>5, <2>1 DEF handle
  <2>2. CASE ~UNCHANGED <<resp, whole>>
    <3>1. PICK a \in RespKinds : send_response(a)
      BY <1>5, <2>2 DEF handle, RespKinds
    <3> QED
      BY <1>5, <3>1, RespSends DEF handle
  <2> QED
    BY <2>1, <2>2
<1>6. CASE \/ \E k \in Kinds : wire_send(k)
           \/ ClientSends \/ process_ack \/ Select \/ recv \/ recv_again \/ recv_eof
           \/ protocol_decode \/ decode_error \/ decode_pending
  BY <1>1, <1>6
     DEF wire_send, ClientSends, send_all, SendFails, process_ack, Select, recv, recv_again,
         recv_eof, protocol_decode, decode_error, decode_pending, session_remove
<1> QED
  BY <1>1, <1>2, <1>3, <1>4, <1>5, <1>6 DEF FrNext, ServerStep, fvars

\* Until the first response that send_response or pool_recv_ack leaves in the
\* middle, every response process_ack acts on is one of the receiver, from its
\* first byte to its last, however recv() cuts them and however many wait.
THEOREM ResponsesAreWhole == FrSpec => []ResponsesWhole
<1>1. FrInit => RespInv
  BY NoResponses, EmptyAligned DEF FrInit, RespInv, ResponsesWhole
<1>2. RespInv => ResponsesWhole
  BY DEF RespInv, ResponsesWhole
<1> QED
  BY <1>1, <1>2, RespStep, PTL DEF FrSpec

------------------------------------------------------------------------------
(***************************************************************************)
(* The stream as a channel of frames.  FramesIn counts the last units in   *)
(* front of one; the proof keeps a list of their places, which every step  *)
(* extends at the end, shortens at the beginning or cuts.                  *)
(***************************************************************************)

\* A property of numbers that holds somewhere up to n holds somewhere first.
LEMMA First ==
  ASSUME NEW S \in SUBSET Nat, S # {}
  PROVE  \E x \in S : \A y \in S : x <= y
<1> DEFINE R == {ss \in Nat \X Nat : ss[1] < ss[2]}
<1>1. IsWellFoundedOn(R, Nat)
  BY NatLessThanWellFounded DEF OpToRel
<1>2. PICK x \in S : \A y \in S : ~ (<<y, x>> \in R)
  <2> HIDE DEF R
  <2> QED BY <1>1, WFMin
<1>3. ASSUME NEW y \in S PROVE x <= y
  <2>1. <<y, x>> \notin R /\ x \in Nat /\ y \in Nat
    BY <1>2
  <2> QED BY <2>1
<1> QED BY <1>3

\* g[1] ... g[n] are the places of the last units in s, in their order.
Lists(g, n, s) ==
  /\ n \in Nat
  /\ \A m \in 1 .. n : g[m] \in Ends(s)
  /\ \A i \in Ends(s) : \E m \in 1 .. n : g[m] = i
  /\ \A m, p \in 1 .. n : m < p => g[m] < g[p]

\* An increasing list of m numbers has m elements.
LEMMA Counted ==
  ASSUME NEW n \in Nat, NEW g, \A m \in 1 .. n : g[m] \in Int,
         \A m, p \in 1 .. n : m < p => g[m] < g[p]
  PROVE  Cardinality({g[m] : m \in 1 .. n}) = n
<1> DEFINE T == {g[m] : m \in 1 .. n}
           f == [m \in 1 .. n |-> g[m]]
<1>1. f \in [1 .. n -> T]
  OBVIOUS
<1>2. ASSUME NEW a \in 1 .. n, NEW b \in 1 .. n, f[a] = f[b] PROVE a = b
  <2>1. g[a] = g[b] /\ g[a] \in Int /\ g[b] \in Int
    BY <1>2
  <2>2. ~(a < b) /\ ~(b < a)
    BY <2>1
  <2> QED BY <2>2
<1>3. \A t \in T : \E m \in 1 .. n : f[m] = t
  OBVIOUS
<1>4. f \in Bijection(1 .. n, T)
  <2> HIDE DEF f, T
  <2> QED BY <1>1, <1>2, <1>3 DEF Bijection, Injection, Surjection, IsInjective
<1>5. ExistsBijection(1 .. n, T)
  <2> HIDE DEF f, T
  <2> QED BY <1>4 DEF ExistsBijection
<1>6. IsFiniteSet(1 .. n) /\ Cardinality(1 .. n) = n
  BY FS_Interval
<1> HIDE DEF T, f
<1>7. Cardinality(T) = Cardinality(1 .. n)
  BY <1>5, <1>6, FS_Bijection
<1> QED BY <1>6, <1>7 DEF T

LEMMA Ranked ==
  ASSUME NEW s, NEW g, NEW n, Lists(g, n, s)
  PROVE  /\ Cardinality(Ends(s)) = n
         /\ \A m \in 1 .. n : Cardinality({j \in Ends(s) : j <= g[m]}) = m
<1>1. /\ n \in Nat
      /\ \A m \in 1 .. n : g[m] \in Ends(s)
      /\ \A i \in Ends(s) : \E m \in 1 .. n : g[m] = i
      /\ \A m, p \in 1 .. n : m < p => g[m] < g[p]
  BY DEF Lists
<1>2. Ends(s) \subseteq Int
  BY DEF Ends
<1>3. \A m \in 1 .. n : g[m] \in Int
  BY <1>1, <1>2
<1>4. Cardinality(Ends(s)) = n
  <2>1. Ends(s) = {g[m] : m \in 1 .. n}
    BY <1>1
  <2> QED BY ONLY <1>1, <1>3, <2>1, Counted
<1>5. ASSUME NEW m \in 1 .. n PROVE Cardinality({j \in Ends(s) : j <= g[m]}) = m
  <2>1. \A p \in 1 .. n : g[p] <= g[m] => p \in 1 .. m
    <3> SUFFICES ASSUME NEW p \in 1 .. n, g[p] <= g[m], p > m PROVE FALSE
      BY <1>1
    <3>1. g[m] < g[p] /\ g[m] \in Int /\ g[p] \in Int
      BY <1>1, <1>3
    <3> QED BY <3>1
  <2>2. \A p \in 1 .. m : p \in 1 .. n /\ g[p] <= g[m]
    <3> SUFFICES ASSUME NEW p \in 1 .. m PROVE p \in 1 .. n /\ g[p] <= g[m]
      OBVIOUS
    <3>1. p \in 1 .. n /\ (p = m \/ p < m)
      BY <1>1
    <3>2. g[m] \in Int /\ g[p] \in Int
      BY <1>3, <3>1
    <3> QED BY <1>1, <3>1, <3>2
  <2>3. {j \in Ends(s) : j <= g[m]} = {g[p] : p \in 1 .. m}
    BY <1>1, <2>1, <2>2
  <2>4. m \in Nat /\ (\A p \in 1 .. m : g[p] \in Int) /\ (\A p, q \in 1 .. m : p < q => g[p] < g[q])
    BY <1>1, <1>3, <2>2
  <2> QED BY ONLY <2>3, <2>4, Counted
<1> QED BY <1>4, <1>5

LEMMA FramesAre ==
  ASSUME NEW s, NEW g, NEW n, Lists(g, n, s)
  PROVE  FramesIn(s) = [m \in 1 .. n |-> s[g[m]].kind]
<1>1. /\ n \in Nat
      /\ \A m \in 1 .. n : g[m] \in Ends(s)
      /\ \A i \in Ends(s) : \E m \in 1 .. n : g[m] = i
  BY DEF Lists
<1>2. /\ Cardinality(Ends(s)) = n
      /\ \A m \in 1 .. n : Cardinality({j \in Ends(s) : j <= g[m]}) = m
  BY Ranked
<1>3. ASSUME NEW m \in 1 .. n PROVE Nth(Ends(s), m) = g[m]
  <2>1. g[m] \in Ends(s) /\ Cardinality({j \in Ends(s) : j <= g[m]}) = m
    BY <1>1, <1>2
  <2>2. ASSUME NEW i \in Ends(s), Cardinality({j \in Ends(s) : j <= i}) = m PROVE i = g[m]
    BY <1>1, <1>2, <2>2
  <2> QED BY ONLY <2>1, <2>2 DEF Nth
<1> QED BY <1>2, <1>3 DEF FramesIn

LEMMA EndsAre ==
  ASSUME NEW s, NEW i
  PROVE  i \in Ends(s) <=> i \in 1 .. Len(s) /\ s[i].pos = FrameLen(s[i].kind)
  BY DEF Ends

LEMMA NoFrames == Lists(<< >>, 0, << >>) /\ FramesIn(<< >>) = << >>
<1>1. Ends(<< >>) = {}
  BY DEF Ends
<1>2. Lists(<< >>, 0, << >>)
  BY <1>1 DEF Lists
<1>3. FramesIn(<< >>) = [m \in 1 .. 0 |-> << >>[<< >>[m]].kind]
  BY <1>2, FramesAre
<1> QED BY <1>2, <1>3

\* A frame at the end of a stream is one more frame.
LEMMA FrameAdded ==
  ASSUME NEW s \in Seq(Units), NEW g, NEW n, Lists(g, n, s), NEW k \in Kinds,
         NEW u, u = s \o [i \in 1 .. FrameLen(k) |-> Unit(k, i)]
  PROVE  /\ \E h : Lists(h, n + 1, u)
         /\ FramesIn(u) = Append(FramesIn(s), k)
<1>0. n \in Nat
  BY DEF Lists
<1>1. PICK l, w \in Nat : l = Len(s) /\ w = FrameLen(k) /\ w > 0
  BY FrameLenPositive
<1>2. PICK f : f = [i \in 1 .. w |-> Unit(k, i)]
  OBVIOUS
<1>3. f \in Seq(Units) /\ Len(f) = w /\ \A i \in 1 .. w : f[i] = Unit(k, i)
  <2>1. \A i \in 1 .. w : Unit(k, i) \in Units
    BY DEF Unit, Units
  <2> QED BY <1>1, <1>2, <2>1
<1>4. /\ Len(u) = l + w
      /\ \A i \in 1 .. l : u[i] = s[i]
      /\ \A i \in l + 1 .. l + w : u[i] = f[i - l]
  BY <1>1, <1>2, <1>3, Joined
<1>5. \A i \in l + 1 .. l + w : u[i].kind = k /\ u[i].pos = i - l
  <2> SUFFICES ASSUME NEW i \in l + 1 .. l + w PROVE u[i].kind = k /\ u[i].pos = i - l
    OBVIOUS
  <2>1. i - l \in 1 .. w
    BY <1>1
  <2>2. u[i] = Unit(k, i - l)
    BY <1>3, <1>4, <2>1
  <2> QED BY ONLY <2>2 DEF Unit
<1>6. /\ n \in Nat
      /\ \A m \in 1 .. n : g[m] \in Ends(s)
      /\ \A i \in Ends(s) : \E m \in 1 .. n : g[m] = i
      /\ \A m, p \in 1 .. n : m < p => g[m] < g[p]
  BY DEF Lists
<1>7. ASSUME NEW i PROVE i \in Ends(u) <=> i \in Ends(s) \/ i = l + w
  <2>1. i \in Ends(u) <=> i \in 1 .. l + w /\ u[i].pos = FrameLen(u[i].kind)
    BY <1>4, EndsAre
  <2>2. i \in Ends(s) <=> i \in 1 .. l /\ s[i].pos = FrameLen(s[i].kind)
    BY <1>1, EndsAre
  <2>3. CASE i \in 1 .. l
    BY <1>1, <1>4, <2>1, <2>2, <2>3
  <2>4. CASE i \in l + 1 .. l + w
    <3>1. i \in Ends(u) <=> i - l = w
      BY <1>1, <1>5, <2>1, <2>4
    <3>2. i \notin Ends(s)
      BY <1>1, <2>2, <2>4
    <3>3. i - l = w <=> i = l + w
      BY <1>1, <2>4
    <3> QED BY ONLY <3>1, <3>2, <3>3
  <2>5. CASE i \notin 1 .. l + w
    BY <1>1, <2>1, <2>2, <2>5
  <2> QED BY <1>1, <2>3, <2>4, <2>5
<1>8. PICK h : h = [m \in 1 .. n + 1 |-> IF m <= n THEN g[m] ELSE l + w]
  OBVIOUS
<1>9. (\A m \in 1 .. n : h[m] = g[m]) /\ h[n + 1] = l + w
  BY <1>6, <1>8
<1>10. \A m \in 1 .. n : g[m] \in 1 .. l
  BY <1>1, <1>6, EndsAre
<1>11. \A m \in 1 .. n + 1 : m \in 1 .. n \/ m = n + 1
  BY <1>6
<1>12. Lists(h, n + 1, u)
  <2>1. \A m \in 1 .. n + 1 : h[m] \in Ends(u)
    BY <1>6, <1>7, <1>9, <1>11
  <2>2. \A i \in Ends(u) : \E m \in 1 .. n + 1 : h[m] = i
    <3> SUFFICES ASSUME NEW i \in Ends(u) PROVE \E m \in 1 .. n + 1 : h[m] = i
      OBVIOUS
    <3>1. CASE i \in Ends(s)
      <4>1. PICK m \in 1 .. n : g[m] = i
        BY <1>6, <3>1
      <4>2. m \in 1 .. n + 1 /\ h[m] = i
        BY <1>6, <1>9, <4>1
      <4> QED BY <4>2
    <3>2. CASE i = l + w
      BY <1>6, <1>9, <3>2
    <3> QED BY <1>7, <3>1, <3>2
  <2>3. ASSUME NEW m \in 1 .. n + 1, NEW p \in 1 .. n + 1, m < p PROVE h[m] < h[p]
    <3>1. m \in 1 .. n
      BY <1>6, <2>3
    <3>2. CASE p \in 1 .. n
      BY <1>6, <1>9, <2>3, <3>1, <3>2
    <3>3. CASE p = n + 1
      <4>1. h[m] \in 1 .. l /\ h[p] = l + w
        BY <1>9, <1>10, <3>1, <3>3
      <4> QED BY <1>1, <4>1
    <3> QED BY <1>11, <3>2, <3>3
  <2> QED BY <1>6, <2>1, <2>2, <2>3 DEF Lists
<1>13. FramesIn(u) = [m \in 1 .. n + 1 |-> u[h[m]].kind]
  BY ONLY <1>12, FramesAre
<1>14. FramesIn(s) = [m \in 1 .. n |-> s[g[m]].kind]
  BY FramesAre
<1>15. PICK c, d : c = FramesIn(s) /\ d = FramesIn(u)
  OBVIOUS
<1>16. c \in Seq(Kinds) /\ Len(c) = n
  <2>1. ASSUME NEW m \in 1 .. n PROVE s[g[m]].kind \in Kinds
    <3>1. s[g[m]] \in Units
      BY <1>1, <1>10
    <3> QED BY <3>1 DEF Units
  <2> QED BY <1>6, <1>14, <1>15, <2>1
<1>17. \A m \in 1 .. n : d[m] = c[m]
  <2> SUFFICES ASSUME NEW m \in 1 .. n PROVE d[m] = c[m]
    OBVIOUS
  <2>0. m \in 1 .. n + 1
    BY <1>6
  <2>1. d[m] = u[h[m]].kind /\ c[m] = s[g[m]].kind
    BY ONLY m \in 1 .. n, <1>13, <1>14, <1>15, <2>0
  <2>2. h[m] = g[m] /\ u[g[m]] = s[g[m]]
    BY <1>4, <1>9, <1>10
  <2> QED BY <2>1, <2>2
<1>18. d[n + 1] = k
  <2>1. n + 1 \in 1 .. n + 1 /\ l + w \in l + 1 .. l + w
    BY <1>1, <1>6
  <2>2. d[n + 1] = u[h[n + 1]].kind
    BY ONLY <1>13, <1>15, <2>1
  <2> QED BY ONLY <1>5, <1>9, <2>1, <2>2
<1>19. d = [m \in 1 .. n + 1 |-> d[m]]
  BY <1>13, <1>15
<1>20. d = Append(c, k)
  <2>1. PICK a : a = Append(c, k)
    OBVIOUS
  <2>2. /\ a \in Seq(Kinds) /\ Len(a) = n + 1 /\ a[n + 1] = k
        /\ \A m \in 1 .. n : a[m] = c[m]
    BY ONLY <1>16, <1>0, <2>1, k \in Kinds
  <2>3. \A m \in 1 .. n + 1 : d[m] = a[m]
    BY ONLY <1>11, <1>17, <1>18, <2>2
  <2>4. a = [m \in 1 .. n + 1 |-> a[m]]
    BY ONLY <1>0, <2>2
  <2> QED BY ONLY <1>19, <2>1, <2>3, <2>4
<1> QED BY <1>12, <1>15, <1>20

\* Taking the first frame off the stream takes the first frame.
LEMMA FrameRemoved ==
  ASSUME NEW s \in Seq(Units), s # << >>, Aligned(FrameLens, s),
         NEW w, w = FrameLen(s[1].kind), w <= Len(s),
         NEW g, NEW n, Lists(g, n, s),
         NEW t, t = SubSeq(s, w + 1, Len(s))
  PROVE  /\ \E h : Lists(h, n - 1, t)
         /\ FramesIn(s) # << >> /\ FramesIn(t) = Tail(FramesIn(s))
<1>0. s[1].kind \in Kinds
  <2>1. s[1] \in Units
    OBVIOUS
  <2> QED BY <2>1 DEF Units
<1>1. PICK l \in Nat : l = Len(s) /\ w \in Nat \ {0} /\ w <= l /\ w \in 0 .. l
  BY <1>0, FrameLenPositive
<1>2. \A j \in 1 .. w : s[j].kind = s[1].kind /\ s[j].pos = j
  <2>1. \A j \in 1 .. w : s[j] = Unit(s[1].kind, j)
    BY FrameTaken
  <2>2. PICK k : k = s[1].kind
    OBVIOUS
  <2>3. \A j : Unit(k, j).kind = k /\ Unit(k, j).pos = j
    BY ONLY <2>2 DEF Unit
  <2>4. \A j \in 1 .. w : s[j] = Unit(k, j)
    BY ONLY <2>1, <2>2
  <2> QED BY ONLY <2>2, <2>3, <2>4
<1>3. Len(t) = l - w /\ \A i \in 1 .. l - w : t[i] = s[i + w]
  BY <1>1, Suffix
<1>4. /\ n \in Nat
      /\ \A m \in 1 .. n : g[m] \in Ends(s)
      /\ \A i \in Ends(s) : \E m \in 1 .. n : g[m] = i
      /\ \A m, p \in 1 .. n : m < p => g[m] < g[p]
  BY DEF Lists
<1>5. \A m \in 1 .. n : g[m] \in 1 .. l
  BY <1>1, <1>4, EndsAre
<1>6. ASSUME NEW i \in 1 .. w PROVE i \in Ends(s) <=> i = w
  <2>1. i \in 1 .. l /\ s[i].kind = s[1].kind /\ s[i].pos = i
    BY <1>1, <1>2
  <2>2. i \in Ends(s) <=> i = FrameLen(s[1].kind)
    BY ONLY <1>1, <2>1, EndsAre
  <2> QED BY <2>2
<1>7. n >= 1 /\ g[1] = w
  <2>1. w \in Ends(s)
    BY <1>1, <1>6
  <2>2. PICK m \in 1 .. n : g[m] = w
    BY <1>4, <2>1
  <2>3. n >= 1 /\ 1 \in 1 .. n /\ m \in Nat /\ m >= 1
    BY <1>4
  <2>4. m = 1
    <3> SUFFICES ASSUME m > 1 PROVE FALSE
      BY <2>3
    <3>1. g[1] < g[m] /\ g[1] \in Ends(s) /\ g[1] \in 1 .. l
      BY <1>4, <1>5, <2>3
    <3>2. g[1] \in 1 .. w /\ g[1] # w
      BY <1>1, <2>2, <3>1
    <3> QED BY <1>6, <3>1, <3>2
  <2> QED BY <2>2, <2>3, <2>4
<1>8. \A m \in 1 .. n - 1 : m \in 1 .. n /\ m + 1 \in 1 .. n
  BY <1>4
<1>9. ASSUME NEW m \in 1 .. n - 1 PROVE g[m + 1] > w /\ g[m + 1] \in 1 .. l
  <2>1. 1 \in 1 .. n /\ m + 1 \in 1 .. n /\ 1 < m + 1
    BY <1>4, <1>7
  <2> QED BY <1>4, <1>5, <1>7, <2>1
<1>10. ASSUME NEW i PROVE i \in Ends(t) <=> i \in 1 .. l - w /\ i + w \in Ends(s)
  <2>1. i \in Ends(t) <=> i \in 1 .. l - w /\ t[i].pos = FrameLen(t[i].kind)
    BY ONLY <1>3, EndsAre
  <2>2. ASSUME i \in 1 .. l - w PROVE i + w \in 1 .. l /\ t[i] = s[i + w]
    <3>1. i \in Nat /\ 1 <= i /\ i <= l - w
      BY <1>1, <2>2
    <3>2. i + w \in 1 .. l
      BY <1>1, <3>1
    <3> QED BY ONLY <1>3, <2>2, <3>2
  <2>3. ASSUME i \in 1 .. l - w
        PROVE  i + w \in Ends(s) <=> s[i + w].pos = FrameLen(s[i + w].kind)
    <3>1. PICK j : j = i + w /\ j \in 1 .. Len(s)
      BY <1>1, <2>2, <2>3
    <3> QED BY ONLY <3>1, EndsAre
  <2> QED BY ONLY <2>1, <2>2, <2>3
<1>11. PICK h : h = [m \in 1 .. n - 1 |-> g[m + 1] - w]
  OBVIOUS
<1>12. \A m \in 1 .. n - 1 : h[m] = g[m + 1] - w /\ h[m] \in 1 .. l - w /\ h[m] + w = g[m + 1]
  BY <1>1, <1>9, <1>11
<1>13. Lists(h, n - 1, t)
  <2>1. \A m \in 1 .. n - 1 : h[m] \in Ends(t)
    BY <1>4, <1>8, <1>10, <1>12
  <2>2. \A i \in Ends(t) : \E m \in 1 .. n - 1 : h[m] = i
    <3> SUFFICES ASSUME NEW i \in Ends(t) PROVE \E m \in 1 .. n - 1 : h[m] = i
      OBVIOUS
    <3>1. i \in 1 .. l - w /\ i + w \in Ends(s)
      BY <1>10
    <3>2. PICK m \in 1 .. n : g[m] = i + w
      BY <1>4, <3>1
    <3>3. m # 1
      BY <1>1, <1>7, <3>1, <3>2
    <3>4. m - 1 \in 1 .. n - 1 /\ (m - 1) + 1 = m
      BY <1>4, <3>3
    <3>5. h[m - 1] = i
      <4>1. h[m - 1] = g[(m - 1) + 1] - w
        BY ONLY <1>12, <3>4
      <4>2. h[m - 1] = (i + w) - w
        BY ONLY <3>2, <3>4, <4>1
      <4> QED BY <1>1, <3>1, <4>2
    <3> QED BY <3>4, <3>5
  <2>3. ASSUME NEW m \in 1 .. n - 1, NEW p \in 1 .. n - 1, m < p PROVE h[m] < h[p]
    <3>1. m + 1 \in 1 .. n /\ p + 1 \in 1 .. n /\ m + 1 < p + 1
      BY <1>4, <2>3
    <3>2. g[m + 1] < g[p + 1]
      BY <1>4, <3>1
    <3>3. g[m + 1] \in Int /\ g[p + 1] \in Int
      BY <1>9
    <3> QED BY <1>1, <1>12, <3>2, <3>3
  <2> QED BY <1>4, <1>7, <2>1, <2>2, <2>3 DEF Lists
<1>14. FramesIn(t) = [m \in 1 .. n - 1 |-> t[h[m]].kind]
  BY ONLY <1>13, FramesAre
<1>15. FramesIn(s) = [m \in 1 .. n |-> s[g[m]].kind]
  BY FramesAre
<1>16. PICK c, d : c = FramesIn(s) /\ d = FramesIn(t)
  OBVIOUS
<1>17. c \in Seq(Kinds) /\ Len(c) = n
  <2>1. ASSUME NEW m \in 1 .. n PROVE s[g[m]].kind \in Kinds
    <3>1. s[g[m]] \in Units
      BY <1>1, <1>5
    <3> QED BY <3>1 DEF Units
  <2> QED BY <1>4, <1>15, <1>16, <2>1
<1>18. \A m \in 1 .. n - 1 : d[m] = c[m + 1]
  <2> SUFFICES ASSUME NEW m \in 1 .. n - 1 PROVE d[m] = c[m + 1]
    OBVIOUS
  <2>1. d[m] = t[h[m]].kind /\ c[m + 1] = s[g[m + 1]].kind
    BY ONLY m \in 1 .. n - 1, <1>8, <1>14, <1>15, <1>16
  <2>2. t[h[m]] = s[h[m] + w] /\ h[m] + w = g[m + 1]
    BY ONLY m \in 1 .. n - 1, <1>3, <1>12
  <2> QED BY ONLY <2>1, <2>2
<1>19. PICK z : z = Tail(c)
  OBVIOUS
<1>20. z = [m \in 1 .. n - 1 |-> c[m + 1]]
  <2>1. c # << >>
    BY ONLY <1>7, <1>17
  <2>2. /\ z \in Seq(Kinds) /\ Len(z) = Len(c) - 1
        /\ \A m \in 1 .. Len(z) : z[m] = c[m + 1]
    BY ONLY <1>17, <1>19, <2>1, HeadTailProperties
  <2>3. Len(z) = n - 1 /\ \A m \in 1 .. n - 1 : z[m] = c[m + 1]
    BY ONLY <1>17, <2>2
  <2>4. z = [m \in 1 .. Len(z) |-> z[m]]
    BY ONLY <2>2
  <2> QED BY ONLY <2>3, <2>4
<1>21. d = [m \in 1 .. n - 1 |-> d[m]]
  BY ONLY <1>14, <1>16
<1>22. d = z
  BY ONLY <1>18, <1>20, <1>21
<1>23. c # << >>
  BY ONLY <1>7, <1>17
<1> QED BY <1>13, <1>16, <1>19, <1>22, <1>23

\* A prefix of the stream holds the first frames.
LEMMA FramesCut ==
  ASSUME NEW s \in Seq(Units), NEW r \in 0 .. Len(s), NEW g, NEW n, Lists(g, n, s),
         NEW t, t = SubSeq(s, 1, r)
  PROVE  \E k \in 0 .. Len(FramesIn(s)) :
           /\ \E h : Lists(h, k, t)
           /\ FramesIn(t) = SubSeq(FramesIn(s), 1, k)
<1>1. Len(t) = r /\ r \in Nat /\ r <= Len(s) /\ \A i \in 1 .. r : t[i] = s[i]
  BY Prefix
<1>2. /\ n \in Nat
      /\ \A m \in 1 .. n : g[m] \in Ends(s)
      /\ \A i \in Ends(s) : \E m \in 1 .. n : g[m] = i
      /\ \A m, p \in 1 .. n : m < p => g[m] < g[p]
  BY DEF Lists
<1>3. \A m \in 1 .. n : g[m] \in 1 .. Len(s)
  BY <1>2, EndsAre
<1>4. ASSUME NEW i PROVE i \in Ends(t) <=> i \in Ends(s) /\ i <= r
  <2>1. i \in Ends(t) <=> i \in 1 .. r /\ t[i].pos = FrameLen(t[i].kind)
    BY ONLY <1>1, EndsAre
  <2>2. i \in Ends(s) <=> i \in 1 .. Len(s) /\ s[i].pos = FrameLen(s[i].kind)
    BY ONLY EndsAre
  <2>3. i \in 1 .. r <=> i \in 1 .. Len(s) /\ i <= r
    BY <1>1
  <2> QED BY ONLY <1>1, <2>1, <2>2, <2>3
<1>5. PICK k \in 0 .. n : /\ \A m \in 1 .. k : g[m] <= r
                          /\ \A m \in 1 .. n : m > k => g[m] > r
  <2> DEFINE S == {m \in 0 .. n : m = n \/ g[m + 1] > r}
  <2>1. S \subseteq Nat /\ n \in S
    BY <1>2
  <2>2. PICK k \in S : \A m \in S : k <= m
    <3> HIDE DEF S
    <3> QED BY ONLY <2>1, First
  <2>3. k \in 0 .. n
    OBVIOUS
  <2>4. ASSUME NEW m \in 1 .. k PROVE g[m] <= r
    <3>1. m - 1 \in 0 .. n /\ m - 1 < k /\ (m - 1) + 1 = m /\ m \in 1 .. n
      BY <1>2, <2>3
    <3>2. m - 1 \notin S
      BY <2>2, <3>1
    <3>3. ~(g[m] > r)
      BY <3>1, <3>2
    <3>4. g[m] \in Int
      BY <1>3, <3>1
    <3> QED BY <1>1, <3>3, <3>4
  <2>5. ASSUME NEW m \in 1 .. n, m > k PROVE g[m] > r
    <3>1. k # n /\ k + 1 \in 1 .. n /\ (m = k + 1 \/ k + 1 < m)
      BY <1>2, <2>3, <2>5
    <3>2. g[k + 1] > r
      BY <3>1
    <3>3. m = k + 1 \/ g[k + 1] < g[m]
      BY <1>2, <3>1
    <3>4. g[m] \in Int /\ g[k + 1] \in Int
      BY <1>3, <3>1
    <3> QED BY <1>1, <3>2, <3>3, <3>4
  <2> QED BY ONLY <2>3, <2>4, <2>5
<1>6. k \in Nat /\ k <= n /\ \A m \in 1 .. k : m \in 1 .. n
  BY <1>2
<1>7. Lists(g, k, t)
  <2>1. \A m \in 1 .. k : g[m] \in Ends(t)
    BY <1>2, <1>4, <1>5, <1>6
  <2>2. \A i \in Ends(t) : \E m \in 1 .. k : g[m] = i
    <3> SUFFICES ASSUME NEW i \in Ends(t) PROVE \E m \in 1 .. k : g[m] = i
      OBVIOUS
    <3>1. i \in Ends(s) /\ i <= r
      BY <1>4
    <3>2. PICK m \in 1 .. n : g[m] = i
      BY <1>2, <3>1
    <3>3. ~(m > k)
      <4>1. i \in Int
        BY <1>3, <3>2
      <4> QED BY <1>1, <1>5, <3>1, <3>2, <4>1
    <3>4. m \in 1 .. k
      BY <1>6, <3>3
    <3> QED BY <3>2, <3>4
  <2> QED BY <1>2, <1>6, <2>1, <2>2 DEF Lists
<1>8. FramesIn(t) = [m \in 1 .. k |-> t[g[m]].kind]
  BY ONLY <1>7, FramesAre
<1>9. FramesIn(s) = [m \in 1 .. n |-> s[g[m]].kind]
  BY FramesAre
<1>10. PICK c, d : c = FramesIn(s) /\ d = FramesIn(t)
  OBVIOUS
<1>11. c \in Seq(Kinds) /\ Len(c) = n
  <2>1. ASSUME NEW m \in 1 .. n PROVE s[g[m]].kind \in Kinds
    <3>1. s[g[m]] \in Units
      BY <1>3
    <3> QED BY <3>1 DEF Units
  <2> QED BY <1>2, <1>9, <1>10, <2>1
<1>12. \A m \in 1 .. k : d[m] = c[m]
  <2> SUFFICES ASSUME NEW m \in 1 .. k PROVE d[m] = c[m]
    OBVIOUS
  <2>1. d[m] = t[g[m]].kind /\ c[m] = s[g[m]].kind
    BY ONLY m \in 1 .. k, <1>6, <1>8, <1>9, <1>10
  <2>2. g[m] \in 1 .. r
    <3>1. g[m] \in 1 .. Len(s) /\ g[m] <= r
      BY <1>3, <1>5, <1>6
    <3> QED BY <1>1, <3>1
  <2>3. t[g[m]] = s[g[m]]
    BY ONLY <1>1, <2>2
  <2> QED BY ONLY <2>1, <2>3
<1>13. PICK z : z = SubSeq(c, 1, k)
  OBVIOUS
<1>14. z \in Seq(Kinds) /\ Len(z) = k /\ \A m \in 1 .. k : z[m] = c[m]
  BY ONLY <1>6, <1>11, <1>13, <1>2, Prefix
<1>15. z = [m \in 1 .. k |-> z[m]]
  BY ONLY <1>14
<1>16. d = [m \in 1 .. k |-> d[m]]
  BY ONLY <1>8, <1>10
<1>17. d = z
  BY ONLY <1>12, <1>14, <1>15, <1>16
<1>18. k \in 0 .. Len(c)
  BY ONLY <1>2, <1>6, <1>11
<1> QED BY ONLY <1>7, <1>10, <1>13, <1>17, <1>18

Up == cpc # "down" /\ spc # "gone"

\* There is a list of the last units in the stream.
Listed(s) == \E g, n : Lists(g, n, s)

\* What a step does to the channel: nothing, or one of its actions.
ChannelSteps ==
  \/ FramesIn(stream)' = FramesIn(stream) /\ Up' = Up
  \/ \E k \in Kinds : FramesIn(stream)' = Append(FramesIn(stream), k) /\ Up' = Up
  \/ FramesIn(stream) # << >> /\ FramesIn(stream)' = Tail(FramesIn(stream)) /\ Up' = Up
  \/ /\ Up' = FALSE
     /\ \E n \in 0 .. Len(FramesIn(stream)) : FramesIn(stream)' = SubSeq(FramesIn(stream), 1, n)
  \/ ~Up /\ Up' = TRUE /\ FramesIn(stream)' = << >>

LEMMA ChannelStepsAre ==
  ChannelSteps => [Channel!ChanNext]_<<FramesIn(stream), cpc # "down" /\ spc # "gone">>
  BY DEF ChannelSteps, Up, Channel!ChanNext, Channel!Send, Channel!Handle, Channel!Cut, Channel!Open

\* Steps that leave the stream and both ends of the connection alone.
LEMMA Unheard ==
  ASSUME Listed(stream), UNCHANGED stream, Up' = Up
  PROVE  Listed(stream)' /\ ChannelSteps
  BY DEF Listed, ChannelSteps

\* Steps that lose everything.
LEMMA Lost ==
  ASSUME Listed(stream), stream' = << >>, Up' = FALSE
  PROVE  Listed(stream)' /\ ChannelSteps
<1>1. Listed(stream)' /\ FramesIn(stream)' = << >>
  BY NoFrames DEF Listed
<1>2. PICK g, n, c : Lists(g, n, stream) /\ c = FramesIn(stream)
  BY DEF Listed
<1>3. n \in Nat /\ c = [m \in 1 .. n |-> stream[g[m]].kind]
  <2>1. n \in Nat
    BY ONLY <1>2 DEF Lists
  <2>2. FramesIn(stream) = [m \in 1 .. n |-> stream[g[m]].kind]
    BY ONLY <1>2, FramesAre
  <2> QED BY ONLY <1>2, <2>1, <2>2
<1>4. 0 \in 0 .. Len(c) /\ SubSeq(c, 1, 0) = << >>
  <2>1. PICK S : S = {stream[g[m]].kind : m \in 1 .. n}
    OBVIOUS
  <2>2. c = [m \in 1 .. n |-> c[m]] /\ \A m \in 1 .. n : c[m] \in S
    BY ONLY <1>3, <2>1
  <2>3. c \in Seq(S)
    BY ONLY <1>3, <2>2
  <2> QED BY ONLY <2>3
<1>5. \E m \in 0 .. Len(c) : SubSeq(c, 1, m) = << >>
  BY ONLY <1>4
<1>6. \E m \in 0 .. Len(FramesIn(stream)) : FramesIn(stream)' = SubSeq(FramesIn(stream), 1, m)
  BY ONLY <1>1, <1>2, <1>5
<1> QED BY <1>1, <1>6 DEF ChannelSteps

LEMMA ChannelStep ==
  ASSUME FrInv, Listed(stream), [FrNext]_fvars
  PROVE  Listed(stream)' /\ ChannelSteps
<1>0. stream \in Seq(Units) /\ Aligned(FrameLens, stream)
  BY DEF FrInv, FrTypeOK
<1>1. ASSUME NEW k \in Kinds, wire_send(k) PROVE Listed(stream)' /\ ChannelSteps
  <2>1. PICK g, n : Lists(g, n, stream)
    BY DEF Listed
  <2>2. PICK u : u = stream' /\ u = stream \o [i \in 1 .. FrameLen(k) |-> Unit(k, i)]
    BY <1>1 DEF wire_send
  <2>3. (\E h : Lists(h, n + 1, u)) /\ FramesIn(u) = Append(FramesIn(stream), k)
    BY ONLY <1>0, <2>1, <2>2, k \in Kinds, FrameAdded
  <2>4. Up' = Up
    BY <1>1 DEF wire_send, Up
  <2> QED BY <2>2, <2>3, <2>4 DEF Listed, ChannelSteps
<1>2. CASE send_all \/ process_ack \/ pool_recv_ack \/ NoMoreResponses \/ Select \/ recv_again
           \/ decode_pending \/ handle \/ UNCHANGED fvars
  <2>1. UNCHANGED stream /\ Up' = Up
    BY <1>2 DEF send_all, process_ack, pool_recv_ack, NoMoreResponses, Select, recv_again,
                decode_pending, handle, AfterFrame, fvars, Up
  <2> QED BY <2>1, Unheard
<1>3. CASE SendFails \/ recv_eof \/ decode_error
  <2>1. stream' = << >> /\ Up' = FALSE
    BY <1>3 DEF SendFails, recv_eof, decode_error, session_remove, Up
  <2> QED BY <2>1, Lost
<1>4. CASE recv
  <2>1. CASE session_remove
    <3>1. stream' = << >> /\ Up' = FALSE
      BY <2>1 DEF session_remove, Up
    <3> QED BY <3>1, Lost
  <2>2. CASE ~session_remove
    <3>1. UNCHANGED stream /\ Up' = Up
      BY <1>4, <2>2 DEF recv, Up
    <3> QED BY <3>1, Unheard
  <2> QED BY <2>1, <2>2
<1>5. CASE protocol_decode
  <2>1. PICK w, t : /\ w = FrameLen(stream[1].kind)
                    /\ t = stream' /\ t = SubSeq(stream, w + 1, Len(stream))
    BY <1>5 DEF protocol_decode, Consume
  <2>2. stream # << >> /\ w <= Len(stream)
    <3>1. /\ recv_len \in Nat /\ inflight \in Nat /\ recv_len + inflight <= Len(stream)
          /\ recv_len >= HeaderLen /\ recv_len >= w /\ HeaderLen \in Nat \ {0}
      BY <1>5, <2>1, FramingAssumption DEF protocol_decode, FrameComplete, FrInv, FrTypeOK
    <3>2. stream # << >>
      BY <1>0, <3>1
    <3>3. w \in Nat
      <4>1. stream[1] \in Units
        BY <1>0, <3>2
      <4>2. stream[1].kind \in Kinds
        BY <4>1 DEF Units
      <4> QED BY <2>1, <4>2, FrameLenPositive
    <3> QED BY <1>0, <3>1, <3>2, <3>3
  <2>3. PICK g, n : Lists(g, n, stream)
    BY DEF Listed
  <2>4. /\ \E h : Lists(h, n - 1, t)
        /\ FramesIn(stream) # << >> /\ FramesIn(t) = Tail(FramesIn(stream))
    BY ONLY <1>0, <2>1, <2>2, <2>3, FrameRemoved
  <2>5. Up' = Up
    BY <1>5 DEF protocol_decode, Up
  <2> QED BY <2>1, <2>4, <2>5 DEF Listed, ChannelSteps
<1>6. CASE Close
  <2>1. PICK r, t : r = recv_len + inflight /\ t = stream' /\ t = SubSeq(stream, 1, r)
    BY <1>6 DEF Close
  <2>2. r \in 0 .. Len(stream)
    BY <2>1 DEF FrInv, FrTypeOK
  <2>3. PICK g, n : Lists(g, n, stream)
    BY DEF Listed
  <2>4. \E k \in 0 .. Len(FramesIn(stream)) :
           /\ \E h : Lists(h, k, t)
           /\ FramesIn(t) = SubSeq(FramesIn(stream), 1, k)
    BY ONLY <1>0, <2>1, <2>2, <2>3, FramesCut
  <2>5. Up' = FALSE
    BY <1>6 DEF Close, Up
  <2> QED BY <2>1, <2>4, <2>5 DEF Listed, ChannelSteps
<1>7. CASE Connect
  <2>1. stream' = << >> /\ ~Up /\ Up' = TRUE
    BY <1>7 DEF Connect, Up
  <2>2. Listed(stream)' /\ FramesIn(stream)' = << >>
    BY <2>1, NoFrames DEF Listed
  <2> QED BY <2>1, <2>2 DEF ChannelSteps
<1> QED
  BY <1>1, <1>2, <1>3, <1>4, <1>5, <1>6, <1>7 DEF FrNext, ClientSends, ServerStep

\* recv_buf and protocol_decode make a channel of whole frames out of a stream of
\* bytes: every step of client, receiver and network is a step of FrameChannel, or
\* invisible there.  This is what lets the module Receiver speak of frames.
THEOREM StreamIsChannel == FrSpec => ImplementsChannel
<1>1. FrInit => Listed(stream) /\ Channel!ChanInit
  BY NoFrames DEF FrInit, Listed, Channel!ChanInit
<1>2. FrInv /\ Listed(stream) /\ [FrNext]_fvars =>
        Listed(stream)' /\ [Channel!ChanNext]_<<FramesIn(stream), cpc # "down" /\ spc # "gone">>
  BY ChannelStep, ChannelStepsAre
<1> QED BY <1>1, <1>2, FramingInvariant, PTL DEF FrSpec, ImplementsChannel, Channel!ChanSpec

------------------------------------------------------------------------------
(***************************************************************************)
(* MessagePack.                                                            *)
(***************************************************************************)

\* The bytes of an integer, and what the decoder makes of them.
LEMMA BytesOf ==
  ASSUME NEW v \in Int32s
  PROVE  /\ Byte0(v) \in 0 .. 255 /\ Byte1(v) \in 0 .. 255
         /\ Byte2(v) \in 0 .. 255 /\ Byte3(v) \in 0 .. 255
         /\ -128 <= v /\ v <= 127 => v = Signed(Byte0(v))
         /\ -32768 <= v /\ v <= 32767 => v = 256 * Signed(Byte1(v)) + Byte0(v)
         /\ v = 16777216 * Signed(Byte3(v)) + 65536 * Byte2(v) + 256 * Byte1(v) + Byte0(v)
         /\ -32 <= v /\ v < 0 => Byte0(v) >= 224
         /\ 0 <= v /\ v < 256 => v = Byte0(v)
         /\ 0 <= v /\ v < 65536 => v = 256 * Byte1(v) + Byte0(v)
         /\ v >= 0 => v = 16777216 * Byte3(v) + 65536 * Byte2(v) + 256 * Byte1(v) + Byte0(v)
<1>1. v \in Int /\ v >= -2147483648 /\ v < 2147483648
  BY SMT DEF Int32s
<1>2. PICK b0, b1, b2, b3, q1, q2, q3 \in Int :
        /\ b0 = Byte0(v) /\ b1 = Byte1(v) /\ b2 = Byte2(v) /\ b3 = Byte3(v)
        /\ q1 = v \div 256 /\ q2 = v \div 65536 /\ q3 = v \div 16777216
  BY <1>1, SMT DEF Byte0, Byte1, Byte2, Byte3
<1>3. b0 \in 0 .. 255 /\ b1 \in 0 .. 255 /\ b2 \in 0 .. 255 /\ b3 \in 0 .. 255
  BY <1>1, <1>2, SMT DEF Byte0, Byte1, Byte2, Byte3
<1>4. v = 256 * q1 + b0
  BY <1>1, <1>2, SMT DEF Byte0
<1>5. q1 = 256 * q2 + b1
  BY <1>1, <1>2, SMT DEF Byte1
<1>6. q2 = 256 * q3 + b2
  BY <1>1, <1>2, SMT DEF Byte2
<1>7. q3 >= -128 /\ q3 < 128
  BY <1>1, <1>2, SMT
<1>8. b3 = q3 % 256
  BY <1>2, SMT DEF Byte3
<1>9. q3 = Signed(b3)
  BY <1>3, <1>7, <1>8, SMT DEF Signed
<1>10. v = 16777216 * Signed(b3) + 65536 * b2 + 256 * b1 + b0
  BY <1>3, <1>4, <1>5, <1>6, <1>9, SMT
<1>11. -128 <= v /\ v <= 127 => v = Signed(b0)
  BY <1>1, <1>2, <1>3, SMT DEF Byte0, Signed
<1>12. ASSUME -32768 <= v /\ v <= 32767 PROVE v = 256 * Signed(b1) + b0
  <2>1. v >= -32768 /\ v < 32768
    BY <1>1, <1>12, SMT
  <2>2. q1 >= -128 /\ q1 < 128
    BY <1>1, <1>2, <2>1, SMT
  <2>3. b1 = q1 % 256
    BY <1>2 DEF Byte1
  <2>4. q1 = Signed(b1)
    BY <1>3, <2>2, <2>3, SMT DEF Signed
  <2> QED
    BY <1>4, <2>4
<1>13. 0 <= v /\ v < 256 => v = b0
  BY <1>1, <1>2, SMT DEF Byte0
<1>14. -32 <= v /\ v < 0 => b0 >= 224
  BY <1>1, <1>2, SMT DEF Byte0
<1>15. ASSUME 0 <= v /\ v < 65536 PROVE v = 256 * b1 + b0
  <2>1. v >= 0 /\ v < 65536
    BY <1>1, <1>15, SMT
  <2>2. q1 >= 0 /\ q1 < 256
    BY <1>1, <1>2, <2>1, SMT
  <2>3. b1 = q1 % 256
    BY <1>2 DEF Byte1
  <2>4. q1 = b1
    BY <2>2, <2>3, SMT
  <2> QED
    BY <1>4, <2>4
<1>16. v >= 0 => v = 16777216 * b3 + 65536 * b2 + 256 * b1 + b0
  <2>1. SUFFICES ASSUME v >= 0 PROVE q3 = b3
    BY <1>3, <1>4, <1>5, <1>6, SMT
  <2> QED
    BY <1>1, <1>2, <1>7, <1>8, <2>1, SMT
<1> QED
  BY <1>2, <1>3, <1>10, <1>11, <1>12, <1>13, <1>14, <1>15, <1>16, SMT

\* u consists of s, which has n elements, and t, which has m.
Consists(u, s, n, t, m) ==
  /\ u \in Seq(Int) /\ Len(u) = n + m
  /\ \A i \in 1 .. n : u[i] = s[i]
  /\ \A i \in 1 .. m : u[i + n] = t[i]

LEMMA JoinedAt ==
  ASSUME NEW s \in Seq(Int), NEW t \in Seq(Int)
  PROVE  Consists(Cat(s, t), s, Len(s), t, Len(t))
<1>1. PICK u, n, m : u = s \o t /\ n = Len(s) /\ m = Len(t)
  OBVIOUS
<1>2. /\ u \in Seq(Int) /\ Len(u) = n + m /\ n \in Nat /\ m \in Nat
      /\ \A i \in 1 .. n : u[i] = s[i]
      /\ \A i \in n + 1 .. n + m : u[i] = t[i - n]
  BY <1>1, Joined
<1>3. ASSUME NEW i \in 1 .. m PROVE u[i + n] = t[i]
  <2>1. i + n \in n + 1 .. n + m /\ (i + n) - n = i
    BY <1>2
  <2> QED
    BY ONLY <1>2, <2>1
<1>4. Consists(u, s, n, t, m)
  BY ONLY <1>2, <1>3 DEF Consists
<1> QED
  BY ONLY <1>1, <1>4 DEF Cat

\* s is what precedes the data, with D, O and B the encodings of devno, offset and
\* length.
Laid(s, D, O, B) ==
  /\ s \in Seq(Int) /\ Len(s) = Len(D) + Len(O) + Len(B) + 4
  /\ s[1] = Fixmap3 /\ s[2] = 0
  /\ \A i \in 1 .. Len(D) : s[i + 2] = D[i]
  /\ s[Len(D) + 3] = 1
  /\ \A i \in 1 .. Len(O) : s[i + Len(D) + 3] = O[i]
  /\ s[Len(D) + Len(O) + 4] = 2
  /\ \A i \in 1 .. Len(B) : s[i + Len(D) + Len(O) + 4] = B[i]

LEMMA HeadIs ==
  ASSUME NEW D \in Seq(Int), NEW O \in Seq(Int), NEW B \in Seq(Int)
  PROVE  \E s : s = <<Fixmap3, 0>> \o D \o <<1>> \o O \o <<2>> \o B /\ Laid(s, D, O, B)
<1>0. PICK s : s = <<Fixmap3, 0>> \o D \o <<1>> \o O \o <<2>> \o B
  OBVIOUS
<1>1. PICK d, o, b \in Nat : d = Len(D) /\ o = Len(O) /\ b = Len(B)
  OBVIOUS
<1>2. PICK h, x, y : h = <<Fixmap3, 0>> /\ x = <<1>> /\ y = <<2>>
  OBVIOUS
<1>3. /\ h \in Seq(Int) /\ Len(h) = 2 /\ h[1] = Fixmap3 /\ h[2] = 0
      /\ x \in Seq(Int) /\ Len(x) = 1 /\ x[1] = 1
      /\ y \in Seq(Int) /\ Len(y) = 1 /\ y[1] = 2
  BY ONLY <1>2 DEF Fixmap3
<1>4. PICK t1, t2, t3, t4 :
        /\ t1 = Cat(h, D) /\ t2 = Cat(t1, x) /\ t3 = Cat(t2, O)
        /\ t4 = Cat(t3, y) /\ s = Cat(t4, B)
  BY <1>0, <1>2 DEF Cat
<1>5. /\ t1 \in Seq(Int) /\ Len(t1) = 2 + d
      /\ \A i \in 1 .. 2 : t1[i] = h[i]
      /\ \A i \in 1 .. d : t1[i + (2)] = D[i]
  <2>1. t1 = Cat(h, D) /\ h \in Seq(Int) /\ D \in Seq(Int) /\ Len(h) = 2 /\ Len(D) = d
    BY <1>1, <1>3, <1>4
  <2>2. Consists(t1, h, 2, D, d)
    BY ONLY <2>1, JoinedAt
  <2> QED BY ONLY <2>2 DEF Consists
<1>6. /\ t2 \in Seq(Int) /\ Len(t2) = (2 + d) + 1
      /\ \A i \in 1 .. (2 + d) : t2[i] = t1[i]
      /\ \A i \in 1 .. 1 : t2[i + (2 + d)] = x[i]
  <2>1. t2 = Cat(t1, x) /\ t1 \in Seq(Int) /\ x \in Seq(Int) /\ Len(t1) = (2 + d) /\ Len(x) = 1
    BY <1>3, <1>4, <1>5
  <2>2. Consists(t2, t1, (2 + d), x, 1)
    BY ONLY <2>1, JoinedAt
  <2> QED BY ONLY <2>2 DEF Consists
<1>7. /\ t3 \in Seq(Int) /\ Len(t3) = 3 + d + o
      /\ \A i \in 1 .. (3 + d) : t3[i] = t2[i]
      /\ \A i \in 1 .. o : t3[i + (3 + d)] = O[i]
  <2>1. t3 = Cat(t2, O) /\ t2 \in Seq(Int) /\ O \in Seq(Int) /\ Len(t2) = (3 + d) /\ Len(O) = o
    BY <1>1, <1>4, <1>6
  <2>2. Consists(t3, t2, (3 + d), O, o)
    BY ONLY <2>1, JoinedAt
  <2> QED BY ONLY <2>2 DEF Consists
<1>8. /\ t4 \in Seq(Int) /\ Len(t4) = (3 + d + o) + 1
      /\ \A i \in 1 .. (3 + d + o) : t4[i] = t3[i]
      /\ \A i \in 1 .. 1 : t4[i + (3 + d + o)] = y[i]
  <2>1. t4 = Cat(t3, y) /\ t3 \in Seq(Int) /\ y \in Seq(Int) /\ Len(t3) = (3 + d + o) /\ Len(y) = 1
    BY <1>3, <1>4, <1>7
  <2>2. Consists(t4, t3, (3 + d + o), y, 1)
    BY ONLY <2>1, JoinedAt
  <2> QED BY ONLY <2>2 DEF Consists
<1>9. /\ s \in Seq(Int) /\ Len(s) = (4 + d + o) + b
      /\ \A i \in 1 .. (4 + d + o) : s[i] = t4[i]
      /\ \A i \in 1 .. b : s[i + (4 + d + o)] = B[i]
  <2>0. (3 + d + o) + 1 = 4 + d + o
    BY ONLY d \in Nat, o \in Nat
  <2>1. s = Cat(t4, B) /\ t4 \in Seq(Int) /\ B \in Seq(Int) /\ Len(t4) = (4 + d + o) /\ Len(B) = b
    BY <1>1, <1>4, <1>8, <2>0
  <2>2. Consists(s, t4, (4 + d + o), B, b)
    BY ONLY <2>1, JoinedAt
  <2> QED BY ONLY <2>2 DEF Consists
<1>10. \A i \in 1 .. 2 + d : s[i] = t1[i]
  <2> SUFFICES ASSUME NEW i \in 1 .. 2 + d PROVE s[i] = t1[i]
    OBVIOUS
  <2>1. i \in 1 .. 3 + d /\ i \in 1 .. 3 + d + o /\ i \in 1 .. 4 + d + o
    OBVIOUS
  <2> QED BY ONLY i \in 1 .. 2 + d, <1>6, <1>7, <1>8, <1>9, <2>1
<1>11. s[d + 3] = 1
  <2>1. d + 3 \in 1 .. 3 + d /\ d + 3 \in 1 .. 3 + d + o /\ d + 3 \in 1 .. 4 + d + o
        /\ 1 + (2 + d) = d + 3
    OBVIOUS
  <2>2. s[d + 3] = t2[d + 3]
    BY ONLY <1>7, <1>8, <1>9, <2>1
  <2> QED BY ONLY <1>3, <1>6, <2>1, <2>2
<1>12. \A i \in 1 .. o : s[i + d + 3] = O[i]
  <2> SUFFICES ASSUME NEW i \in 1 .. o PROVE s[i + d + 3] = O[i]
    OBVIOUS
  <2>1. i + d + 3 \in 1 .. 3 + d + o /\ i + d + 3 \in 1 .. 4 + d + o
        /\ i + (3 + d) = i + d + 3
    OBVIOUS
  <2>2. s[i + d + 3] = t3[i + d + 3]
    BY ONLY <1>8, <1>9, <2>1
  <2> QED BY ONLY i \in 1 .. o, <1>7, <2>1, <2>2
<1>13. \A i \in 1 .. d : s[i + 2] = D[i]
  <2> SUFFICES ASSUME NEW i \in 1 .. d PROVE s[i + 2] = D[i]
    OBVIOUS
  <2>1. i + 2 \in 1 .. 2 + d
    OBVIOUS
  <2> QED BY ONLY i \in 1 .. d, <1>5, <1>10, <2>1
<1>14. s[d + o + 4] = 2
  <2>1. d + o + 4 \in 1 .. 4 + d + o /\ 1 + (3 + d + o) = d + o + 4
    OBVIOUS
  <2> QED BY ONLY <1>3, <1>8, <1>9, <2>1
<1>15. \A i \in 1 .. b : s[i + d + o + 4] = B[i]
  <2> SUFFICES ASSUME NEW i \in 1 .. b PROVE s[i + d + o + 4] = B[i]
    OBVIOUS
  <2>1. i + (4 + d + o) = i + d + o + 4
    OBVIOUS
  <2> QED BY ONLY i \in 1 .. b, <1>9, <2>1
<1>16. s[1] = Fixmap3 /\ s[2] = 0
  BY ONLY <1>1, <1>3, <1>5, <1>10
<1>17. Len(s) = d + o + b + 4 /\ s \in Seq(Int)
  BY ONLY <1>1, <1>9
<1>18. Laid(s, D, O, B)
  BY ONLY <1>1, <1>11, <1>12, <1>13, <1>14, <1>15, <1>16, <1>17 DEF Laid
<1> QED
  BY ONLY <1>0, <1>18

LEMMA ReadsFixint ==
  ASSUME NEW s \in Seq(Int), NEW p \in 1 .. Len(s), s[p] <= 127 \/ s[p] >= 224
  PROVE  msgpack_read_int(s, p) = [size |-> 1, bytes |-> <<s[p]>>]
  BY DEF msgpack_read_int

\* A tag is followed by w bytes.
Width(tag, w) ==
  \/ tag = Int8 /\ w = 1
  \/ tag = Int16 /\ w = 2
  \/ tag = Int32 /\ w = 4
  \/ tag = Int64 /\ w = 8

\* msgpack_read_int finds w bytes behind the tag at p.
Takes(s, p, w) ==
  \E t : /\ msgpack_read_int(s, p) = [size |-> 1 + w, bytes |-> t]
         /\ t \in Seq(Int) /\ Len(t) = w /\ \A i \in 1 .. w : t[i] = s[p + i]

LEMMA ReadsTagged ==
  ASSUME NEW s \in Seq(Int), NEW p \in 1 .. Len(s), NEW w \in Nat, p + w <= Len(s),
         Width(s[p], w)
  PROVE  Takes(s, p, w)
<1>1. msgpack_read_int(s, p) = [size |-> 1 + w, bytes |-> SubSeq(s, p + 1, p + w)]
  <2>1. CASE s[p] = Int8 /\ w = 1
    BY <2>1 DEF msgpack_read_int, Int8, Int16, Int32, Int64
  <2>2. CASE s[p] = Int16 /\ w = 2
    BY <2>2 DEF msgpack_read_int, Int8, Int16, Int32, Int64
  <2>3. CASE s[p] = Int32 /\ w = 4
    BY <2>3 DEF msgpack_read_int, Int8, Int16, Int32, Int64
  <2>4. CASE s[p] = Int64 /\ w = 8
    BY <2>4 DEF msgpack_read_int, Int8, Int16, Int32, Int64
  <2> QED BY <2>1, <2>2, <2>3, <2>4 DEF Width
<1>2. PICK t : t = SubSeq(s, p + 1, p + w)
  OBVIOUS
<1>3. Len(t) = w /\ \A i \in 1 .. w : t[i] = s[p + i]
  BY <1>2
<1>4. t \in Seq(Int)
  <2>1. PICK a, z \in Int : a = p + 1 /\ z = p + w
    OBVIOUS
  <2>2. \A i \in a .. z : s[i] \in Int
    BY <2>1
  <2>3. SubSeq(s, a, z) \in Seq(Int)
    BY ONLY a \in Int, z \in Int, <2>2, SubSeqProperties
  <2> QED BY ONLY <1>2, <2>1, <2>3
<1> QED
  BY <1>1, <1>2, <1>3, <1>4 DEF Takes

\* t follows the first n bytes of s.
Holds(s, n, t) ==
  /\ Len(t) + n <= Len(s)
  /\ \A i \in 1 .. Len(t) : s[i + n] = t[i]

\* devno is read as it was written.
LEMMA ReadsDevno ==
  ASSUME NEW v \in Int32s, NEW s \in Seq(Int), Holds(s, 2, msgpack_write_int32(v))
  PROVE  /\ msgpack_read_int(s, 3).size = Len(msgpack_write_int32(v))
         /\ ToInt32(msgpack_read_int(s, 3).bytes) = v
<1> PICK D : D = msgpack_write_int32(v)
  OBVIOUS
<1> Len(D) + 2 <= Len(s) /\ \A i \in 1 .. Len(D) : s[i + 2] = D[i]
  BY DEF Holds
<1> SUFFICES /\ msgpack_read_int(s, 3).size = Len(D)
             /\ ToInt32(msgpack_read_int(s, 3).bytes) = v
  OBVIOUS
<1>1. v \in Int
  BY SMT DEF Int32s
<1>2. PICK b0, b1, b2, b3 :
        b0 = Byte0(v) /\ b1 = Byte1(v) /\ b2 = Byte2(v) /\ b3 = Byte3(v)
  OBVIOUS
<1> b0 \in 0 .. 255 /\ b1 \in 0 .. 255 /\ b2 \in 0 .. 255 /\ b3 \in 0 .. 255
  BY ONLY v \in Int32s, <1>2, BytesOf, SMT
<1>3. CASE -32 <= v /\ v <= 127
  <2>1. D = <<b0>>
    BY <1>2, <1>3 DEF msgpack_write_int32
  <2>2. D \in Seq(Int) /\ Len(D) = 1 /\ s[3] = b0 /\ 3 \in 1 .. Len(s)
    BY <2>1
  <2>3. b0 <= 127 \/ b0 >= 224
    BY <1>1, <1>2, <1>3, BytesOf, SMT
  <2>4. msgpack_read_int(s, 3) = [size |-> 1, bytes |-> <<b0>>]
    BY <2>2, <2>3, ReadsFixint
  <2>5. v = Signed(b0)
    BY <1>1, <1>2, <1>3, BytesOf, SMT
  <2> QED BY ONLY <2>2, <2>4, <2>5, SMT DEF ToInt32
<1>4. CASE ~(-32 <= v /\ v <= 127) /\ -128 <= v /\ v <= 127
  <2>1. D = <<Int8, b0>>
    BY <1>2, <1>4 DEF msgpack_write_int32
  <2>2. D \in Seq(Int) /\ Len(D) = 2 /\ s[3] = Int8 /\ s[4] = b0 /\ 3 \in 1 .. Len(s) /\ 4 <= Len(s)
    BY <2>1 DEF Int8
  <2>3. Takes(s, 3, 1)
    <3>1. 3 + 1 <= Len(s) /\ 1 \in Nat /\ Width(s[3], 1)
      BY <2>2 DEF Width
    <3> QED BY ONLY s \in Seq(Int), <2>2, <3>1, ReadsTagged
  <2>4. PICK t : /\ msgpack_read_int(s, 3) = [size |-> 2, bytes |-> t]
                 /\ Len(t) = 1 /\ t[1] = b0
    BY ONLY <2>2, <2>3 DEF Takes
  <2>5. v = Signed(b0)
    BY <1>1, <1>2, <1>4, BytesOf, SMT
  <2> QED BY ONLY <2>2, <2>4, <2>5, SMT DEF ToInt32
<1>5. CASE ~(-128 <= v /\ v <= 127) /\ -32768 <= v /\ v <= 32767
  <2>0. ~(-32 <= v /\ v <= 127)
    BY <1>1, <1>5
  <2>1. D = <<Int16, b1, b0>>
    BY <1>2, <1>5, <2>0 DEF msgpack_write_int32
  <2>2. /\ D \in Seq(Int) /\ Len(D) = 3 /\ s[3] = Int16 /\ s[4] = b1 /\ s[5] = b0
        /\ 3 \in 1 .. Len(s) /\ 5 <= Len(s)
    BY <2>1 DEF Int16
  <2>3. Takes(s, 3, 2)
    <3>1. 3 + 2 <= Len(s) /\ 2 \in Nat /\ Width(s[3], 2)
      BY <2>2 DEF Width
    <3> QED BY ONLY s \in Seq(Int), <2>2, <3>1, ReadsTagged
  <2>4. PICK t : /\ msgpack_read_int(s, 3) = [size |-> 3, bytes |-> t]
                 /\ Len(t) = 2 /\ t[1] = b1 /\ t[2] = b0
    BY ONLY <2>2, <2>3 DEF Takes
  <2>5. v = 256 * Signed(b1) + b0
    BY <1>1, <1>2, <1>5, BytesOf, SMT
  <2> QED BY ONLY <2>2, <2>4, <2>5, SMT DEF ToInt32
<1>6. CASE ~(-32768 <= v /\ v <= 32767)
  <2>0. ~(-32 <= v /\ v <= 127) /\ ~(-128 <= v /\ v <= 127)
    BY <1>1, <1>6
  <2>1. D = <<Int32, b3, b2, b1, b0>>
    BY <1>2, <1>6, <2>0 DEF msgpack_write_int32
  <2>2. /\ D \in Seq(Int) /\ Len(D) = 5 /\ s[3] = Int32
        /\ s[4] = b3 /\ s[5] = b2 /\ s[6] = b1 /\ s[7] = b0
        /\ 3 \in 1 .. Len(s) /\ 7 <= Len(s)
    <3>1. /\ D \in Seq(Int) /\ Len(D) = 5
          /\ D[1] = Int32 /\ D[2] = b3 /\ D[3] = b2 /\ D[4] = b1 /\ D[5] = b0
      BY <2>1 DEF Int32
    <3>2. \A i \in 1 .. 5 : s[i + 2] = D[i]
      BY <3>1
    <3>3. s[1 + 2] = D[1] /\ s[2 + 2] = D[2] /\ s[3 + 2] = D[3] /\ s[4 + 2] = D[4] /\ s[5 + 2] = D[5]
      BY ONLY <3>2
    <3>4. 7 <= Len(s)
      BY <3>1
    <3> QED BY ONLY s \in Seq(Int), <3>1, <3>3, <3>4
  <2>3. Takes(s, 3, 4)
    <3>1. 3 + 4 <= Len(s) /\ 4 \in Nat /\ Width(s[3], 4)
      BY <2>2 DEF Width
    <3> QED BY ONLY s \in Seq(Int), <2>2, <3>1, ReadsTagged
  <2>4. PICK t : /\ msgpack_read_int(s, 3) = [size |-> 5, bytes |-> t]
                 /\ Len(t) = 4 /\ t[1] = b3 /\ t[2] = b2 /\ t[3] = b1 /\ t[4] = b0
    <3>1. PICK t : /\ msgpack_read_int(s, 3) = [size |-> 1 + 4, bytes |-> t]
                   /\ Len(t) = 4 /\ \A i \in 1 .. 4 : t[i] = s[3 + i]
      BY ONLY <2>3 DEF Takes
    <3>2. t[1] = s[3 + 1] /\ t[2] = s[3 + 2] /\ t[3] = s[3 + 3] /\ t[4] = s[3 + 4]
      BY ONLY <3>1
    <3>3. t[1] = b3 /\ t[2] = b2 /\ t[3] = b1 /\ t[4] = b0
      BY ONLY <2>2, <3>2
    <3> QED BY ONLY <3>1, <3>3
  <2>5. v = 16777216 * Signed(b3) + 65536 * b2 + 256 * b1 + b0
    BY <1>1, <1>2, <1>6, BytesOf, SMT
  <2>6. ToInt32(t) = 16777216 * Signed(t[1]) + 65536 * t[2] + 256 * t[3] + t[4]
    BY ONLY <2>4, SMT DEF ToInt32
  <2>7. ToInt32(t) = v
    <3>1. t[1] = b3 /\ t[2] = b2 /\ t[3] = b1 /\ t[4] = b0
      BY ONLY <2>4
    <3> QED BY ONLY <2>5, <2>6, <3>1, SMT
  <2>8. msgpack_read_int(s, 3).size = 5 /\ msgpack_read_int(s, 3).bytes = t
    BY ONLY <2>4
  <2> QED BY ONLY <2>2, <2>7, <2>8, SMT
<1> QED
  BY <1>1, <1>3, <1>4, <1>5, <1>6


\* The length is read as it was written.
LEMMA ReadsLength ==
  ASSUME NEW n \in Nat \cap Int32s, NEW s \in Seq(Int), NEW q \in Nat,
         Holds(s, q, msgpack_write_bin(n))
  PROVE  ReadBin(s, q + 1) = [size |-> Len(msgpack_write_bin(n)), len |-> n]
<1> PICK B, p : B = msgpack_write_bin(n) /\ p = q + 1
  OBVIOUS
<1> Len(B) + q <= Len(s) /\ (\A i \in 1 .. Len(B) : s[i + q] = B[i]) /\ p \in Nat
  BY DEF Holds
<1> SUFFICES ReadBin(s, p) = [size |-> Len(B), len |-> n]
  OBVIOUS
<1>0. n \in Nat /\ n \in Int32s
  OBVIOUS
<1>1. PICK b0, b1, b2, b3 :
        b0 = Byte0(n) /\ b1 = Byte1(n) /\ b2 = Byte2(n) /\ b3 = Byte3(n)
  OBVIOUS
<1> b0 \in 0 .. 255 /\ b1 \in 0 .. 255 /\ b2 \in 0 .. 255 /\ b3 \in 0 .. 255
  BY ONLY <1>0, <1>1, BytesOf, SMT
<1>2. CASE n < 256
  <2>1. B = <<Bin8, b0>>
    BY <1>1, <1>2 DEF msgpack_write_bin
  <2>2. /\ B \in Seq(Int) /\ Len(B) = 2 /\ s[p] = Bin8 /\ s[p + 1] = b0 /\ p + 1 <= Len(s)
    <3>1. B \in Seq(Int) /\ Len(B) = 2 /\ B[1] = Bin8 /\ B[2] = b0
      BY <2>1 DEF Bin8
    <3>2. s[1 + q] = B[1] /\ s[2 + q] = B[2] /\ 2 + q <= Len(s)
      BY <3>1
    <3>3. 1 + q = p /\ 2 + q = p + 1
      OBVIOUS
    <3> QED BY ONLY <3>1, <3>2, <3>3
  <2>3. n = b0
    BY <1>0, <1>1, <1>2, BytesOf, SMT
  <2>4. ReadBin(s, p) = [size |-> 2, len |-> b0]
    BY <2>2 DEF ReadBin, Bin8, Bin16, Bin32
  <2> QED BY ONLY <2>2, <2>3, <2>4
<1>3. CASE ~(n < 256) /\ n < 65536
  <2>1. B = <<Bin16, b1, b0>>
    BY <1>1, <1>3 DEF msgpack_write_bin
  <2>2. /\ B \in Seq(Int) /\ Len(B) = 3 /\ s[p] = Bin16 /\ s[p + 1] = b1 /\ s[p + 2] = b0
        /\ p + 2 <= Len(s)
    <3>1. B \in Seq(Int) /\ Len(B) = 3 /\ B[1] = Bin16 /\ B[2] = b1 /\ B[3] = b0
      BY <2>1 DEF Bin16
    <3>2. s[1 + q] = B[1] /\ s[2 + q] = B[2] /\ s[3 + q] = B[3] /\ 3 + q <= Len(s)
      BY <3>1
    <3>3. 1 + q = p /\ 2 + q = p + 1 /\ 3 + q = p + 2
      OBVIOUS
    <3> QED BY ONLY <3>1, <3>2, <3>3
  <2>3. n = 256 * b1 + b0
    BY <1>0, <1>1, <1>3, BytesOf, SMT
  <2>4. ReadBin(s, p) = [size |-> 3, len |-> 256 * b1 + b0]
    BY <2>2 DEF ReadBin, Bin8, Bin16, Bin32
  <2> QED BY ONLY <2>2, <2>3, <2>4
<1>4. CASE ~(n < 65536)
  <2>0. ~(n < 256)
    BY <1>4
  <2>1. B = <<Bin32, b3, b2, b1, b0>>
    BY <1>1, <1>4, <2>0 DEF msgpack_write_bin
  <2>2. /\ B \in Seq(Int) /\ Len(B) = 5 /\ s[p] = Bin32 /\ p + 4 <= Len(s)
        /\ s[p + 1] = b3 /\ s[p + 2] = b2 /\ s[p + 3] = b1 /\ s[p + 4] = b0
    <3>1. /\ B \in Seq(Int) /\ Len(B) = 5
          /\ B[1] = Bin32 /\ B[2] = b3 /\ B[3] = b2 /\ B[4] = b1 /\ B[5] = b0
      BY <2>1 DEF Bin32
    <3>2. /\ s[1 + q] = B[1] /\ s[2 + q] = B[2] /\ s[3 + q] = B[3]
          /\ s[4 + q] = B[4] /\ s[5 + q] = B[5] /\ 5 + q <= Len(s)
      BY <3>1
    <3>3. /\ 1 + q = p /\ 2 + q = p + 1 /\ 3 + q = p + 2
          /\ 4 + q = p + 3 /\ 5 + q = p + 4
      OBVIOUS
    <3> QED BY ONLY <3>1, <3>2, <3>3
  <2>3. n = 16777216 * b3 + 65536 * b2 + 256 * b1 + b0
    BY <1>0, <1>1, BytesOf, SMT
  <2>4. ReadBin(s, p) = [size |-> 5, len |-> 16777216 * b3 + 65536 * b2 + 256 * b1 + b0]
    BY <2>2, SMT DEF ReadBin, Bin8, Bin16, Bin32
  <2> QED BY ONLY <2>2, <2>3, <2>4, SMT
<1> QED
  BY <1>2, <1>3, <1>4

LEMMA EncodedLengths ==
  /\ \A v \in Int32s : msgpack_write_int32(v) \in Seq(Int) /\ Len(msgpack_write_int32(v)) \in Nat \ {0}
  /\ \A n \in Nat \cap Int32s : msgpack_write_bin(n) \in Seq(Int) /\ Len(msgpack_write_bin(n)) \in Nat \ {0}
<1>1. ASSUME NEW v \in Int32s
      PROVE  /\ msgpack_write_int32(v) \in Seq(Int) /\ Len(msgpack_write_int32(v)) \in Nat \ {0}
             /\ msgpack_write_bin(v) \in Seq(Int) /\ Len(msgpack_write_bin(v)) \in Nat \ {0}
  <2>1. PICK b0, b1, b2, b3 :
          b0 = Byte0(v) /\ b1 = Byte1(v) /\ b2 = Byte2(v) /\ b3 = Byte3(v)
    OBVIOUS
  <2>2. b0 \in Int /\ b1 \in Int /\ b2 \in Int /\ b3 \in Int
    BY ONLY v \in Int32s, <2>1, BytesOf, SMT
  <2> QED BY ONLY <2>1, <2>2, SMT
     DEF msgpack_write_int32, msgpack_write_bin, Int8, Int16, Int32, Bin8, Bin16, Bin32
<1> QED BY <1>1, Zenon

LEMMA EightBytes ==
  ASSUME NEW f, f \in [1 .. 8 -> Int]
  PROVE  f \in Seq(Int) /\ Len(f) = 8
<1>1. f \in UNION {[1 .. n -> Int] : n \in Nat}
  <2>1. 8 \in Nat
    OBVIOUS
  <2> QED BY <2>1, Zenon
<1>2. f \in Seq(Int)
  BY <1>1, SeqDef
<1>3. DOMAIN f = 1 .. 8
  OBVIOUS
<1>4. DOMAIN f = 1 .. Len(f) /\ Len(f) \in Nat
  BY ONLY <1>2, LenProperties
<1>5. PICK n \in Nat : n = Len(f)
  BY ONLY <1>4
<1>6. \A i \in Int : i \in 1 .. n <=> i \in 1 .. 8
  BY ONLY <1>3, <1>4, <1>5
<1>7. n = 8
  <2>1. 8 \in 1 .. n
    BY ONLY <1>6
  <2>2. n \in 1 .. 8
    BY ONLY n \in Nat, <1>6, <2>1
  <2> QED BY ONLY n \in Nat, <2>1, <2>2
<1> QED BY ONLY <1>2, <1>5, <1>7

\* protocol_decode hands to block_writer_write what wire_send was given: for every
\* int32_t, every int64_t and every length, whichever encodings they take.
LEMMA DecodesWhatWasEncoded ==
  ASSUME NEW b, b = [devno |-> b.devno, offset |-> b.offset, len |-> b.len],
         b.devno \in Int32s, b.offset \in Bytes8, b.len \in Nat \cap Int32s
  PROVE  msgpack_decode_block(msgpack_encode_block(b)) = b
<1>1. PICK D, O, B : /\ D = msgpack_write_int32(b.devno) /\ O = msgpack_write_int64(b.offset)
                     /\ B = msgpack_write_bin(b.len)
  OBVIOUS
<1>2. D \in Seq(Int) /\ Len(D) \in Nat \ {0}
  BY <1>1, EncodedLengths
<1>3. B \in Seq(Int) /\ Len(B) \in Nat \ {0}
  BY <1>1, EncodedLengths
<1>4. /\ O \in Seq(Int) /\ Len(O) = 9 /\ O[1] = Int64
      /\ \A i \in 1 .. 8 : O[i + 1] = b.offset[i]
  <2>1. PICK f : f = b.offset
    OBVIOUS
  <2>2. f \in [1 .. 8 -> Int] /\ Len(f) = 8 /\ f \in Seq(Int)
    <3>1. f \in [1 .. 8 -> Int]
      BY <2>1 DEF Bytes8
    <3> QED BY ONLY <3>1, EightBytes
  <2>3. PICK x : x = <<Int64>>
    OBVIOUS
  <2>4. x \in Seq(Int) /\ Len(x) = 1 /\ x[1] = Int64
    BY ONLY <2>3 DEF Int64
  <2>5. O = Cat(x, f)
    BY ONLY <1>1, <2>1, <2>3 DEF msgpack_write_int64, Cat
  <2>6. Consists(O, x, 1, f, 8)
    BY ONLY <2>2, <2>4, <2>5, JoinedAt
  <2>7. O[1] = x[1] /\ \A i \in 1 .. 8 : O[i + 1] = f[i]
    BY ONLY <2>6 DEF Consists
  <2>8. O \in Seq(Int) /\ Len(O) = 9
    BY ONLY <2>6 DEF Consists
  <2> QED BY ONLY <2>1, <2>4, <2>7, <2>8
<1>5. PICK s : s = <<Fixmap3, 0>> \o D \o <<1>> \o O \o <<2>> \o B /\ Laid(s, D, O, B)
  BY <1>2, <1>3, <1>4, HeadIs
<1>6. msgpack_encode_block(b) = [head |-> s, data |-> b.len]
  BY <1>1, <1>5 DEF msgpack_encode_block
<1>7. PICK d, m \in Nat \ {0} : d = Len(D) /\ m = Len(B)
  BY <1>2, <1>3
<1>8. /\ s \in Seq(Int) /\ Len(s) = d + 9 + m + 4
      /\ s[1] = Fixmap3 /\ s[2] = 0
      /\ \A i \in 1 .. d : s[i + 2] = D[i]
      /\ s[d + 3] = 1
      /\ \A i \in 1 .. 9 : s[i + d + 3] = O[i]
      /\ s[d + 9 + 4] = 2
      /\ \A i \in 1 .. m : s[i + d + 9 + 4] = B[i]
  BY ONLY <1>4, <1>5, <1>7, Zenon DEF Laid
<1>70. d \in Nat /\ m \in Nat /\ 1 <= d /\ 1 <= m /\ Len(s) = d + 9 + m + 4
  BY ONLY d \in Nat \ {0}, m \in Nat \ {0}, <1>8
<1>9. Holds(s, 2, D) /\ Holds(s, d + 3, O) /\ Holds(s, d + 13, B)
  <2>1. /\ d + 2 <= Len(s) /\ 9 + (d + 3) <= Len(s) /\ m + (d + 13) <= Len(s)
    BY ONLY <1>70
  <2>2. ASSUME NEW i \in 1 .. 9 PROVE s[i + (d + 3)] = O[i]
    <3>1. i + (d + 3) = i + d + 3
      BY <1>7
    <3> QED BY ONLY i \in 1 .. 9, <1>8, <3>1
  <2>3. ASSUME NEW i \in 1 .. m PROVE s[i + (d + 13)] = B[i]
    <3>1. i + (d + 13) = i + d + 9 + 4
      BY <1>7
    <3> QED BY ONLY i \in 1 .. m, <1>8, <3>1
  <2> QED BY ONLY <1>4, <1>7, <1>8, <2>1, <2>2, <2>3 DEF Holds
<1>10. PICK dev : dev = msgpack_read_int(s, 3)
  OBVIOUS
<1>11. dev.size = d /\ ToInt32(dev.bytes) = b.devno
  BY ONLY <1>1, <1>7, <1>8, <1>9, <1>10, b.devno \in Int32s, ReadsDevno
<1>12. PICK off : msgpack_read_int(s, d + 4) = [size |-> 9, bytes |-> off] /\ off = b.offset
  <2>1. Takes(s, d + 4, 8)
    <3>1. d + 4 \in 1 .. Len(s) /\ 8 \in Nat /\ (d + 4) + 8 <= Len(s)
      BY ONLY <1>70
    <3>2. s[d + 4] = Int64
      <4>1. s[1 + d + 3] = O[1] /\ 1 + d + 3 = d + 4
        BY ONLY <1>7, <1>8
      <4> QED BY ONLY <1>4, <4>1
    <3>3. Width(s[d + 4], 8)
      BY <3>2 DEF Width
    <3> QED BY ONLY <1>8, <3>1, <3>3, ReadsTagged
  <2>2. PICK t : /\ msgpack_read_int(s, d + 4) = [size |-> 1 + 8, bytes |-> t]
                 /\ t \in Seq(Int) /\ Len(t) = 8 /\ \A i \in 1 .. 8 : t[i] = s[(d + 4) + i]
    BY ONLY <2>1 DEF Takes
  <2>3. ASSUME NEW i \in 1 .. 8 PROVE t[i] = b.offset[i]
    <3>1. (d + 4) + i = (i + 1) + d + 3 /\ i + 1 \in 1 .. 9
      BY ONLY <1>7, i \in 1 .. 8
    <3>2. t[i] = s[(d + 4) + i]
      BY ONLY i \in 1 .. 8, <2>2
    <3>3. s[(i + 1) + d + 3] = O[i + 1]
      BY ONLY <1>8, <3>1
    <3>4. O[i + 1] = b.offset[i]
      BY ONLY <1>4, i \in 1 .. 8
    <3> QED BY ONLY <3>1, <3>2, <3>3, <3>4
  <2>4. t = b.offset
    <3>1. PICK f : f = b.offset
      OBVIOUS
    <3>2. f \in [1 .. 8 -> 0 .. 255] /\ \A i \in 1 .. 8 : t[i] = f[i]
      BY <2>3, <3>1 DEF Bytes8
    <3>3. f = [i \in 1 .. 8 |-> f[i]]
      BY ONLY <3>2
    <3>4. t = [i \in 1 .. 8 |-> t[i]]
      BY ONLY <2>2
    <3> QED BY ONLY <3>1, <3>2, <3>3, <3>4
  <2>5. 1 + 8 = 9
    OBVIOUS
  <2> QED BY ONLY <2>2, <2>4, <2>5, Zenon
<1>13. PICK bin : bin = ReadBin(s, d + 14)
  OBVIOUS
<1>14. bin = [size |-> m, len |-> b.len]
  <2>1. PICK q \in Nat : q = d + 13 /\ q + 1 = d + 14
    BY ONLY d \in Nat \ {0}
  <2>2. PICK n \in Nat \cap Int32s : n = b.len
    OBVIOUS
  <2>3. s \in Seq(Int) /\ Holds(s, q, msgpack_write_bin(n))
    BY ONLY <1>1, <1>8, <1>9, <2>1, <2>2
  <2>4. ReadBin(s, q + 1) = [size |-> Len(msgpack_write_bin(n)), len |-> n]
    BY ONLY <2>3, q \in Nat, n \in Nat \cap Int32s, ReadsLength
  <2> QED BY ONLY <1>1, <1>7, <1>13, <2>1, <2>2, <2>4
<1>15. PICK p, x, y, z : p = 5 + dev.size + 9 /\ x = 4 + dev.size /\ y = 3 + dev.size /\ z = 4 + dev.size + 9
  OBVIOUS
<1>16. p = d + 14 /\ x = d + 4 /\ y = d + 3 /\ z = d + 9 + 4
  BY ONLY <1>70, <1>11, <1>15
<1>17. /\ s[1] = Fixmap3 /\ s[2] = 0 /\ s[y] = 1 /\ s[z] = 2
  BY ONLY <1>8, <1>16
<1>18. PICK len : len = b.len /\ len \in Nat
  OBVIOUS
<1>19. dev.size > 0 /\ m > 0 /\ p - 1 + m + len <= Len(s) + len
  BY ONLY <1>11, <1>16, <1>18, <1>70
<1>20. msgpack_decode_block([head |-> s, data |-> len]) =
         [devno |-> ToInt32(dev.bytes), offset |-> off, len |-> len]
  <2>1. PICK M : M = [head |-> s, data |-> len]
    OBVIOUS
  <2>2. M.head = s /\ M.data = len
    BY ONLY <2>1
  <2>3. PICK o : o = msgpack_read_int(s, 4 + dev.size) /\ o.size = 9 /\ o.bytes = off
    BY ONLY <1>12, <1>15, <1>16
  <2>4. bin = ReadBin(s, 5 + dev.size + o.size) /\ bin.size = m /\ bin.len = len
    BY ONLY <1>13, <1>14, <1>15, <1>16, <1>18, <2>3
  <2>5. /\ s[1] = Fixmap3 /\ s[2] = 0
        /\ dev.size > 0 /\ s[3 + dev.size] = 1
        /\ o.size > 0 /\ s[4 + dev.size + o.size] = 2
        /\ bin.size > 0 /\ (5 + dev.size + o.size) - 1 + bin.size + bin.len <= Len(s) + M.data
    <3>1. o.size > 0
      BY ONLY <2>3
    <3>2. s[3 + dev.size] = 1 /\ s[4 + dev.size + o.size] = 2
      BY ONLY <1>15, <1>17, <2>3
    <3>3. bin.size > 0
      BY ONLY <1>19, <2>4
    <3>4. (5 + dev.size + o.size) - 1 + bin.size + bin.len <= Len(s) + M.data
      BY ONLY <1>15, <1>19, <2>2, <2>3, <2>4
    <3> QED BY ONLY <1>17, <1>19, <3>1, <3>2, <3>3, <3>4
  <2>6. msgpack_decode_block(M) = [devno |-> ToInt32(dev.bytes), offset |-> o.bytes, len |-> bin.len]
    BY ONLY <1>10, <2>2, <2>3, <2>4, <2>5 DEF msgpack_decode_block
  <2> QED BY ONLY <2>1, <2>3, <2>4, <2>6, Zenon
<1> QED
  BY ONLY <1>6, <1>11, <1>12, <1>18, <1>20,
          b = [devno |-> b.devno, offset |-> b.offset, len |-> b.len]

\* protocol_decode hands to block_writer_write, for every block a client may send,
\* the devno, the offset and the length that wire_send was given.
THEOREM DecodedBlocksAreSent == FrSpec => []DecodedIsSent
<1>1. \A b \in Payloads : Decoded[b] = b
  <2> SUFFICES ASSUME NEW b \in Payloads PROVE msgpack_decode_block(msgpack_encode_block(b)) = b
    BY DEF Decoded
  <2>1. /\ b = [devno |-> b.devno, offset |-> b.offset, len |-> b.len]
        /\ b.devno \in Int32s /\ b.offset \in Bytes8 /\ b.len \in Nat \cap Int32s
    BY PayloadsAssumption
  <2> QED BY ONLY <2>1, DecodesWhatWasEncoded
<1>2. DecodedIsSent
  BY <1>1 DEF DecodedIsSent
<1> QED BY <1>2, PTL
=============================================================================
