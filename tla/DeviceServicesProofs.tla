------------------------- MODULE DeviceServicesProofs -------------------------
(***************************************************************************)
(* The device's services, for every value of their constants: a request    *)
(* behind a key runs once, an install leaves evidence, the threads start   *)
(* together, a dump arrives whole, time is kept by the frame, the store    *)
(* forgets nothing it kept and keeps nothing it forgot, the log keeps its  *)
(* numbers and its last words, and the link accounts for each interval.    *)
(***************************************************************************)
EXTENDS Access, Releases, DeviceTasks, ResponseBody, CaptureClock, StateStore,
        DeviceLog, PcmLink, FiniteSetTheorems, WellFoundedInduction, TLAPS

-----------------------------------------------------------------------------
(* Who may do what: the digest authenticator answers each challenge once.  *)

\* Induction for a set: what the library states of an operator.
LEMMA LessOnNat == \A x, y \in Nat : <<x, y>> \in OpToRel(<, Nat) <=> x < y
BY DEF OpToRel

LEMMA SetInduction ==
  ASSUME NEW T, 0 \in T, \A n \in Nat : n \in T => n + 1 \in T
  PROVE  Nat \subseteq T
<1> SUFFICES ASSUME Nat \ T # {}
             PROVE  FALSE
  OBVIOUS
<1>1. IsWellFoundedOn(OpToRel(<, Nat), Nat)
  BY NatLessThanWellFounded
<1>2. PICK x \in Nat \ T : \A y \in Nat \ T : ~(<<y, x>> \in OpToRel(<, Nat))
  <2>1. Nat \ T \subseteq Nat /\ Nat \ T # {}
    OBVIOUS
  <2> QED BY <1>1, <2>1, WFMin
<1>3. \A y \in Nat \ T : ~(y < x)
  BY <1>2, LessOnNat
<1>4. x # 0 /\ x - 1 \in Nat /\ x - 1 < x
  OBVIOUS
<1>5. x - 1 \in T
  BY <1>3, <1>4
<1>6. (x - 1) + 1 \in T
  BY <1>4, <1>5
<1> QED BY <1>6

NonceRecords == [value : Nat, at : Nat, last : Nat]

\* One more nonce looked at.
Retaining(live, n) == IF Unseen(nonces[n]) THEN Append(live, nonces[n]) ELSE live

\* The table's definition by recursion has a solution, which is the one meant.
LEMMA LiveDefined ==
  ASSUME nonces \in Seq(NonceRecords)
  PROVE  /\ Live[0] = <<>>
         /\ \A n \in 1 .. Len(nonces) : Live[n] = Retaining(Live[n - 1], n)
<1> DEFINE Solves(F, n) == F = [i \in 0 .. n |-> IF i = 0 THEN <<>> ELSE Retaining(F[i - 1], i)]
           T == {n \in Nat : \E F : Solves(F, n)}
<1>1. 0 \in T
  <2> DEFINE F == [i \in 0 .. 0 |-> <<>>]
  <2>1. F = [i \in 0 .. 0 |-> IF i = 0 THEN <<>> ELSE Retaining(F[i - 1], i)]
    OBVIOUS
  <2>2. Solves(F, 0)
    BY <2>1
  <2> QED
    BY <2>2
<1>2. ASSUME NEW n \in Nat, n \in T
      PROVE  n + 1 \in T
  <2>1. PICK F : F = [i \in 0 .. n |-> IF i = 0 THEN <<>> ELSE Retaining(F[i - 1], i)]
    BY <1>2
  <2> DEFINE G == [i \in 0 .. n + 1 |-> IF i = n + 1 THEN Retaining(F[n], n + 1) ELSE F[i]]
  <2>2. ASSUME NEW i \in 0 .. n + 1
        PROVE  G[i] = IF i = 0 THEN <<>> ELSE Retaining(G[i - 1], i)
    <3>1. CASE i = 0
      BY <2>1, <3>1
    <3>2. CASE i \in 1 .. n
      <4>1. i - 1 \in 0 .. n + 1 /\ i - 1 # n + 1 /\ i # n + 1 /\ i \in 0 .. n /\ i # 0
        BY <3>2
      <4>2. G[i - 1] = F[i - 1] /\ G[i] = F[i]
        BY <4>1
      <4>3. F[i] = Retaining(F[i - 1], i)
        BY <2>1, <4>1
      <4> QED
        BY <4>1, <4>2, <4>3
    <3>3. CASE i = n + 1
      <4>1. i - 1 = n /\ n # n + 1 /\ n \in 0 .. n + 1 /\ i # 0
        BY <3>3
      <4>2. G[i - 1] = F[n]
        BY <4>1
      <4> QED
        BY <3>3, <4>1, <4>2
    <3> QED
      BY <3>1, <3>2, <3>3
  <2>3. G = [i \in 0 .. n + 1 |-> IF i = 0 THEN <<>> ELSE Retaining(G[i - 1], i)]
    BY <2>2
  <2> HIDE DEF G
  <2>4. Solves(G, n + 1)
    BY <2>3
  <2>5. n + 1 \in Nat
    OBVIOUS
  <2> HIDE DEF Solves
  <2> QED
    BY <2>4, <2>5
<1>3. Len(nonces) \in T
  <2> HIDE DEF T
  <2> QED
    BY <1>1, <1>2, SetInduction
<1>4. Live = [i \in 0 .. Len(nonces) |-> IF i = 0 THEN <<>> ELSE Retaining(Live[i - 1], i)]
  BY <1>3 DEF Live, Retaining
<1>5. Len(nonces) \in Nat
  OBVIOUS
<1> HIDE DEF T, Solves
<1> QED
  BY <1>4, <1>5

-----------------------------------------------------------------------------
Increasing(table) == \A i, k \in 1 .. Len(table) : i < k => table[i].value < table[k].value

\* The table holds challenges of this boot, oldest first.
Table ==
  /\ nonces \in Seq(NonceRecords)
  /\ \A i \in 1 .. Len(nonces) :
       nonces[i].value \in boots + 1 .. Len(minted) /\ nonces[i].at = minted[nonces[i].value]
  /\ Increasing(nonces)

\* None of the last MaxNonces challenges is dropped within its lifetime.
Recent ==
  \A v \in boots + 1 .. Len(minted) :
    Len(minted) - v < MaxNonces /\ now - minted[v] < NonceTtl
      => \E i \in 1 .. Len(nonces) : nonces[i].value = v

\* A nonce in the table remembers the highest count that was used with it.
CountsKept ==
  \A i \in 1 .. Len(nonces) :
    /\ \A x \in spent : x.nonce = nonces[i].value => x.nc <= nonces[i].last
    /\ nonces[i].last = 0 \/ [nonce |-> nonces[i].value, nc |-> nonces[i].last] \in spent

AccessTypeOK ==
  /\ now \in Nat /\ minted \in Seq(Nat) /\ boots \in 0 .. Len(minted)
  /\ spent \subseteq [nonce : 1 .. Len(minted), nc : Nat]

AccessInv == AccessTypeOK /\ Table /\ Recent /\ CountsKept /\ ExchangeRunsOnce

Latest(n) == IF n = 0 THEN 0 ELSE nonces[n].value

KeptOf(live, n) ==
  /\ live \in Seq(NonceRecords)
  /\ \A i \in 1 .. Len(live) : \E j \in 1 .. n : live[i] = nonces[j]
  /\ \A j \in 1 .. n : Unseen(nonces[j]) => \E i \in 1 .. Len(live) : live[i] = nonces[j]
  /\ \A i \in 1 .. Len(live) : live[i].value + (Len(live) - i) <= Latest(n)
  /\ Increasing(live)

LEMMA Appended ==
  ASSUME NEW S, NEW s \in Seq(S), NEW e \in S
  PROVE  /\ Append(s, e) \in Seq(S) /\ Len(Append(s, e)) = Len(s) + 1 /\ Len(s) \in Nat
         /\ \A i \in 1 .. Len(s) : Append(s, e)[i] = s[i]
         /\ Append(s, e)[Len(s) + 1] = e
OBVIOUS

\* A nonce looked at is newer than all before it, and kept if it is good.
LEMMA RetainingKeeps ==
  ASSUME Table, boots \in Nat, NEW n \in 1 .. Len(nonces), NEW live, KeptOf(live, n - 1)
  PROVE  KeptOf(Retaining(live, n), n)
<1> DEFINE e == nonces[n]
           l == Retaining(live, n)
<1>0. \A i \in 1 .. Len(nonces) : nonces[i] \in NonceRecords /\ nonces[i].value > 0
  <2>1. nonces \in Seq(NonceRecords)
    BY DEF Table
  <2>2. \A i \in 1 .. Len(nonces) : nonces[i].value > 0
    BY DEF Table
  <2> QED
    BY <2>1, <2>2
<1>1. e \in NonceRecords /\ e.value \in Nat /\ n \in Nat /\ n - 1 \in Nat
  <2>1. e \in NonceRecords
    BY <1>0
  <2>2. \A x \in NonceRecords : x.value \in Nat
    BY DEF NonceRecords
  <2>3. n \in Nat /\ n - 1 \in Nat
    OBVIOUS
  <2> HIDE DEF e
  <2> QED
    BY <2>1, <2>2, <2>3
<1>2. Latest(n - 1) \in Nat /\ Latest(n - 1) < e.value /\ Latest(n) = e.value
  <2>1. CASE n = 1
    <3>1. e.value > 0
      BY <1>0
    <3>2. n - 1 = 0 /\ n # 0
      BY <2>1
    <3>3. Latest(n - 1) = 0 /\ Latest(n) = e.value
      BY <3>2 DEF Latest
    <3> HIDE DEF e
    <3> QED
      BY <1>1, <3>1, <3>3
  <2>2. CASE n # 1
    <3>1. n - 1 \in 1 .. Len(nonces) /\ n - 1 < n /\ n - 1 # 0 /\ n # 0
      BY <1>1, <2>2
    <3>2. nonces[n - 1].value < nonces[n].value
      <4>1. Increasing(nonces)
        BY DEF Table
      <4> QED
        BY <3>1, <4>1 DEF Increasing
    <3>3. nonces[n - 1] \in NonceRecords
      BY <1>0, <3>1
    <3>4. nonces[n - 1].value \in Nat
      BY <3>3 DEF NonceRecords
    <3> QED
      BY <3>1, <3>2, <3>4 DEF Latest
  <2> QED
    BY <2>1, <2>2
<1>3. /\ live \in Seq(NonceRecords) /\ Len(live) \in Nat
      /\ \A i \in 1 .. Len(live) : live[i] \in NonceRecords /\ live[i].value \in Nat
      /\ \A i \in 1 .. Len(live) : live[i].value + (Len(live) - i) <= Latest(n - 1)
      /\ Increasing(live)
      /\ \A i \in 1 .. Len(live) : \E j \in 1 .. n - 1 : live[i] = nonces[j]
      /\ \A j \in 1 .. n - 1 : Unseen(nonces[j]) => \E i \in 1 .. Len(live) : live[i] = nonces[j]
  <2>1. /\ live \in Seq(NonceRecords)
        /\ \A i \in 1 .. Len(live) : live[i].value + (Len(live) - i) <= Latest(n - 1)
        /\ Increasing(live)
        /\ \A i \in 1 .. Len(live) : \E j \in 1 .. n - 1 : live[i] = nonces[j]
        /\ \A j \in 1 .. n - 1 : Unseen(nonces[j]) => \E i \in 1 .. Len(live) : live[i] = nonces[j]
    BY DEF KeptOf
  <2>2. Len(live) \in Nat /\ \A i \in 1 .. Len(live) : live[i] \in NonceRecords
    BY <2>1
  <2>3. \A x \in NonceRecords : x.value \in Nat
    BY DEF NonceRecords
  <2> QED
    BY <2>1, <2>2, <2>3
<1>4. CASE Unseen(e)
  <2>1. l = Append(live, e)
    BY <1>4 DEF Retaining
  <2>2. /\ l \in Seq(NonceRecords) /\ Len(l) = Len(live) + 1
        /\ \A i \in 1 .. Len(live) : l[i] = live[i]
        /\ l[Len(live) + 1] = e
    BY <1>1, <1>3, <2>1, Appended
  <2>a. e = nonces[n]
    OBVIOUS
  <2> HIDE DEF l, e
  <2>3. \A i \in 1 .. Len(l) : \E j \in 1 .. n : l[i] = nonces[j]
    <3> SUFFICES ASSUME NEW i \in 1 .. Len(l)
                 PROVE  \E j \in 1 .. n : l[i] = nonces[j]
      OBVIOUS
    <3>1. CASE i \in 1 .. Len(live)
      <4>1. PICK j \in 1 .. n - 1 : live[i] = nonces[j]
        BY <1>3, <3>1
      <4> QED
        BY <1>1, <2>2, <3>1, <4>1
    <3>2. CASE i = Len(live) + 1
      <4>1. n \in 1 .. n
        BY <1>1
      <4> QED
        BY <2>2, <2>a, <3>2, <4>1
    <3> QED
      BY <1>3, <2>2, <3>1, <3>2
  <2>4. \A j \in 1 .. n : Unseen(nonces[j]) => \E i \in 1 .. Len(l) : l[i] = nonces[j]
    <3> SUFFICES ASSUME NEW j \in 1 .. n, Unseen(nonces[j])
                 PROVE  \E i \in 1 .. Len(l) : l[i] = nonces[j]
      OBVIOUS
    <3>1. CASE j \in 1 .. n - 1
      <4>1. PICK i \in 1 .. Len(live) : live[i] = nonces[j]
        BY <1>3, <3>1
      <4>2. i \in 1 .. Len(l) /\ l[i] = nonces[j]
        BY <1>3, <2>2, <4>1
      <4> QED
        BY <4>2
    <3>2. CASE j = n
      <4>1. Len(live) + 1 \in 1 .. Len(l)
        BY <1>3, <2>2
      <4> QED
        BY <2>2, <2>a, <3>2, <4>1
    <3> QED
      BY <1>1, <3>1, <3>2
  <2>5. \A i \in 1 .. Len(l) : l[i].value + (Len(l) - i) <= Latest(n)
    <3> SUFFICES ASSUME NEW i \in 1 .. Len(l)
                 PROVE  l[i].value + (Len(l) - i) <= Latest(n)
      OBVIOUS
    <3>1. CASE i \in 1 .. Len(live)
      <4>1. l[i].value = live[i].value /\ live[i].value \in Nat
            /\ live[i].value + (Len(live) - i) <= Latest(n - 1)
        BY <1>3, <2>2, <3>1
      <4> QED
        BY <1>1, <1>2, <1>3, <2>2, <3>1, <4>1, SMTT(30)
    <3>2. CASE i = Len(live) + 1
      <4>1. l[i].value = e.value
        BY <2>2, <3>2
      <4> QED
        BY <1>1, <1>2, <1>3, <2>2, <3>2, <4>1
    <3> QED
      BY <1>3, <2>2, <3>1, <3>2
  <2>6. Increasing(l)
    <3> SUFFICES ASSUME NEW i \in 1 .. Len(l), NEW k \in 1 .. Len(l), i < k
                 PROVE  l[i].value < l[k].value
      BY DEF Increasing
    <3>1. i \in 1 .. Len(live) /\ l[i] = live[i]
      BY <1>3, <2>2
    <3>2. CASE k \in 1 .. Len(live)
      <4>1. l[k] = live[k] /\ live[i].value < live[k].value
        BY <1>3, <2>2, <3>1, <3>2 DEF Increasing
      <4> QED
        BY <3>1, <4>1
    <3>3. CASE k = Len(live) + 1
      <4>1. live[i].value + (Len(live) - i) <= Latest(n - 1) /\ live[i].value \in Nat
        BY <1>3, <3>1
      <4>2. live[i].value < e.value
        <5>1. Len(live) \in Nat
          BY <1>3
        <5>2. Len(live) - i \in Nat
          BY <3>1, <5>1
        <5> QED
          BY <1>1, <1>2, <4>1, <5>2
      <4>3. l[k].value = e.value
        BY <2>2, <3>3
      <4> QED
        BY <3>1, <4>2, <4>3
    <3> QED
      BY <1>3, <2>2, <3>2, <3>3
  <2>7. KeptOf(l, n)
    BY <2>2, <2>3, <2>4, <2>5, <2>6 DEF KeptOf
  <2> QED
    BY <2>7 DEF l
<1>5. CASE ~Unseen(e)
  <2>1. l = live
    BY <1>5 DEF Retaining
  <2> HIDE DEF l
  <2>2. \A i \in 1 .. Len(live) : \E j \in 1 .. n : live[i] = nonces[j]
    <3> SUFFICES ASSUME NEW i \in 1 .. Len(live)
                 PROVE  \E j \in 1 .. n : live[i] = nonces[j]
      OBVIOUS
    <3>1. PICK j \in 1 .. n - 1 : live[i] = nonces[j]
      BY <1>3
    <3>2. j \in 1 .. n
      BY <1>1
    <3> QED
      BY <3>1, <3>2
  <2>3. \A j \in 1 .. n : Unseen(nonces[j]) => \E i \in 1 .. Len(live) : live[i] = nonces[j]
    <3> SUFFICES ASSUME NEW j \in 1 .. n, Unseen(nonces[j])
                 PROVE  \E i \in 1 .. Len(live) : live[i] = nonces[j]
      OBVIOUS
    <3>1. j # n
      BY <1>5
    <3>2. j \in 1 .. n - 1
      BY <1>1, <3>1
    <3> QED
      BY <1>3, <3>2
  <2>4. \A i \in 1 .. Len(live) : live[i].value + (Len(live) - i) <= Latest(n)
    <3> SUFFICES ASSUME NEW i \in 1 .. Len(live)
                 PROVE  live[i].value + (Len(live) - i) <= Latest(n)
      OBVIOUS
    <3>1. live[i].value + (Len(live) - i) <= Latest(n - 1) /\ live[i].value \in Nat
      BY <1>3
    <3> QED
      BY <1>1, <1>2, <1>3, <3>1
  <2>5. KeptOf(live, n)
    BY <1>3, <2>2, <2>3, <2>4 DEF KeptOf
  <2> QED
    BY <2>1, <2>5 DEF l
<1> QED
  BY <1>4, <1>5

LEMMA LiveKept ==
  ASSUME Table, boots \in Nat
  PROVE  KeptOf(Live[Len(nonces)], Len(nonces))
<1> DEFINE T == {n \in Nat : n <= Len(nonces) => KeptOf(Live[n], n)}
<1>1. nonces \in Seq(NonceRecords) /\ Len(nonces) \in Nat
  BY DEF Table
<1>2. /\ Live[0] = <<>>
      /\ \A n \in 1 .. Len(nonces) : Live[n] = Retaining(Live[n - 1], n)
  BY <1>1, LiveDefined
<1>3. 0 \in T
  <2>1. KeptOf(<<>>, 0)
    BY DEF KeptOf, Increasing
  <2> QED
    BY <1>2, <2>1
<1>4. ASSUME NEW n \in Nat, n \in T
      PROVE  n + 1 \in T
  <2>1. SUFFICES ASSUME n + 1 <= Len(nonces)
                 PROVE  KeptOf(Live[n + 1], n + 1)
    OBVIOUS
  <2>2. KeptOf(Live[n], n)
    BY <1>1, <1>4, <2>1
  <2>3. n + 1 \in 1 .. Len(nonces) /\ (n + 1) - 1 = n
    BY <1>1, <2>1
  <2>4. Live[n + 1] = Retaining(Live[n], n + 1)
    BY <1>2, <2>3
  <2>5. KeptOf(Retaining(Live[n], n + 1), n + 1)
    BY <2>2, <2>3, RetainingKeeps
  <2> QED
    BY <2>4, <2>5
<1>5. Len(nonces) \in T
  <2> HIDE DEF T
  <2> QED
    BY <1>1, <1>3, <1>4, SetInduction
<1> QED
  BY <1>1, <1>5

LEMMA Shortened ==
  ASSUME NEW S, NEW s \in Seq(S), s # <<>>
  PROVE  /\ Tail(s) \in Seq(S) /\ Len(Tail(s)) = Len(s) - 1
         /\ \A i \in 1 .. Len(Tail(s)) : Tail(s)[i] = s[i + 1]
OBVIOUS

\* What a new challenge finds of the table.
KeptNonces ==
  LET live == Live[Len(nonces)]
  IN  IF Len(live) >= MaxNonces THEN Tail(live) ELSE live

IsKept(kept) ==
  /\ kept \in Seq(NonceRecords)
  /\ \A i \in 1 .. Len(kept) : \E j \in 1 .. Len(nonces) : kept[i] = nonces[j]
  /\ \A j \in 1 .. Len(nonces) :
       Unseen(nonces[j]) /\ Len(minted) - nonces[j].value < MaxNonces - 1
         => \E i \in 1 .. Len(kept) : kept[i] = nonces[j]
  /\ Increasing(kept)

LEMMA KeptForChallenge ==
  ASSUME Table, AccessTypeOK
  PROVE  IsKept(KeptNonces)
<1> SUFFICES ASSUME NEW kept, kept = KeptNonces
             PROVE  /\ kept \in Seq(NonceRecords)
                    /\ \A i \in 1 .. Len(kept) : \E j \in 1 .. Len(nonces) : kept[i] = nonces[j]
                    /\ \A j \in 1 .. Len(nonces) :
                         Unseen(nonces[j]) /\ Len(minted) - nonces[j].value < MaxNonces - 1
                           => \E i \in 1 .. Len(kept) : kept[i] = nonces[j]
                    /\ Increasing(kept)
  BY DEF IsKept
<1> DEFINE live == Live[Len(nonces)]
           N == Len(nonces)
<1>1. /\ live \in Seq(NonceRecords)
      /\ \A i \in 1 .. Len(live) : \E j \in 1 .. N : live[i] = nonces[j]
      /\ \A j \in 1 .. N : Unseen(nonces[j]) => \E i \in 1 .. Len(live) : live[i] = nonces[j]
      /\ \A i \in 1 .. Len(live) : live[i].value + (Len(live) - i) <= Latest(N)
      /\ Increasing(live)
  <2>1. boots \in Nat
    BY DEF AccessTypeOK
  <2>2. KeptOf(live, N)
    BY <2>1, LiveKept
  <2> QED
    BY <2>2 DEF KeptOf
<1>2. Len(live) \in Nat /\ N \in Nat /\ MaxNonces \in Nat \ {0} /\ Len(minted) \in Nat
  <2>1. nonces \in Seq(NonceRecords)
    BY DEF Table
  <2>2. minted \in Seq(Nat)
    BY DEF AccessTypeOK
  <2>3. MaxNonces \in Nat \ {0}
    BY AccessAssumption
  <2> QED
    BY <1>1, <2>1, <2>2, <2>3
<1>3. Latest(N) <= Len(minted) /\ Latest(N) \in Nat
  <2>1. CASE N = 0
    BY <1>2, <2>1 DEF Latest
  <2>2. CASE N # 0
    <3>1. N \in 1 .. N
      BY <1>2, <2>2
    <3>2. nonces[N].value \in boots + 1 .. Len(minted) /\ boots \in Nat
      BY <3>1 DEF Table, AccessTypeOK
    <3> HIDE DEF N
    <3> QED
      BY <1>2, <2>2, <3>2 DEF Latest
  <2> QED
    BY <2>1, <2>2
<1>4. kept = IF Len(live) >= MaxNonces THEN Tail(live) ELSE live
  BY DEF KeptNonces
<1>5. \A i \in 1 .. Len(live) : live[i].value \in Nat
  <2>1. \A i \in 1 .. Len(live) : live[i] \in NonceRecords
    BY <1>1
  <2>2. \A x \in NonceRecords : x.value \in Nat
    BY DEF NonceRecords
  <2> HIDE DEF live
  <2> QED
    BY <2>1, <2>2
<1> HIDE DEF live, N
<1>6. CASE Len(live) >= MaxNonces
  <2>1. kept = Tail(live) /\ live # <<>>
    BY <1>1, <1>2, <1>4, <1>6
  <2>2. /\ kept \in Seq(NonceRecords) /\ Len(kept) = Len(live) - 1
        /\ \A i \in 1 .. Len(kept) : kept[i] = live[i + 1]
    <3>1. live \in Seq(NonceRecords)
      BY <1>1
    <3>2. /\ Tail(live) \in Seq(NonceRecords) /\ Len(Tail(live)) = Len(live) - 1
          /\ \A i \in 1 .. Len(Tail(live)) : Tail(live)[i] = live[i + 1]
      BY <2>1, <3>1, Shortened
    <3> QED
      BY <2>1, <3>2
  <2>3. \A i \in 1 .. Len(kept) : i + 1 \in 1 .. Len(live)
    BY <1>2, <2>2
  <2>4. \A i \in 1 .. Len(kept) : \E j \in 1 .. N : kept[i] = nonces[j]
    <3> SUFFICES ASSUME NEW i \in 1 .. Len(kept)
                 PROVE  \E j \in 1 .. N : kept[i] = nonces[j]
      OBVIOUS
    <3>1. i + 1 \in 1 .. Len(live) /\ kept[i] = live[i + 1]
      BY <2>2, <2>3
    <3>2. PICK j \in 1 .. N : live[i + 1] = nonces[j]
      BY <1>1, <3>1
    <3> QED
      BY <3>1, <3>2
  <2>5. ASSUME NEW j \in 1 .. N, Unseen(nonces[j]), Len(minted) - nonces[j].value < MaxNonces - 1
        PROVE  \E i \in 1 .. Len(kept) : kept[i] = nonces[j]
    <3>1. PICK i \in 1 .. Len(live) : live[i] = nonces[j]
      BY <1>1, <2>5
    <3>2. live[i].value + (Len(live) - i) <= Latest(N) /\ live[i].value \in Nat
      BY <1>1, <1>5
    <3>3. Len(minted) - live[i].value < MaxNonces - 1
      BY <2>5, <3>1
    <3>4. i # 1
      BY <1>2, <1>3, <1>6, <3>2, <3>3
    <3>5. i - 1 \in 1 .. Len(kept) /\ (i - 1) + 1 = i
      BY <1>2, <2>2, <3>4
    <3>6. kept[i - 1] = nonces[j]
      BY <2>2, <3>1, <3>5
    <3> QED
      BY <3>5, <3>6
  <2>6. Increasing(kept)
    <3> SUFFICES ASSUME NEW i \in 1 .. Len(kept), NEW k \in 1 .. Len(kept), i < k
                 PROVE  kept[i].value < kept[k].value
      BY DEF Increasing
    <3>1. i + 1 \in 1 .. Len(live) /\ k + 1 \in 1 .. Len(live) /\ i + 1 < k + 1
      BY <1>2, <2>2
    <3>2. live[i + 1].value < live[k + 1].value
      BY <1>1, <3>1 DEF Increasing
    <3> QED
      BY <2>2, <3>2
  <2> QED
    BY <2>2, <2>4, <2>5, <2>6 DEF N
<1>7. CASE ~(Len(live) >= MaxNonces)
  <2>1. kept = live
    BY <1>4, <1>7
  <2> QED
    BY <1>1, <2>1 DEF N
<1> QED
  BY <1>6, <1>7

\* A 401 mints a nonce, and drops at most the oldest.
LEMMA ChallengeKeeps ==
  ASSUME AccessInv, Challenge, UNCHANGED <<now, boots, spent, respent>>
  PROVE  AccessInv'
<1>1. PICK kept : kept = KeptNonces
  OBVIOUS
<1> DEFINE new == [value |-> Len(minted) + 1, at |-> now, last |-> 0]
<1>2. nonces' = Append(kept, new)
  BY <1>1 DEF Challenge, Challenged, KeptNonces
<1>3. /\ kept \in Seq(NonceRecords)
      /\ \A i \in 1 .. Len(kept) : \E j \in 1 .. Len(nonces) : kept[i] = nonces[j]
      /\ \A j \in 1 .. Len(nonces) :
           Unseen(nonces[j]) /\ Len(minted) - nonces[j].value < MaxNonces - 1
             => \E i \in 1 .. Len(kept) : kept[i] = nonces[j]
      /\ Increasing(kept)
  <2>1. IsKept(KeptNonces)
    BY KeptForChallenge DEF AccessInv
  <2> QED
    BY <1>1, <2>1 DEF IsKept
<1>4. /\ now \in Nat /\ minted \in Seq(Nat) /\ boots \in 0 .. Len(minted) /\ Len(minted) \in Nat
      /\ spent \subseteq [nonce : 1 .. Len(minted), nc : Nat]
  BY DEF AccessInv, AccessTypeOK
<1>5. /\ minted' \in Seq(Nat) /\ Len(minted') = Len(minted) + 1
      /\ \A v \in 1 .. Len(minted) : minted'[v] = minted[v]
      /\ minted'[Len(minted) + 1] = now
  BY <1>4 DEF Challenge
<1>6. new \in NonceRecords /\ new.value = Len(minted) + 1 /\ new.at = now /\ new.last = 0
  BY <1>4 DEF NonceRecords
<1> HIDE DEF new
<1>7. /\ nonces' \in Seq(NonceRecords) /\ Len(nonces') = Len(kept) + 1 /\ Len(kept) \in Nat
      /\ \A i \in 1 .. Len(kept) : nonces'[i] = kept[i]
      /\ nonces'[Len(kept) + 1] = new
  BY <1>2, <1>3, <1>6, Appended
<1>8. now' = now /\ boots' = boots /\ spent' = spent /\ respent' = respent
  OBVIOUS
<1>9. /\ \A i \in 1 .. Len(nonces) :
            nonces[i].value \in boots + 1 .. Len(minted) /\ nonces[i].at = minted[nonces[i].value]
      /\ nonces \in Seq(NonceRecords)
  BY DEF AccessInv, Table
<1>a. \A i \in 1 .. Len(kept) :
        kept[i].value \in boots + 1 .. Len(minted) /\ kept[i].at = minted[kept[i].value]
  <2> SUFFICES ASSUME NEW i \in 1 .. Len(kept)
               PROVE  kept[i].value \in boots + 1 .. Len(minted)
                      /\ kept[i].at = minted[kept[i].value]
    OBVIOUS
  <2>1. PICK j \in 1 .. Len(nonces) : kept[i] = nonces[j]
    BY <1>3
  <2> QED
    BY <1>9, <2>1
<1>b. \A i \in 1 .. Len(nonces') : i \in 1 .. Len(kept) \/ i = Len(kept) + 1
  BY <1>7
<1>c. AccessTypeOK'
  <2>1. minted' \in Seq(Nat) /\ now' \in Nat /\ boots' \in 0 .. Len(minted')
    BY <1>4, <1>5, <1>8
  <2>2. spent' \subseteq [nonce : 1 .. Len(minted'), nc : Nat]
    BY <1>4, <1>5, <1>8
  <2> QED
    BY <2>1, <2>2 DEF AccessTypeOK
<1>d. Table'
  <2>1. \A i \in 1 .. Len(nonces') :
          nonces'[i].value \in boots' + 1 .. Len(minted')
          /\ nonces'[i].at = minted'[nonces'[i].value]
    <3> SUFFICES ASSUME NEW i \in 1 .. Len(nonces')
                 PROVE  nonces'[i].value \in boots' + 1 .. Len(minted')
                        /\ nonces'[i].at = minted'[nonces'[i].value]
      OBVIOUS
    <3>1. CASE i \in 1 .. Len(kept)
      <4>1. nonces'[i] = kept[i]
        BY <1>7, <3>1
      <4>2. kept[i].value \in boots + 1 .. Len(minted) /\ kept[i].at = minted[kept[i].value]
        BY <1>a, <3>1
      <4>3. kept[i].value \in 1 .. Len(minted) /\ kept[i].value \in boots + 1 .. Len(minted')
        BY <1>4, <1>5, <4>2, SMTT(30)
      <4> QED
        BY <1>5, <1>8, <4>1, <4>2, <4>3
    <3>2. CASE i = Len(kept) + 1
      BY <1>4, <1>5, <1>6, <1>7, <1>8, <3>2
    <3> QED
      BY <1>b, <3>1, <3>2
  <2>2. Increasing(nonces')
    <3> SUFFICES ASSUME NEW i \in 1 .. Len(nonces'), NEW k \in 1 .. Len(nonces'), i < k
                 PROVE  nonces'[i].value < nonces'[k].value
      BY DEF Increasing
    <3>1. i \in 1 .. Len(kept) /\ nonces'[i] = kept[i]
      BY <1>7
    <3>2. CASE k \in 1 .. Len(kept)
      <4>1. nonces'[k] = kept[k] /\ kept[i].value < kept[k].value
        BY <1>3, <1>7, <3>1, <3>2 DEF Increasing
      <4> QED
        BY <3>1, <4>1
    <3>3. CASE k = Len(kept) + 1
      <4>1. kept[i].value \in boots + 1 .. Len(minted)
        BY <1>a, <3>1
      <4>2. nonces'[k].value = Len(minted) + 1
        BY <1>6, <1>7, <3>3
      <4>3. kept[i].value < Len(minted) + 1
        BY <1>4, <4>1
      <4> QED
        BY <3>1, <4>2, <4>3
    <3> QED
      BY <1>b, <3>2, <3>3
  <2> QED
    BY <1>7, <2>1, <2>2 DEF Table, Increasing
<1>e. Recent'
  <2> SUFFICES ASSUME NEW v \in boots' + 1 .. Len(minted'),
                      Len(minted') - v < MaxNonces, now' - minted'[v] < NonceTtl
               PROVE  \E i \in 1 .. Len(nonces') : nonces'[i].value = v
    BY DEF Recent
  <2>a. /\ v \in boots + 1 .. Len(minted) + 1
        /\ Len(minted) + 1 - v < MaxNonces /\ now - minted'[v] < NonceTtl
    BY <1>5, <1>8
  <2>1. CASE v = Len(minted) + 1
    <3>1. Len(kept) + 1 \in 1 .. Len(nonces')
      BY <1>7
    <3> QED
      BY <1>6, <1>7, <2>1, <3>1
  <2>2. CASE v # Len(minted) + 1
    <3>1. /\ v \in boots + 1 .. Len(minted) /\ v \in 1 .. Len(minted) /\ v \in Nat
          /\ Len(minted) - v < MaxNonces - 1 /\ Len(minted) - v < MaxNonces
      <4>1. MaxNonces \in Nat
        BY AccessAssumption
      <4>2. boots \in Nat /\ Len(minted) \in Nat
        BY <1>4
      <4>3. v \in Nat /\ v >= boots + 1 /\ v <= Len(minted)
        BY <2>a, <2>2, <4>2
      <4>4. Len(minted) - v < MaxNonces - 1 /\ Len(minted) - v < MaxNonces
        BY <2>a, <4>1, <4>2, <4>3
      <4> QED
        BY <4>2, <4>3, <4>4
    <3>2. now - minted[v] < NonceTtl
      BY <1>5, <2>a, <3>1
    <3>3. PICK j \in 1 .. Len(nonces) : nonces[j].value = v
      BY <3>1, <3>2 DEF AccessInv, Recent
    <3>4. nonces[j].at = minted[v]
      BY <1>9, <3>3
    <3>5. Unseen(nonces[j])
      BY <3>2, <3>4 DEF Unseen
    <3>6. PICK i \in 1 .. Len(kept) : kept[i] = nonces[j]
      BY <1>3, <3>1, <3>3, <3>5
    <3>7. i \in 1 .. Len(nonces') /\ nonces'[i].value = v
      BY <1>7, <3>3, <3>6
    <3> QED
      BY <3>7
  <2> QED
    BY <2>1, <2>2
<1>f. CountsKept'
  <2> SUFFICES ASSUME NEW i \in 1 .. Len(nonces')
               PROVE  /\ \A x \in spent : x.nonce = nonces'[i].value => x.nc <= nonces'[i].last
                      /\ \/ nonces'[i].last = 0
                         \/ [nonce |-> nonces'[i].value, nc |-> nonces'[i].last] \in spent
    BY <1>8 DEF CountsKept
  <2>1. CASE i \in 1 .. Len(kept)
    <3>1. PICK j \in 1 .. Len(nonces) : kept[i] = nonces[j]
      BY <1>3, <2>1
    <3>2. nonces'[i] = nonces[j]
      BY <1>7, <2>1, <3>1
    <3>3. /\ \A x \in spent : x.nonce = nonces[j].value => x.nc <= nonces[j].last
          /\ \/ nonces[j].last = 0
             \/ [nonce |-> nonces[j].value, nc |-> nonces[j].last] \in spent
      BY DEF AccessInv, CountsKept
    <3> QED
      BY <3>2, <3>3
  <2>2. CASE i = Len(kept) + 1
    <3>1. nonces'[i].value = Len(minted) + 1 /\ nonces'[i].last = 0
      BY <1>6, <1>7, <2>2
    <3>2. \A x \in spent : x.nonce \in 1 .. Len(minted)
      BY <1>4
    <3>3. \A x \in spent : x.nonce # Len(minted) + 1
      BY <1>4, <3>2
    <3> QED
      BY <3>1, <3>3
  <2> QED
    BY <1>b, <2>1, <2>2
<1>g. ExchangeRunsOnce'
  BY <1>8 DEF AccessInv, ExchangeRunsOnce
<1> QED
  BY <1>c, <1>d, <1>e, <1>f, <1>g DEF AccessInv

\* A request let in is marked with its count, and had not run before.
LEMMA AcceptedKeeps ==
  ASSUME AccessInv, NEW name, NEW h \in HeadersFor(name) \cup {NoHeader}, NEW r,
         Verdict(h, r) = "authorized", Accepted(h), UNCHANGED <<minted, now, boots>>
  PROVE  AccessInv'
<1>1. CASE adminKey = NoKey
  <2>1. UNCHANGED <<nonces, spent, respent>>
    BY <1>1 DEF Accepted
  <2> QED
    BY <2>1 DEF AccessInv, AccessTypeOK, Table, Increasing, Recent, CountsKept, ExchangeRunsOnce
<1>2. CASE adminKey # NoKey
  <2>1. h # NoHeader /\ ~(\A i \in HeldNonces(h) : ~Unseen(nonces[i]) \/ h.nc <= nonces[i].last)
    BY <1>2 DEF Verdict
  <2>2. PICK a \in HeldNonces(h) : ~(h.nc <= nonces[a].last)
    BY <2>1
  <2>3. h.nc \in Nat /\ h.nonce \in 1 .. Len(minted)
    <3>1. h \in HeadersFor(name)
      BY <2>1
    <3>2. h.nc \in 0 .. MaxCount /\ h.nonce \in 1 .. Len(minted)
      BY <3>1 DEF HeadersFor
    <3>3. MaxCount \in Nat
      BY AccessAssumption
    <3> QED
      BY <3>2, <3>3
  <2>4. a \in 1 .. Len(nonces) /\ nonces[a].value = h.nonce
    BY DEF HeldNonces, AccessInv, Table
  <2>5. nonces' = Counted(h) /\ spent' = spent \cup {Use(h)}
        /\ respent' = respent \cup ({Use(h)} \cap spent)
    BY <1>2 DEF Accepted
  <2>6. Use(h).nonce = h.nonce /\ Use(h).nc = h.nc /\ Use(h) = [nonce |-> h.nonce, nc |-> h.nc]
    BY DEF Use
  <2>7. \A i \in 1 .. Len(nonces) :
          /\ nonces[i].value \in Nat /\ nonces[i].at \in Nat /\ nonces[i].last \in Nat
          /\ nonces[i] \in NonceRecords
    <3>1. nonces \in Seq(NonceRecords)
      BY DEF AccessInv, Table
    <3>2. \A x \in NonceRecords : x.value \in Nat /\ x.at \in Nat /\ x.last \in Nat
      BY DEF NonceRecords
    <3>3. \A i \in 1 .. Len(nonces) : nonces[i] \in NonceRecords
      BY <3>1
    <3> QED
      BY <3>2, <3>3
  <2>8. \A i \in 1 .. Len(nonces) : nonces[i].value = h.nonce => i = a
    <3>1. Increasing(nonces) /\ Len(nonces) \in Nat
      BY DEF AccessInv, Table
    <3> SUFFICES ASSUME NEW i \in 1 .. Len(nonces), nonces[i].value = h.nonce, i # a
                 PROVE  FALSE
      OBVIOUS
    <3>2. i < a \/ a < i
      BY <2>4, <3>1
    <3>3. nonces[i].value < nonces[a].value \/ nonces[a].value < nonces[i].value
      BY <2>4, <3>1, <3>2 DEF Increasing
    <3> QED
      BY <2>4, <2>7, <3>3
  <2>9. \A i \in 1 .. Len(nonces) : i \in HeldNonces(h) <=> nonces[i].value = h.nonce
    BY DEF HeldNonces, AccessInv, Table
  <2>a. DOMAIN nonces = 1 .. Len(nonces) /\ Len(nonces) \in Nat /\ nonces \in Seq(NonceRecords)
    BY DEF AccessInv, Table
  <2>b. \A i \in 1 .. Len(nonces) :
          /\ nonces'[i] \in NonceRecords
          /\ nonces'[i].value = nonces[i].value /\ nonces'[i].at = nonces[i].at
          /\ nonces'[i].last = IF i = a THEN h.nc ELSE nonces[i].last
    <3> SUFFICES ASSUME NEW i \in 1 .. Len(nonces)
                 PROVE  /\ nonces'[i] \in NonceRecords
                        /\ nonces'[i].value = nonces[i].value /\ nonces'[i].at = nonces[i].at
                        /\ nonces'[i].last = IF i = a THEN h.nc ELSE nonces[i].last
      OBVIOUS
    <3>1. CASE i = a
      <4>1. nonces'[i] = [nonces[i] EXCEPT !.last = h.nc]
        BY <2>4, <2>5, <2>9, <2>a, <3>1 DEF Counted
      <4>2. nonces[i] \in NonceRecords
        BY <2>7
      <4> QED
        BY <2>3, <3>1, <4>1, <4>2 DEF NonceRecords
    <3>2. CASE i # a
      <4>1. nonces'[i] = nonces[i]
        BY <2>5, <2>8, <2>9, <2>a, <3>2 DEF Counted
      <4> QED
        BY <2>7, <3>2, <4>1
    <3> QED
      BY <3>1, <3>2
  <2>c. nonces' \in Seq(NonceRecords) /\ Len(nonces') = Len(nonces)
    <3>1. nonces' = [i \in 1 .. Len(nonces) |-> nonces'[i]]
      BY <2>5, <2>a DEF Counted
    <3> QED
      BY <2>a, <2>b, <3>1
  <2>d. \A x \in spent : x.nonce = h.nonce => x.nc <= nonces[a].last
    BY <2>4 DEF AccessInv, CountsKept
  <2>e. \A x \in spent : x \in [nonce : 1 .. Len(minted), nc : Nat]
    BY DEF AccessInv, AccessTypeOK
  <2>f. ExchangeRunsOnce'
    <3>1. Use(h) \notin spent
      <4> SUFFICES ASSUME Use(h) \in spent
                   PROVE  FALSE
        OBVIOUS
      <4>1. h.nc <= nonces[a].last
        BY <2>6, <2>d
      <4> QED
        BY <2>2, <4>1
    <3> QED
      BY <2>5, <3>1 DEF AccessInv, ExchangeRunsOnce
  <2>g. AccessTypeOK'
    <3>1. Use(h) \in [nonce : 1 .. Len(minted), nc : Nat]
      BY <2>3, <2>6
    <3>2. spent' \subseteq [nonce : 1 .. Len(minted'), nc : Nat]
      BY <2>5, <2>e, <3>1
    <3> QED
      BY <3>2 DEF AccessInv, AccessTypeOK
  <2>h. Table'
    <3>1. \A i \in 1 .. Len(nonces') :
            nonces'[i].value \in boots' + 1 .. Len(minted')
            /\ nonces'[i].at = minted'[nonces'[i].value]
      BY <2>b, <2>c DEF AccessInv, Table
    <3>2. Increasing(nonces')
      <4>1. Increasing(nonces)
        BY DEF AccessInv, Table
      <4> QED
        BY <2>b, <2>c, <4>1 DEF Increasing
    <3> QED
      BY <2>c, <3>1, <3>2 DEF Table, Increasing
  <2>i. Recent'
    <3> SUFFICES ASSUME NEW v \in boots + 1 .. Len(minted),
                        Len(minted) - v < MaxNonces, now - minted[v] < NonceTtl
                 PROVE  \E i \in 1 .. Len(nonces') : nonces'[i].value = v
      BY DEF Recent
    <3>1. PICK i \in 1 .. Len(nonces) : nonces[i].value = v
      BY DEF AccessInv, Recent
    <3> QED
      BY <2>b, <2>c, <3>1
  <2>j. CountsKept'
    <3> SUFFICES ASSUME NEW i \in 1 .. Len(nonces)
                 PROVE  /\ \A x \in spent' : x.nonce = nonces'[i].value => x.nc <= nonces'[i].last
                        /\ \/ nonces'[i].last = 0
                           \/ [nonce |-> nonces'[i].value, nc |-> nonces'[i].last] \in spent'
      BY <2>c DEF CountsKept
    <3>0. nonces'[i].value = nonces[i].value
          /\ nonces'[i].last = IF i = a THEN h.nc ELSE nonces[i].last
      BY <2>b
    <3>1. CASE i = a
      <4>1. nonces'[i].value = h.nonce /\ nonces'[i].last = h.nc
        BY <2>4, <3>0, <3>1
      <4>2. [nonce |-> nonces'[i].value, nc |-> nonces'[i].last] \in spent'
        BY <2>5, <2>6, <4>1
      <4>3. \A x \in spent' : x.nonce = h.nonce => x.nc <= h.nc
        <5> SUFFICES ASSUME NEW x \in spent', x.nonce = h.nonce
                     PROVE  x.nc <= h.nc
          OBVIOUS
        <5>1. CASE x = Use(h)
          BY <2>3, <2>6, <5>1
        <5>2. CASE x \in spent
          <6>1. x.nc <= nonces[a].last /\ x.nc \in Nat
            BY <2>d, <2>e, <5>2
          <6> QED
            BY <2>2, <2>3, <2>4, <2>7, <6>1
        <5> QED
          BY <2>5, <5>1, <5>2
      <4> QED
        BY <4>1, <4>2, <4>3
    <3>2. CASE i # a
      <4>1. nonces'[i].last = nonces[i].last /\ nonces[i].value # h.nonce
        BY <2>8, <3>0, <3>2
      <4>2. /\ \A x \in spent : x.nonce = nonces[i].value => x.nc <= nonces[i].last
            /\ \/ nonces[i].last = 0
               \/ [nonce |-> nonces[i].value, nc |-> nonces[i].last] \in spent
        BY DEF AccessInv, CountsKept
      <4> QED
        BY <2>5, <2>6, <3>0, <4>1, <4>2
    <3> QED
      BY <3>1, <3>2
  <2> QED
    BY <2>f, <2>g, <2>h, <2>i, <2>j DEF AccessInv
<1> QED
  BY <1>1, <1>2

LEMMA RequestKeeps ==
  ASSUME AccessInv, Request
  PROVE  AccessInv'
<1>1. PICK n \in Asked : \E h \in HeadersFor(n) \cup {NoHeader} : Serve(h, RouteOf(n))
  BY DEF Request
<1>2. PICK h \in HeadersFor(n) \cup {NoHeader} : Serve(h, RouteOf(n))
  BY <1>1
<1>3. UNCHANGED <<now, boots>>
  BY DEF Request
<1>4. CASE Challenge /\ UNCHANGED <<spent, respent>>
  BY <1>3, <1>4, ChallengeKeeps
<1>5. CASE Verdict(h, RouteOf(n)) = "authorized" /\ Accepted(h) /\ UNCHANGED minted
  BY <1>3, <1>5, AcceptedKeeps
<1>6. CASE UNCHANGED <<nonces, spent, respent, minted>>
  BY <1>3, <1>6 DEF AccessInv, AccessTypeOK, Table, Increasing, Recent, CountsKept,
                    ExchangeRunsOnce
<1>7. \/ Challenge /\ UNCHANGED <<spent, respent>>
      \/ Verdict(h, RouteOf(n)) = "authorized" /\ Accepted(h) /\ UNCHANGED minted
      \/ UNCHANGED <<nonces, spent, respent, minted>>
  BY <1>2 DEF Serve
<1> QED
  BY <1>4, <1>5, <1>6, <1>7

LEMMA AccessInitial == AccessInit => AccessInv
<1> SUFFICES ASSUME AccessInit
             PROVE  AccessInv
  OBVIOUS
<1>1. nonces = <<>> /\ minted = <<>> /\ now = 0 /\ boots = 0 /\ spent = {} /\ respent = {}
  BY DEF AccessInit
<1>2. AccessTypeOK
  BY <1>1 DEF AccessTypeOK
<1>3. Table
  BY <1>1 DEF Table, Increasing
<1>4. Recent /\ CountsKept /\ ExchangeRunsOnce
  BY <1>1 DEF Recent, CountsKept, ExchangeRunsOnce
<1> QED
  BY <1>2, <1>3, <1>4 DEF AccessInv

LEMMA AccessStep == AccessInv /\ [AccessNext]_accessVars => AccessInv'
<1> SUFFICES ASSUME AccessInv, [AccessNext]_accessVars
             PROVE  AccessInv'
  OBVIOUS
<1>1. CASE Request
  BY <1>1, RequestKeeps
<1>2. CASE Elapse
  <2>1. now' = now + 1 /\ UNCHANGED <<nonces, minted, boots, spent, respent>>
    BY <1>2 DEF Elapse
  <2>2. AccessTypeOK' /\ Table' /\ CountsKept' /\ ExchangeRunsOnce'
    BY <2>1 DEF AccessInv, AccessTypeOK, Table, Increasing, CountsKept, ExchangeRunsOnce
  <2>3. Recent'
    <3> SUFFICES ASSUME NEW v \in boots' + 1 .. Len(minted'),
                        Len(minted') - v < MaxNonces, now' - minted'[v] < NonceTtl
                 PROVE  \E i \in 1 .. Len(nonces') : nonces'[i].value = v
      BY DEF Recent
    <3>a. /\ v \in boots + 1 .. Len(minted)
          /\ Len(minted) - v < MaxNonces /\ (now + 1) - minted[v] < NonceTtl
      <4>1. boots' = boots /\ minted' = minted /\ now' = now + 1
        BY <2>1
      <4>2. v \in boots + 1 .. Len(minted)
        BY <4>1
      <4>3. Len(minted) - v < MaxNonces
        BY <4>1
      <4>4. (now + 1) - minted[v] < NonceTtl
        BY <4>1
      <4> QED
        BY <4>2, <4>3, <4>4
    <3>1. minted \in Seq(Nat) /\ boots \in Nat /\ now \in Nat /\ v \in 1 .. Len(minted)
      BY <3>a DEF AccessInv, AccessTypeOK
    <3>2. minted[v] \in Nat /\ NonceTtl \in Nat
      BY <3>1, AccessAssumption
    <3>3. now - minted[v] < NonceTtl
      BY <3>a, <3>1, <3>2
    <3>4. PICK i \in 1 .. Len(nonces) : nonces[i].value = v
      BY <3>a, <3>3 DEF AccessInv, Recent
    <3> QED
      BY <2>1, <3>4
  <2> QED
    BY <2>2, <2>3 DEF AccessInv
<1>3. CASE AccessBoot
  <2>1. /\ nonces' = <<>> /\ now' = 0 /\ boots' = Len(minted)
        /\ UNCHANGED <<minted, spent, respent>>
    BY <1>3 DEF AccessBoot
  <2>2. minted \in Seq(Nat) /\ Len(minted) \in Nat
    BY DEF AccessInv, AccessTypeOK
  <2>3. AccessTypeOK'
    BY <2>1, <2>2 DEF AccessInv, AccessTypeOK
  <2>4. Table' /\ CountsKept' /\ ExchangeRunsOnce'
    BY <2>1 DEF AccessInv, Table, Increasing, CountsKept, ExchangeRunsOnce
  <2>5. Recent'
    BY <2>1, <2>2 DEF Recent
  <2> QED
    BY <2>3, <2>4, <2>5 DEF AccessInv
<1>4. CASE UNCHANGED accessVars
  BY <1>4 DEF accessVars, AccessInv, AccessTypeOK, Table, Increasing, Recent, CountsKept,
              ExchangeRunsOnce
<1> QED
  BY <1>1, <1>2, <1>3, <1>4 DEF AccessNext

LEMMA HeldAnswers ==
  ASSUME AccessInv
  PROVE  ChallengeAnswered
<1> SUFFICES ASSUME NEW v \in boots + 1 .. Len(minted), Len(minted) - v < MaxNonces,
                    now - minted[v] < NonceTtl, adminKey # NoKey,
                    NEW r \in Routes, NEW nc \in 1 .. MaxCount,
                    \A x \in spent : x.nonce = v => x.nc < nc
             PROVE  Verdict([key |-> adminKey, uri |-> r.name, nonce |-> v, nc |-> nc], r)
                      = "authorized"
  BY DEF ChallengeAnswered
<1> DEFINE h == [key |-> adminKey, uri |-> r.name, nonce |-> v, nc |-> nc]
<1>1. PICK i \in 1 .. Len(nonces) : nonces[i].value = v
  BY DEF AccessInv, Recent
<1>2. h.key = adminKey /\ h.uri = r.name /\ h.nonce = v /\ h.nc = nc /\ h # NoHeader
  BY DEF NoHeader
<1>a. h = [key |-> adminKey, uri |-> r.name, nonce |-> v, nc |-> nc]
  OBVIOUS
<1> HIDE DEF h
<1>3. i \in HeldNonces(h)
  BY <1>1, <1>2 DEF HeldNonces, AccessInv, Table
<1>4. Unseen(nonces[i])
  <2>1. nonces[i].at = minted[v]
    BY <1>1 DEF AccessInv, Table
  <2> QED
    BY <2>1 DEF Unseen
<1>5. ~(h.nc <= nonces[i].last)
  <2>1. nonces[i].last = 0 \/ [nonce |-> v, nc |-> nonces[i].last] \in spent
    BY <1>1 DEF AccessInv, CountsKept
  <2>2. nc \in Nat /\ nc > 0 /\ nonces[i].last \in Nat
    <3>1. MaxCount \in Nat
      BY AccessAssumption
    <3>2. nonces \in Seq(NonceRecords)
      BY DEF AccessInv, Table
    <3>3. nonces[i] \in NonceRecords
      BY <3>2
    <3> QED
      BY <3>1, <3>3 DEF NonceRecords
  <2>3. CASE nonces[i].last = 0
    BY <1>2, <2>2, <2>3
  <2>4. CASE [nonce |-> v, nc |-> nonces[i].last] \in spent
    <3>1. nonces[i].last < nc
      BY <2>4
    <3> QED
      BY <1>2, <2>2, <3>1
  <2> QED
    BY <2>1, <2>3, <2>4
<1>6. ~(\A k \in HeldNonces(h) : ~Unseen(nonces[k]) \/ h.nc <= nonces[k].last)
  BY <1>3, <1>4, <1>5
<1>7. Verdict(h, r) = "authorized"
  BY <1>2, <1>6 DEF Verdict
<1> QED
  BY <1>7, <1>a

AccessSpec == AccessInit /\ [][AccessNext]_accessVars

\* Whoever answers a recent challenge with the current key and a fresh count is
\* let in, and no exchange runs a handler twice (auth.rs).
THEOREM AnsweredOnce == AccessSpec => []AccessKept
<1>1. AccessInit => AccessInv
  BY AccessInitial
<1>2. AccessInv /\ [AccessNext]_accessVars => AccessInv'
  BY AccessStep
<1>3. AccessInv => AccessKept
  BY HeldAnswers DEF AccessInv, AccessKept
<1> QED
  BY <1>1, <1>2, <1>3, PTL DEF AccessSpec

-----------------------------------------------------------------------------
(* The update worker: a note of what an install came to.                   *)

OtaSpec == OtaInit /\ [][OtaNext]_otaVars
OtaSteps == {"idle", "pausing", "syncing", "noting", "opening", "listing", "erasing", "reading",
             "verifying", "noting installed", "rebooting"}
OtaWorkers ==
  {o \in [step : OtaSteps, of : {"none", "listing", "image"}, hops : Nat, tries : Nat,
          sized : BOOLEAN] : o.step # "idle" => o.of # "none"}
OtaShown ==
  [phase : {"idle", "checking", "failed", "downloading", "verifying", "installed", "up-to-date",
            "update-available"}, written : Nat]

OtaTypeOK == ota \in OtaWorkers /\ shown \in OtaShown /\ noteKept \in BOOLEAN

\* Installing, past the note that says so.
Installing ==
  \/ ota.step \in {"erasing", "reading", "verifying"}
  \/ ota.step = "opening" /\ ota.of = "image"

\* The slot is not given up before it is noted that the install did not finish.
NotedFirst == Installing => ota.of = "image" /\ (noteKept => noted = "unfinished")

NothingWritten ==
  ota.step \in {"pausing", "syncing", "noting", "opening", "listing", "erasing"} => shown.written = 0

SelectedLast == spare = "selected" <=> ota.step \in {"noting installed", "rebooting"}

OtaInv == OtaTypeOK /\ NotedFirst /\ NothingWritten /\ SelectedLast /\ NoteIsEvidence

LEMMA IdleWorker == OtaIdle \in OtaWorkers /\ OtaIdle.step = "idle"
BY DEF OtaIdle, OtaWorkers, OtaSteps

\* The worker after a step of it.
LEMMA WorkerTo ==
  ASSUME ota \in OtaWorkers, ota.of # "none", NEW s \in OtaSteps, ota' = [ota EXCEPT !.step = s]
  PROVE  ota' \in OtaWorkers /\ ota'.step = s /\ ota'.of = ota.of
BY DEF OtaWorkers

LEMMA WorkerSized ==
  ASSUME ota \in OtaWorkers, ota.of # "none", NEW s \in OtaSteps, NEW z \in BOOLEAN,
         ota' = [ota EXCEPT !.step = s, !.sized = z]
  PROVE  ota' \in OtaWorkers /\ ota'.step = s /\ ota'.of = ota.of
BY DEF OtaWorkers

LEMMA WorkerHops ==
  ASSUME ota \in OtaWorkers, ota' = [ota EXCEPT !.hops = @ + 1]
  PROVE  ota' \in OtaWorkers /\ ota'.step = ota.step /\ ota'.of = ota.of
BY DEF OtaWorkers

LEMMA WorkerAgain ==
  ASSUME ota \in OtaWorkers, ota.of # "none",
         ota' = [ota EXCEPT !.step = "opening", !.hops = 0, !.tries = 1]
  PROVE  ota' \in OtaWorkers /\ ota'.step = "opening" /\ ota'.of = ota.of
BY DEF OtaWorkers, OtaSteps

LEMMA WorkerStarts ==
  ASSUME NEW s \in OtaSteps, s # "idle", NEW f \in {"listing", "image"},
         ota' = [OtaIdle EXCEPT !.step = s, !.of = f]
  PROVE  ota' \in OtaWorkers /\ ota'.step = s /\ ota'.of = f
BY DEF OtaWorkers, OtaIdle, OtaSteps

LEMMA ShownStep ==
  ASSUME NEW p \in {"idle", "checking", "failed", "downloading", "verifying", "installed",
                    "up-to-date", "update-available"}, shown \in OtaShown
  PROVE  Show(p) => shown' \in OtaShown /\ shown'.phase = p /\ shown'.written = shown.written
BY DEF OtaShown, Show

LEMMA ChunkShown ==
  ASSUME shown \in OtaShown, shown' = [shown EXCEPT !.written = @ + 1]
  PROVE  shown' \in OtaShown /\ shown'.phase = shown.phase
BY DEF OtaShown

LEMMA NotedAs ==
  ASSUME NEW text, Note(text)
  PROVE  noteKept' \in BOOLEAN /\ (noteKept' => noted' = text)
BY DEF Note

LEMMA OtaInitInv == OtaInit => OtaInv
<1> SUFFICES ASSUME OtaInit
             PROVE  OtaInv
  OBVIOUS
<1>1. OtaTypeOK
  BY IdleWorker DEF OtaInit, OtaTypeOK, OtaShown
<1>2. NotedFirst
  BY IdleWorker DEF OtaInit, NotedFirst, Installing
<1>3. NothingWritten
  BY DEF OtaInit, NothingWritten
<1>4. SelectedLast
  BY IdleWorker DEF OtaInit, SelectedLast
<1>5. NoteIsEvidence
  BY DEF OtaInit, NoteIsEvidence
<1> QED
  BY <1>1, <1>2, <1>3, <1>4, <1>5 DEF OtaInv

\* An install that fails leaves its note.
LEMMA InstallFails ==
  ASSUME OtaInv, FailInstall, received' = received, spare' = spare, spare # "selected"
  PROVE  OtaInv'
<1>1. ota' \in OtaWorkers /\ ota'.step = "idle"
  BY IdleWorker DEF FailInstall
<1>2. shown' \in OtaShown /\ noteKept' \in BOOLEAN /\ (noteKept' => noted' = "failed")
  BY ShownStep, NotedAs DEF FailInstall, OtaInv, OtaTypeOK
<1>a. OtaTypeOK'
  BY <1>1, <1>2 DEF OtaInv, OtaTypeOK
<1>b. NotedFirst'
  BY <1>1, <1>2 DEF OtaInv, NotedFirst, Installing
<1>c. NothingWritten'
  BY <1>1, <1>2 DEF OtaInv, NothingWritten
<1>d. SelectedLast'
  BY <1>1, <1>2 DEF OtaInv, SelectedLast
<1>e. NoteIsEvidence'
  BY <1>1, <1>2 DEF OtaInv, NoteIsEvidence, NotedFirst, Installing, NothingWritten, SelectedLast, Published
<1> QED
  BY <1>a, <1>b, <1>c, <1>d, <1>e DEF OtaInv

\* A check that fails has written nothing.
LEMMA FetchFails ==
  ASSUME OtaInv, FailFetch, received' = received, spare' = spare, ota.of = "listing",
         ota.step \in {"opening", "listing"}
  PROVE  OtaInv'
<1>1. spare # "selected" /\ shown.written = 0
  BY DEF OtaInv, SelectedLast, NothingWritten
<1>2. noted' = noted /\ noteKept' = noteKept
  BY DEF FailFetch, NoNote
<1>3. CASE ota.tries = 0
  <2>1. ota' \in OtaWorkers /\ ota'.step = "opening" /\ ota'.of = "listing" /\ shown' = shown
    BY <1>3, WorkerAgain DEF FailFetch, OtaInv, OtaTypeOK, OtaSteps
  <2>a. OtaTypeOK'
    BY <1>1, <1>2, <2>1 DEF OtaInv, OtaTypeOK
  <2>b. NotedFirst'
    BY <1>1, <1>2, <2>1 DEF OtaInv, NotedFirst, Installing
  <2>c. NothingWritten'
    BY <1>1, <1>2, <2>1 DEF OtaInv, NothingWritten
  <2>d. SelectedLast'
    BY <1>1, <1>2, <2>1 DEF OtaInv, SelectedLast
  <2>e. NoteIsEvidence'
    BY <1>1, <1>2, <2>1 DEF OtaInv, NoteIsEvidence, NotedFirst, Installing, NothingWritten, SelectedLast, Published
  <2> QED
    BY <2>a, <2>b, <2>c, <2>d, <2>e DEF OtaInv
<1>4. CASE ota.tries # 0
  <2>1. ota' \in OtaWorkers /\ ota'.step = "idle"
        /\ shown' \in OtaShown /\ shown'.written = 0 /\ ~(shown'.written > 0)
    BY <1>1, <1>4, IdleWorker, ShownStep DEF FailFetch, OtaInv, OtaTypeOK
  <2>a. OtaTypeOK'
    BY <1>1, <1>2, <2>1 DEF OtaInv, OtaTypeOK
  <2>b. NotedFirst'
    BY <1>1, <1>2, <2>1 DEF OtaInv, NotedFirst, Installing
  <2>c. NothingWritten'
    BY <1>1, <1>2, <2>1 DEF OtaInv, NothingWritten
  <2>d. SelectedLast'
    BY <1>1, <1>2, <2>1 DEF OtaInv, SelectedLast
  <2>e. NoteIsEvidence'
    BY <1>1, <1>2, <2>1 DEF OtaInv, NoteIsEvidence, NotedFirst, Installing, NothingWritten, SelectedLast, Published
  <2> QED
    BY <2>a, <2>b, <2>c, <2>d, <2>e DEF OtaInv
<1> QED
  BY <1>3, <1>4

LEMMA OtaNextInv == OtaInv /\ [OtaNext]_otaVars => OtaInv'
<1> SUFFICES ASSUME OtaInv, [OtaNext]_otaVars
             PROVE  OtaInv'
  OBVIOUS
<1>0. ota \in OtaWorkers /\ shown \in OtaShown /\ noteKept \in BOOLEAN
      /\ (ota.step # "idle" => ota.of \in {"listing", "image"})
  BY DEF OtaInv, OtaTypeOK, OtaWorkers
<1>a. /\ "pausing" \in OtaSteps
      /\ "syncing" \in OtaSteps
      /\ "noting" \in OtaSteps
      /\ "opening" \in OtaSteps
      /\ "listing" \in OtaSteps
      /\ "erasing" \in OtaSteps
      /\ "reading" \in OtaSteps
      /\ "verifying" \in OtaSteps
      /\ "noting installed" \in OtaSteps
      /\ "rebooting" \in OtaSteps
  BY DEF OtaSteps
<1>1. CASE StartUpdate
  <2>1. ota' \in OtaWorkers /\ ota'.step = "pausing"
    BY <1>1, <1>a, WorkerStarts DEF StartUpdate
  <2>2. shown' \in OtaShown /\ shown'.written = 0 /\ ~(shown'.written > 0) /\ shown'.phase = "checking"
    BY <1>1 DEF StartUpdate, OtaShown
  <2>3. noted' = noted /\ noteKept' = noteKept /\ spare' = spare /\ spare # "selected"
    BY <1>1 DEF StartUpdate, NoNote
  <2>a. OtaTypeOK'
    BY <2>1, <2>2, <2>3, <1>0 DEF OtaInv, OtaTypeOK
  <2>b. NotedFirst'
    BY <2>1, <2>2, <2>3, <1>0 DEF OtaInv, NotedFirst, Installing
  <2>c. NothingWritten'
    BY <2>1, <2>2, <2>3, <1>0 DEF OtaInv, NothingWritten
  <2>d. SelectedLast'
    BY <2>1, <2>2, <2>3, <1>0 DEF OtaInv, SelectedLast
  <2>e. NoteIsEvidence'
    BY <2>1, <2>2, <2>3, <1>0 DEF OtaInv, NoteIsEvidence, NotedFirst, Installing, NothingWritten, SelectedLast, Published
  <2> QED
    BY <2>a, <2>b, <2>c, <2>d, <2>e DEF OtaInv
<1>2. CASE PauseStream
  <2>0. spare' = spare /\ received' = received /\ spare # "selected" /\ shown.written = 0
    BY <1>2 DEF PauseStream, OtaInv, SelectedLast, NothingWritten
  <2>1. CASE shown' = shown /\ NoNote /\ \E s \in {"syncing", "noting"} : ota' = [ota EXCEPT !.step = s]
    <3>1. ota' \in OtaWorkers /\ ota'.step \in {"syncing", "noting"}
      BY <2>1, <1>0, <1>2, <1>a, WorkerTo DEF PauseStream
    <3>a. OtaTypeOK'
      BY <2>0, <2>1, <3>1, <1>0 DEF NoNote, OtaInv, OtaTypeOK
    <3>b. NotedFirst'
      BY <2>0, <2>1, <3>1, <1>0 DEF NoNote, OtaInv, NotedFirst, Installing
    <3>c. NothingWritten'
      BY <2>0, <2>1, <3>1, <1>0 DEF NoNote, OtaInv, NothingWritten
    <3>d. SelectedLast'
      BY <2>0, <2>1, <3>1, <1>0 DEF NoNote, OtaInv, SelectedLast
    <3>e. NoteIsEvidence'
      BY <2>0, <2>1, <3>1, <1>0 DEF NoNote, OtaInv, NoteIsEvidence, NotedFirst, Installing, NothingWritten, SelectedLast, Published
    <3> QED
      BY <3>a, <3>b, <3>c, <3>d, <3>e DEF OtaInv
  <2>2. CASE ota' = OtaIdle /\ Show("failed") /\ (Note("failed") \/ NoNote)
    <3>1. ota' \in OtaWorkers /\ ota'.step = "idle"
      BY <2>2, IdleWorker
    <3>2. shown' \in OtaShown /\ shown'.written = 0 /\ ~(shown'.written > 0)
      BY <2>0, <2>2, <1>0, ShownStep
    <3>3. noteKept' \in BOOLEAN /\ (noteKept' => noted' = "failed" \/ (noteKept /\ noted' = noted))
      BY <2>2, <1>0, NotedAs DEF NoNote
    <3>a. OtaTypeOK'
      BY <2>0, <3>1, <3>2, <3>3 DEF OtaInv, OtaTypeOK
    <3>b. NotedFirst'
      BY <2>0, <3>1, <3>2, <3>3 DEF OtaInv, NotedFirst, Installing
    <3>c. NothingWritten'
      BY <2>0, <3>1, <3>2, <3>3 DEF OtaInv, NothingWritten
    <3>d. SelectedLast'
      BY <2>0, <3>1, <3>2, <3>3 DEF OtaInv, SelectedLast
    <3>e. NoteIsEvidence'
      BY <2>0, <3>1, <3>2, <3>3 DEF OtaInv, NoteIsEvidence, NotedFirst, Installing, NothingWritten, SelectedLast, Published
    <3> QED
      BY <3>a, <3>b, <3>c, <3>d, <3>e DEF OtaInv
  <2> QED
    BY <1>2, <2>1, <2>2 DEF PauseStream
<1>3. CASE SyncClock
  <2>0. /\ spare' = spare /\ received' = received /\ noted' = noted /\ noteKept' = noteKept
        /\ spare # "selected" /\ shown.written = 0 /\ ~(shown.written > 0)
    BY <1>3 DEF SyncClock, NoNote, OtaInv, SelectedLast, NothingWritten
  <2>1. ota' \in OtaWorkers /\ shown' \in OtaShown /\ shown'.written = 0 /\ ~(shown'.written > 0)
        /\ ((ota'.step = "opening" /\ ota'.of = "listing") \/ ota'.step \in {"noting", "idle"})
    BY <1>3, <1>0, <1>a, <2>0, WorkerTo, ShownStep, IdleWorker DEF SyncClock
  <2>a. OtaTypeOK'
    BY <2>0, <2>1 DEF OtaInv, OtaTypeOK
  <2>b. NotedFirst'
    BY <2>0, <2>1 DEF OtaInv, NotedFirst, Installing
  <2>c. NothingWritten'
    BY <2>0, <2>1 DEF OtaInv, NothingWritten
  <2>d. SelectedLast'
    BY <2>0, <2>1 DEF OtaInv, SelectedLast
  <2>e. NoteIsEvidence'
    BY <2>0, <2>1 DEF OtaInv, NoteIsEvidence, NotedFirst, Installing, NothingWritten, SelectedLast, Published
  <2> QED
    BY <2>a, <2>b, <2>c, <2>d, <2>e DEF OtaInv
<1>4. CASE NoteStart
  <2>0. /\ spare' = spare /\ received' = received /\ spare # "selected"
        /\ ota.step = "noting" /\ shown.written = 0 /\ ~(shown.written > 0)
    BY <1>4 DEF NoteStart, NoteFirst, OtaInv, SelectedLast, NothingWritten
  <2>1. /\ ota' \in OtaWorkers /\ ota'.step = "opening" /\ ota'.of = ota.of
        /\ shown' \in OtaShown /\ shown'.written = 0 /\ ~(shown'.written > 0)
        /\ noteKept' \in BOOLEAN /\ (noteKept' => noted' = "unfinished")
    BY <1>4, <2>0, <1>0, <1>a, WorkerTo, ShownStep, NotedAs DEF NoteStart, NoteFirst
<2>a. OtaTypeOK'
    BY <2>0, <2>1 DEF OtaInv, OtaTypeOK
  <2>b. NotedFirst'
    BY <2>0, <2>1 DEF OtaInv, NotedFirst, Installing
  <2>c. NothingWritten'
    BY <2>0, <2>1 DEF OtaInv, NothingWritten
  <2>d. SelectedLast'
    BY <2>0, <2>1 DEF OtaInv, SelectedLast
  <2>e. NoteIsEvidence'
    BY <2>0, <2>1 DEF OtaInv, NoteIsEvidence, NotedFirst, Installing, NothingWritten, SelectedLast, Published
  <2> QED
    BY <2>a, <2>b, <2>c, <2>d, <2>e DEF OtaInv
<1>5. CASE Open
  <2>0. spare' = spare /\ received' = received /\ spare # "selected" /\ ota.step = "opening"
    BY <1>5 DEF Open, OtaInv, SelectedLast
  <2>1. CASE Fail
    BY <2>0, <2>1, InstallFails, FetchFails, <1>0 DEF Fail
  <2>2. CASE ~Fail
    <3>1. /\ shown' = shown /\ noted' = noted /\ noteKept' = noteKept
          /\ ota' \in OtaWorkers /\ ota'.of = ota.of
          /\ \/ ota'.step = "opening"
             \/ ota.of = "listing" /\ ota'.step = "listing"
             \/ ota.of = "image" /\ ota'.step = "erasing"
      <4>1. CASE ota' = [ota EXCEPT !.hops = @ + 1] /\ UNCHANGED shown /\ NoNote
        <5>1. ota.hops + 1 \in Nat
          BY <1>0 DEF OtaWorkers
        <5> QED
          BY <4>1, <5>1, <1>0, <2>0, WorkerHops DEF NoNote
      <4>2. CASE /\ \E sized \in BOOLEAN :
                      ota' = [ota EXCEPT !.step = IF ota.of = "listing" THEN "listing" ELSE "erasing",
                                         !.sized = sized]
                 /\ UNCHANGED shown /\ NoNote
        BY <4>2, <1>0, <1>a, <2>0, WorkerSized DEF NoNote
      <4> QED
        BY <1>5, <2>2, <4>1, <4>2 DEF Open
    <3>a. OtaTypeOK'
      BY <2>0, <3>1, <1>0 DEF OtaInv, OtaTypeOK
    <3>b. NotedFirst'
      BY <2>0, <3>1, <1>0 DEF OtaInv, NotedFirst, Installing
    <3>c. NothingWritten'
      BY <2>0, <3>1, <1>0 DEF OtaInv, NothingWritten
    <3>d. SelectedLast'
      BY <2>0, <3>1, <1>0 DEF OtaInv, SelectedLast
    <3>e. NoteIsEvidence'
      BY <2>0, <3>1, <1>0 DEF OtaInv, NoteIsEvidence, NotedFirst, Installing, NothingWritten, SelectedLast, Published
    <3> QED
      BY <3>a, <3>b, <3>c, <3>d, <3>e DEF OtaInv
  <2> QED
    BY <2>1, <2>2
<1>6. CASE Listing
  <2>0. /\ spare' = spare /\ received' = received /\ spare # "selected" /\ ota.step = "listing"
        /\ shown.written = 0
    BY <1>6 DEF Listing, OtaInv, SelectedLast, NothingWritten
  <2>1. CASE Fail
    BY <2>0, <2>1, InstallFails, FetchFails, <1>0 DEF Fail
  <2>2. CASE ~Fail
    <3>1. ota' \in OtaWorkers /\ ota'.step \in {"idle", "noting"}
      BY <1>6, <2>2, <1>a, IdleWorker, WorkerStarts DEF Listing
    <3>2. shown' \in OtaShown /\ shown'.written = 0 /\ ~(shown'.written > 0) /\ noted' = noted /\ noteKept' = noteKept
      BY <1>0, <1>6, <2>0, <2>2, ShownStep DEF Listing, NoNote
    <3>a. OtaTypeOK'
      BY <2>0, <3>1, <3>2, <1>0 DEF OtaInv, OtaTypeOK
    <3>b. NotedFirst'
      BY <2>0, <3>1, <3>2, <1>0 DEF OtaInv, NotedFirst, Installing
    <3>c. NothingWritten'
      BY <2>0, <3>1, <3>2, <1>0 DEF OtaInv, NothingWritten
    <3>d. SelectedLast'
      BY <2>0, <3>1, <3>2, <1>0 DEF OtaInv, SelectedLast
    <3>e. NoteIsEvidence'
      BY <2>0, <3>1, <3>2, <1>0 DEF OtaInv, NoteIsEvidence, NotedFirst, Installing, NothingWritten, SelectedLast, Published
    <3> QED
      BY <3>a, <3>b, <3>c, <3>d, <3>e DEF OtaInv
  <2> QED
    BY <2>1, <2>2
<1>7. CASE EraseSlot
  <2>0. ota.step = "erasing" /\ ota.of = "image" /\ spare # "selected" /\ received' = received
        /\ (noteKept => noted = "unfinished")
    BY <1>7 DEF EraseSlot, OtaInv, SelectedLast, NotedFirst, Installing
  <2>1. CASE Fail /\ UNCHANGED spare
    BY <2>0, <2>1, InstallFails DEF Fail
  <2>2. CASE spare' = "written" /\ ota' = [ota EXCEPT !.step = "reading"] /\ UNCHANGED shown /\ NoNote
    <3>1. ota' \in OtaWorkers /\ ota'.step = "reading" /\ ota'.of = "image"
      BY <2>0, <2>2, <1>0, <1>a, WorkerTo
    <3>a. OtaTypeOK'
      BY <2>0, <2>2, <3>1, <1>0 DEF NoNote, OtaInv, OtaTypeOK
    <3>b. NotedFirst'
      BY <2>0, <2>2, <3>1, <1>0 DEF NoNote, OtaInv, NotedFirst, Installing
    <3>c. NothingWritten'
      BY <2>0, <2>2, <3>1, <1>0 DEF NoNote, OtaInv, NothingWritten
    <3>d. SelectedLast'
      BY <2>0, <2>2, <3>1, <1>0 DEF NoNote, OtaInv, SelectedLast
    <3>e. NoteIsEvidence'
      BY <2>0, <2>2, <3>1, <1>0 DEF NoNote, OtaInv, NoteIsEvidence, NotedFirst, Installing, NothingWritten, SelectedLast, Published
    <3> QED
      BY <3>a, <3>b, <3>c, <3>d, <3>e DEF OtaInv
  <2> QED
    BY <1>7, <2>1, <2>2 DEF EraseSlot
<1>8. CASE ReadImage
  <2>0. ota.step = "reading" /\ ota.of = "image" /\ spare # "selected" /\ spare' = spare
        /\ (noteKept => noted = "unfinished")
    BY <1>8 DEF ReadImage, OtaInv, SelectedLast, NotedFirst, Installing
  <2>1. CASE Fail /\ UNCHANGED received
    BY <2>0, <2>1, InstallFails DEF Fail
  <2>2. CASE ~(Fail /\ UNCHANGED received)
    <3>1. ota' \in OtaWorkers /\ ota'.step \in {"reading", "verifying"} /\ ota'.of = "image"
      BY <1>8, <2>0, <2>2, <1>0, <1>a, WorkerTo DEF ReadImage
    <3>2. shown' \in OtaShown /\ noted' = noted /\ noteKept' = noteKept
      BY <1>8, <2>2, <1>0, ShownStep, ChunkShown DEF ReadImage, NoNote
    <3>a. OtaTypeOK'
      BY <2>0, <3>1, <3>2, <1>0 DEF OtaInv, OtaTypeOK
    <3>b. NotedFirst'
      BY <2>0, <3>1, <3>2, <1>0 DEF OtaInv, NotedFirst, Installing
    <3>c. NothingWritten'
      BY <2>0, <3>1, <3>2, <1>0 DEF OtaInv, NothingWritten
    <3>d. SelectedLast'
      BY <2>0, <3>1, <3>2, <1>0 DEF OtaInv, SelectedLast
    <3>e. NoteIsEvidence'
      BY <2>0, <3>1, <3>2, <1>0 DEF OtaInv, NoteIsEvidence, NotedFirst, Installing, NothingWritten, SelectedLast, Published
    <3> QED
      BY <3>a, <3>b, <3>c, <3>d, <3>e DEF OtaInv
  <2> QED
    BY <2>1, <2>2
<1>9. CASE VerifyDigest
  <2>0. ota.step = "verifying" /\ ota.of = "image" /\ spare # "selected" /\ received' = received
    BY <1>9 DEF VerifyDigest, OtaInv, SelectedLast, NotedFirst, Installing
  <2>1. CASE Fail /\ UNCHANGED spare
    BY <2>0, <2>1, InstallFails DEF Fail
  <2>2. CASE /\ received = Published
             /\ spare' = "selected" /\ ota' = [ota EXCEPT !.step = "noting installed"]
             /\ UNCHANGED shown /\ NoNote
    <3>1. ota' \in OtaWorkers /\ ota'.step = "noting installed"
      BY <2>0, <2>2, <1>0, <1>a, WorkerTo
    <3>a. OtaTypeOK'
      BY <2>0, <2>2, <3>1, <1>0 DEF NoNote, OtaInv, OtaTypeOK
    <3>b. NotedFirst'
      BY <2>0, <2>2, <3>1, <1>0 DEF NoNote, OtaInv, NotedFirst, Installing
    <3>c. NothingWritten'
      BY <2>0, <2>2, <3>1, <1>0 DEF NoNote, OtaInv, NothingWritten
    <3>d. SelectedLast'
      BY <2>0, <2>2, <3>1, <1>0 DEF NoNote, OtaInv, SelectedLast
    <3>e. NoteIsEvidence'
      BY <2>0, <2>2, <3>1, <1>0 DEF NoNote, OtaInv, NoteIsEvidence, NotedFirst, Installing, NothingWritten, SelectedLast, Published
    <3> QED
      BY <3>a, <3>b, <3>c, <3>d, <3>e DEF OtaInv
  <2> QED
    BY <1>9, <2>1, <2>2 DEF VerifyDigest
<1>10. CASE NoteInstalled
  <2>1. ota' \in OtaWorkers /\ ota'.step = "rebooting"
    BY <1>10, <1>0, <1>a, WorkerTo DEF NoteInstalled
  <2>2. shown' \in OtaShown /\ noteKept' \in BOOLEAN /\ (noteKept' => noted' = "installed")
        /\ spare' = spare /\ received' = received
    BY <1>10, <1>0, ShownStep, NotedAs DEF NoteInstalled
  <2>a. OtaTypeOK'
    BY <1>10, <2>1, <2>2 DEF NoteInstalled, OtaInv, OtaTypeOK
  <2>b. NotedFirst'
    BY <1>10, <2>1, <2>2 DEF NoteInstalled, OtaInv, NotedFirst, Installing
  <2>c. NothingWritten'
    BY <1>10, <2>1, <2>2 DEF NoteInstalled, OtaInv, NothingWritten
  <2>d. SelectedLast'
    BY <1>10, <2>1, <2>2 DEF NoteInstalled, OtaInv, SelectedLast
  <2>e. NoteIsEvidence'
    BY <1>10, <2>1, <2>2 DEF NoteInstalled, OtaInv, NoteIsEvidence, NotedFirst, Installing, NothingWritten, SelectedLast, Published
  <2> QED
    BY <2>a, <2>b, <2>c, <2>d, <2>e DEF OtaInv
<1>11. CASE Stop
  <2>1. ota' \in OtaWorkers /\ ota'.step = "idle"
    BY <1>11, IdleWorker DEF Stop
  <2>2. shown' \in OtaShown /\ shown'.phase = "idle" /\ noted' = noted /\ noteKept' = noteKept
        /\ spare' # "selected" /\ (spare' = "written" => spare = "written")
    BY <1>11 DEF Stop, OtaShown, NoNote
  <2>a. OtaTypeOK'
    BY <1>0, <2>1, <2>2 DEF OtaInv, OtaTypeOK
  <2>b. NotedFirst'
    BY <1>0, <2>1, <2>2 DEF OtaInv, NotedFirst, Installing
  <2>c. NothingWritten'
    BY <1>0, <2>1, <2>2 DEF OtaInv, NothingWritten
  <2>d. SelectedLast'
    BY <1>0, <2>1, <2>2 DEF OtaInv, SelectedLast
  <2>e. NoteIsEvidence'
    BY <1>0, <2>1, <2>2 DEF OtaInv, NoteIsEvidence, NotedFirst, Installing, NothingWritten, SelectedLast, Published
  <2> QED
    BY <2>a, <2>b, <2>c, <2>d, <2>e DEF OtaInv
<1>12. CASE UNCHANGED otaVars
  BY <1>12 DEF otaVars, OtaInv, OtaTypeOK, NotedFirst, Installing, NothingWritten,
       SelectedLast, NoteIsEvidence, Published
<1> QED
  BY <1>1, <1>2, <1>3, <1>4, <1>5, <1>6, <1>7, <1>8, <1>9, <1>10, <1>11, <1>12 DEF OtaNext

\* A slot given up for an install has a note that speaks of that install, and
\* only the complete published image is selected (adapters/ota.rs).
THEOREM NotesTell == OtaSpec => []NoteIsEvidence
<1>1. OtaInv => NoteIsEvidence
  BY DEF OtaInv
<1> QED
  BY <1>1, OtaInitInv, OtaNextInv, PTL DEF OtaSpec

-----------------------------------------------------------------------------
(* The start of the device's threads: all of them or none.                 *)

TasksSpec == TasksInit /\ [][TasksNext]_taskVars

USE TasksAssumption

\* What each step of the start has made of the threads.
Threads(c, n) == thread["capture"] \in c /\ thread["network"] \in n

Started == {"told", "running"}

TasksTypeOK ==
  /\ thread \in [Engines -> {"none", "waiting", "told", "running", "gone"}]
  /\ starting \in {"capture", "network", "commit", "started", "failed"}

StartOrder ==
  /\ starting = "capture" => Threads({"none"}, {"none"})
  /\ starting = "network" => Targeted /\ Threads({"waiting"}, {"none"})
  /\ starting = "commit" =>
       Threads({"waiting"}, IF Targeted THEN {"waiting"} \cup Started ELSE {"none"})
  /\ starting = "started" => Threads(Started, IF Targeted THEN Started ELSE {"none"})
  /\ starting = "failed" => Threads({"none", "gone"}, {"none", "gone"})

Announced == thread["network"] # "none" => present

OnePress == lease <=> press # "none"

TasksInv == TasksTypeOK /\ StartOrder /\ Announced /\ OnePress

\* A thread that changes leaves the other as it was.
LEMMA ThreadSet ==
  ASSUME thread \in [Engines -> {"none", "waiting", "told", "running", "gone"}],
         NEW s \in {"none", "waiting", "told", "running", "gone"},
         NEW t \in Engines, thread' = [thread EXCEPT ![t] = s]
  PROVE  /\ thread' \in [Engines -> {"none", "waiting", "told", "running", "gone"}]
         /\ thread'[t] = s
         /\ t = "capture" => thread'["network"] = thread["network"]
         /\ t = "network" => thread'["capture"] = thread["capture"]
BY DEF Engines

LEMMA TasksInitInv == TasksInit => TasksInv
BY DEF TasksInit, TasksInv, TasksTypeOK, StartOrder, Announced, OnePress, Threads, Engines

LEMMA TasksNextInv == TasksInv /\ [TasksNext]_taskVars => TasksInv'
<1> SUFFICES ASSUME TasksInv, [TasksNext]_taskVars
             PROVE  TasksInv'
  OBVIOUS
<1> USE DEF Threads, Started
<1>0. "capture" \in Engines /\ "network" \in Engines
  BY DEF Engines
<1>1. CASE ReserveCapture
  <2>0. starting = "capture" /\ Threads({"none"}, {"none"})
        /\ present' = present /\ lease' = lease /\ press' = press
    BY <1>1 DEF ReserveCapture, TasksInv, StartOrder
  <2>1. CASE Reserve("capture") /\ starting' = IF Targeted THEN "network" ELSE "commit"
    <3>1. /\ thread' \in [Engines -> {"none", "waiting", "told", "running", "gone"}]
          /\ thread'["capture"] = "waiting" /\ thread'["network"] = "none"
      BY <1>0, <2>0, <2>1, ThreadSet DEF Reserve, TasksInv, TasksTypeOK
    <3> QED
      BY <2>0, <2>1, <3>1 DEF TasksInv, TasksTypeOK, StartOrder, Announced, OnePress
  <2>2. CASE starting' = "failed" /\ UNCHANGED thread
    BY <2>0, <2>2 DEF TasksInv, TasksTypeOK, StartOrder, Announced, OnePress
  <2> QED
    BY <1>1, <2>1, <2>2 DEF ReserveCapture
<1>2. CASE ReserveNetwork
  <2>0. starting = "network" /\ Targeted /\ Threads({"waiting"}, {"none"})
        /\ present' = TRUE /\ lease' = lease /\ press' = press
    BY <1>2 DEF ReserveNetwork, TasksInv, StartOrder
  <2>1. CASE Reserve("network") /\ starting' = "commit"
    <3>1. /\ thread' \in [Engines -> {"none", "waiting", "told", "running", "gone"}]
          /\ thread'["capture"] = "waiting" /\ thread'["network"] = "waiting"
      BY <1>0, <2>0, <2>1, ThreadSet DEF Reserve, TasksInv, TasksTypeOK
    <3> QED
      BY <2>0, <2>1, <3>1 DEF TasksInv, TasksTypeOK, StartOrder, Announced, OnePress
  <2>2. CASE DropReserved /\ starting' = "failed"
    <3>1. /\ thread' \in [Engines -> {"none", "waiting", "told", "running", "gone"}]
          /\ thread'["capture"] = "gone" /\ thread'["network"] = "none"
      BY <1>0, <2>0, <2>2 DEF DropReserved, TasksInv, TasksTypeOK
    <3> QED
      BY <2>0, <2>2, <3>1 DEF TasksInv, TasksTypeOK, StartOrder, Announced, OnePress
  <2> QED
    BY <1>2, <2>1, <2>2 DEF ReserveNetwork
<1>3. CASE Commit
  <2>0. starting = "commit" /\ present' = present /\ lease' = lease /\ press' = press
        /\ Threads({"waiting"}, IF Targeted THEN {"waiting"} \cup Started ELSE {"none"})
    BY <1>3 DEF Commit, CommitOf, TasksInv, StartOrder
  <2>1. CASE CommitOf("network")
    <3>1. /\ thread' \in [Engines -> {"none", "waiting", "told", "running", "gone"}]
          /\ thread'["capture"] = "waiting" /\ thread'["network"] = "told" /\ starting' = "commit"
          /\ thread["network"] = "waiting"
      BY <1>0, <2>0, <2>1, ThreadSet DEF CommitOf, TasksInv, TasksTypeOK
    <3> QED
      BY <2>0, <3>1 DEF TasksInv, TasksTypeOK, StartOrder, Announced, OnePress
  <2>2. CASE thread["network"] # "waiting" /\ CommitOf("capture")
    <3>1. /\ thread' \in [Engines -> {"none", "waiting", "told", "running", "gone"}]
          /\ thread'["capture"] = "told" /\ thread'["network"] = thread["network"]
          /\ starting' = "started"
      BY <1>0, <2>0, <2>2, ThreadSet DEF CommitOf, TasksInv, TasksTypeOK
    <3> QED
      BY <2>0, <2>2, <3>1 DEF TasksInv, TasksTypeOK, StartOrder, Announced, OnePress
  <2> QED
    BY <1>3, <2>1, <2>2 DEF Commit
<1>4. ASSUME NEW t \in Engines, Run(t)
      PROVE  TasksInv'
  <2>1. /\ thread' \in [Engines -> {"none", "waiting", "told", "running", "gone"}]
        /\ thread[t] = "told" /\ thread'[t] = "running" /\ t \in {"capture", "network"}
        /\ t = "capture" => thread'["network"] = thread["network"]
        /\ t = "network" => thread'["capture"] = thread["capture"]
        /\ UNCHANGED <<starting, present, lease, press>>
    BY <1>4, ThreadSet DEF Run, TasksInv, TasksTypeOK, Engines
  <2> QED
    BY <2>1 DEF TasksInv, TasksTypeOK, StartOrder, Announced, OnePress
<1>5. CASE PressButton
  BY <1>5 DEF PressButton, TasksInv, TasksTypeOK, StartOrder, Announced, OnePress
<1>6. CASE ActOnPress
  BY <1>6 DEF ActOnPress, TasksInv, TasksTypeOK, StartOrder, Announced, OnePress
<1>7. CASE PressEnds
  BY <1>7 DEF PressEnds, TasksInv, TasksTypeOK, StartOrder, Announced, OnePress
<1>8. CASE UNCHANGED taskVars
  BY <1>8 DEF taskVars, TasksInv, TasksTypeOK, StartOrder, Announced, OnePress
<1> QED
  BY <1>1, <1>2, <1>3, <1>4, <1>5, <1>6, <1>7, <1>8 DEF TasksNext

\* The engines start together or not at all (runtime.rs, task_start.rs).
THEOREM StartedWhole == TasksSpec => []StartsWhole
<1>1. TasksInv => StartsWhole
  BY DEF TasksInv, TasksTypeOK, StartOrder, Announced, OnePress, StartsWhole, Threads, Started,
         Engines, Needed
<1> QED
  BY <1>1, TasksInitInv, TasksNextInv, PTL DEF TasksSpec

HIDE TasksAssumption

-----------------------------------------------------------------------------
(* The flash dump in the body of a response.                               *)

BodySpec == BodyInit /\ [][BodyNext]_bodyVars

\* The bytes of the dump behind place a, in order.
Follows(s, a) == s \in Seq(Nat) /\ \A i \in 1 .. Len(s) : s[i] = a + i

LEMMA FollowsNone ==
  ASSUME NEW a \in Nat
  PROVE  Follows(<<>>, a)
BY DEF Follows

LEMMA FollowsOn ==
  ASSUME NEW a \in Nat, NEW s, NEW t, Follows(s, a), Follows(t, a + Len(s))
  PROVE  Follows(s \o t, a) /\ Len(s \o t) = Len(s) + Len(t)
<1>1. s \in Seq(Nat) /\ t \in Seq(Nat) /\ Len(s) \in Nat /\ Len(t) \in Nat
  BY DEF Follows
<1>2. s \o t \in Seq(Nat) /\ Len(s \o t) = Len(s) + Len(t)
  BY <1>1
<1>3. ASSUME NEW i \in 1 .. Len(s \o t)
      PROVE  (s \o t)[i] = a + i
  <2>1. CASE i <= Len(s)
    <3>1. i \in 1 .. Len(s) /\ (s \o t)[i] = s[i]
      BY <1>1, <1>2, <2>1
    <3> QED
      BY <3>1 DEF Follows
  <2>2. CASE i > Len(s)
    <3>1. i - Len(s) \in 1 .. Len(t) /\ (s \o t)[i] = t[i - Len(s)]
      BY <1>1, <1>2, <2>2
    <3>2. t[i - Len(s)] = a + Len(s) + (i - Len(s))
      BY <3>1 DEF Follows
    <3> QED
      BY <1>1, <3>1, <3>2
  <2> QED
    BY <1>1, <2>1, <2>2
<1> QED
  BY <1>2, <1>3 DEF Follows

LEMMA FollowsPart ==
  ASSUME NEW a \in Nat, NEW s, Follows(s, a), NEW n \in 0 .. Len(s)
  PROVE  /\ Follows(SubSeq(s, 1, n), a) /\ Len(SubSeq(s, 1, n)) = n
         /\ Follows(SubSeq(s, n + 1, Len(s)), a + n)
         /\ Len(SubSeq(s, n + 1, Len(s))) = Len(s) - n
<1>1. s \in Seq(Nat) /\ Len(s) \in Nat /\ n \in Nat /\ n <= Len(s)
      /\ \A i \in 1 .. Len(s) : s[i] = a + i
  BY DEF Follows
<1>2. SubSeq(s, 1, n) \in Seq(Nat) /\ Len(SubSeq(s, 1, n)) = n
      /\ \A i \in 1 .. n : SubSeq(s, 1, n)[i] = s[i]
  BY <1>1
<1>3. SubSeq(s, n + 1, Len(s)) \in Seq(Nat) /\ Len(SubSeq(s, n + 1, Len(s))) = Len(s) - n
      /\ \A i \in 1 .. Len(s) - n : SubSeq(s, n + 1, Len(s))[i] = s[n + i]
  BY <1>1
<1>4. Follows(SubSeq(s, 1, n), a)
  BY <1>1, <1>2 DEF Follows
<1>5. Follows(SubSeq(s, n + 1, Len(s)), a + n)
  <2>1. \A i \in 1 .. Len(s) - n : n + i \in 1 .. Len(s)
    BY <1>1
  <2>2. \A i \in 1 .. Len(s) - n : SubSeq(s, n + 1, Len(s))[i] = a + n + i
    BY <1>1, <1>3, <2>1
  <2> QED
    BY <1>3, <2>2 DEF Follows
<1> QED
  BY <1>2, <1>3, <1>4, <1>5

LEMMA Joined ==
  ASSUME NEW s \in Seq(Nat), NEW t \in Seq(Nat)
  PROVE  /\ s \o t \in Seq(Nat) /\ Len(s \o t) = Len(s) + Len(t)
         /\ Len(s) \in Nat /\ Len(t) \in Nat
         /\ \A i \in 1 .. Len(s) : (s \o t)[i] = s[i]
         /\ \A i \in 1 .. Len(t) : (s \o t)[Len(s) + i] = t[i]
OBVIOUS

LEMMA Tailed ==
  ASSUME NEW s \in Seq(Nat), NEW k \in 0 .. Len(s)
  PROVE  /\ SubSeq(s, k + 1, Len(s)) \in Seq(Nat)
         /\ Len(SubSeq(s, k + 1, Len(s))) = Len(s) - k
         /\ \A i \in 1 .. Len(s) - k : SubSeq(s, k + 1, Len(s))[i] = s[k + i]
OBVIOUS

LEMMA SameSequence ==
  ASSUME NEW s \in Seq(Nat), NEW t \in Seq(Nat), Len(s) = Len(t),
         \A i \in 1 .. Len(s) : s[i] = t[i]
  PROVE  s = t
OBVIOUS

\* What is left of a sequence when another is appended to it.
LEMMA RestOn ==
  ASSUME NEW s \in Seq(Nat), NEW t \in Seq(Nat), NEW k \in 0 .. Len(s)
  PROVE  SubSeq(s \o t, k + 1, Len(s \o t)) = SubSeq(s, k + 1, Len(s)) \o t
<1> DEFINE u == s \o t
           v == SubSeq(s, k + 1, Len(s))
           l == SubSeq(u, k + 1, Len(u))
           r == v \o t
<1>1. /\ u \in Seq(Nat) /\ Len(u) = Len(s) + Len(t) /\ Len(s) \in Nat /\ Len(t) \in Nat
      /\ \A i \in 1 .. Len(s) : u[i] = s[i]
      /\ \A i \in 1 .. Len(t) : u[Len(s) + i] = t[i]
  BY Joined
<1>2. /\ v \in Seq(Nat) /\ Len(v) = Len(s) - k
      /\ \A i \in 1 .. Len(s) - k : v[i] = s[k + i]
  BY Tailed
<1> HIDE DEF u, v
<1>3. /\ l \in Seq(Nat) /\ Len(l) = Len(u) - k
      /\ \A i \in 1 .. Len(u) - k : l[i] = u[k + i]
  BY <1>1, Tailed
<1>4. /\ r \in Seq(Nat) /\ Len(r) = Len(v) + Len(t)
      /\ \A i \in 1 .. Len(v) : r[i] = v[i]
      /\ \A i \in 1 .. Len(t) : r[Len(v) + i] = t[i]
  BY <1>1, <1>2, Joined
<1> HIDE DEF l, r
<1>5. ASSUME NEW i \in 1 .. Len(l)
      PROVE  l[i] = r[i]
  <2>1. CASE i <= Len(s) - k
    <3>0. /\ Len(s) \in Nat /\ Len(t) \in Nat /\ Len(u) = Len(s) + Len(t)
          /\ Len(v) = Len(s) - k /\ Len(l) = Len(u) - k
      BY <1>1, <1>2, <1>3
    <3>1. i \in 1 .. Len(s) - k /\ k + i \in 1 .. Len(s) /\ i \in 1 .. Len(u) - k
          /\ i \in 1 .. Len(v)
      BY <2>1, <3>0
    <3> QED
      BY <1>1, <1>2, <1>3, <1>4, <3>1
  <2>2. CASE i > Len(s) - k
    <3> DEFINE j == i - (Len(s) - k)
    <3>1. j \in 1 .. Len(t) /\ k + i = Len(s) + j /\ i = Len(v) + j /\ i \in 1 .. Len(u) - k
      BY <1>1, <1>2, <1>3, <2>2
    <3> HIDE DEF j
    <3> QED
      BY <1>1, <1>3, <1>4, <3>1
  <2> QED
    BY <1>1, <2>1, <2>2
<1>6. Len(l) = Len(r)
  BY <1>1, <1>2, <1>3, <1>4
<1>7. l = r
  BY <1>3, <1>4, <1>5, <1>6, SameSequence
<1> QED
  BY <1>7 DEF u, v, l, r

-----------------------------------------------------------------------------
BodyTypeOK ==
  /\ dump \in [at : Nat, size : Nat] /\ offset \in Nat
  /\ buffer \in Seq(Nat) /\ start \in 0 .. Len(buffer)

\* The connection took the dump from its start.
SentFromStart == Follows(sent, 0) /\ Len(sent) <= dump.size

\* What is buffered follows it, and what is pending follows that.
RestInOrder ==
  step \in {"sending", "done"} =>
    /\ Follows(Unsent, Len(sent))
    /\ Follows(pending, Len(sent) + Len(Unsent))
    /\ offset = Len(sent) + Len(Unsent) + Len(pending)
    /\ offset <= dump.size

AllSent == step = "done" => Len(sent) = dump.size

BodyInv == BodyTypeOK /\ SentFromStart /\ RestInOrder /\ AllSent

USE BodyAssumption

LEMMA BodyInitInv == BodyInit => BodyInv
<1> SUFFICES ASSUME BodyInit
             PROVE  BodyInv
  OBVIOUS
<1>1. BodyTypeOK /\ AllSent /\ RestInOrder
  BY DEF BodyInit, BodyTypeOK, RestInOrder, AllSent
<1>2. SentFromStart
  BY FollowsNone DEF BodyInit, SentFromStart
<1> QED
  BY <1>1, <1>2 DEF BodyInv

LEMMA DownloadInv ==
  ASSUME BodyInv, Download
  PROVE  BodyInv'
<1>0. dump' \in [at : Headers, size : DumpSizes] /\ step' = IF Fits(dump') THEN "sending" ELSE "failed"
  BY DEF Download
<1>1. /\ dump' \in [at : Nat, size : Nat] /\ step' \in {"sending", "failed"}
      /\ offset' = 0 /\ start' = 0 /\ pending' = <<>> /\ buffer' = <<>> /\ sent' = <<>>
  <2>1. dump' \in [at : Nat, size : Nat]
    BY <1>0
  <2>2. step' \in {"sending", "failed"}
    BY <1>0, Zenon
  <2> QED
    BY <2>1, <2>2 DEF Download
<1>2. Follows(<<>>, 0) /\ Len(<<>>) = 0 /\ SubSeq(<<>>, 1, 0) = <<>>
  BY FollowsNone
<1>3. Unsent' = <<>>
  BY <1>1, <1>2 DEF Unsent
<1>4. dump'.size \in Nat /\ dump'.size >= 0
  BY <1>1
<1>5. BodyTypeOK'
  BY <1>1 DEF BodyTypeOK
<1>6. SentFromStart'
  BY <1>1, <1>2, <1>4 DEF SentFromStart
<1>7. RestInOrder'
  BY <1>1, <1>2, <1>3, <1>4 DEF RestInOrder
<1>8. AllSent'
  BY <1>1 DEF AllSent
<1> QED
  BY <1>5, <1>6, <1>7, <1>8 DEF BodyInv

\* While a dump is sent, the parts are where they should be.
Parts ==
  /\ dump \in [at : Nat, size : Nat] /\ dump.size \in Nat /\ offset \in Nat
  /\ buffer \in Seq(Nat) /\ Len(buffer) \in Nat /\ start \in 0 .. Len(buffer)
  /\ Follows(sent, 0) /\ Len(sent) \in Nat
  /\ Follows(Unsent, Len(sent)) /\ Len(Unsent) = Len(buffer) - start
  /\ Follows(pending, Len(sent) + Len(Unsent)) /\ Len(pending) \in Nat
  /\ offset = Len(sent) + Len(Unsent) + Len(pending)
  /\ offset <= dump.size

LEMMA SendingParts ==
  ASSUME BodyInv, step = "sending"
  PROVE  Parts
<1>1. buffer \in Seq(Nat) /\ Len(buffer) \in Nat /\ start \in 0 .. Len(buffer)
      /\ dump \in [at : Nat, size : Nat] /\ offset \in Nat
  BY DEF BodyInv, BodyTypeOK
<1>2. Len(Unsent) = Len(buffer) - start
  BY <1>1 DEF Unsent
<1>3. Len(sent) \in Nat /\ Len(pending) \in Nat
  BY DEF BodyInv, SentFromStart, RestInOrder, Follows
<1> QED
  BY <1>1, <1>2, <1>3 DEF BodyInv, SentFromStart, RestInOrder, Parts

\* Everything buffered is taken.
LEMMA AllTaken ==
  ASSUME Parts
  PROVE  /\ Follows(sent \o Unsent, 0) /\ Len(sent \o Unsent) = Len(sent) + Len(Unsent)
         /\ Len(Unsent) \in Nat
<1>1. Follows(sent, 0) /\ Follows(Unsent, 0 + Len(sent)) /\ Len(Unsent) \in Nat
  BY DEF Parts, Follows
<1> QED
  BY <1>1, FollowsOn

\* Part of what is buffered is taken.
LEMMA SomeTaken ==
  ASSUME Parts, NEW taken \in Takes(Unsent)
  PROVE  /\ Follows(sent \o taken, 0) /\ Len(sent \o taken) <= dump.size
         /\ Len(taken) \in 0 .. Len(buffer) - start
<1>1. PICK n \in 0 .. Len(Unsent) : taken = SubSeq(Unsent, 1, n)
  BY DEF Takes
<1>2. Len(sent) \in Nat /\ Follows(sent, 0) /\ Follows(Unsent, Len(sent)) /\ Len(Unsent) \in Nat
      /\ Len(Unsent) = Len(buffer) - start /\ Len(pending) \in Nat
      /\ Len(sent) + Len(Unsent) + Len(pending) <= dump.size /\ dump.size \in Nat
  BY DEF Parts, Follows
<1>3. Follows(taken, Len(sent)) /\ Len(taken) = n
  BY <1>1, <1>2, FollowsPart
<1>4. Follows(taken, 0 + Len(sent))
  BY <1>2, <1>3
<1>5. Follows(sent \o taken, 0) /\ Len(sent \o taken) = Len(sent) + n
  BY <1>2, <1>3, <1>4, FollowsOn, SMTT(30)
<1> QED
  BY <1>1, <1>2, <1>3, <1>5

\* Part of what is pending follows what was drained.
LEMMA PendingTaken ==
  ASSUME Parts, NEW taken \in Takes(pending), NEW m, Follows(m, 0),
         Len(m) = Len(sent) + Len(Unsent)
  PROVE  /\ Follows(m \o taken, 0)
         /\ Len(m \o taken) = Len(m) + Len(taken)
         /\ Len(taken) \in 0 .. Len(pending)
         /\ Follows(Rest(pending, taken), Len(m \o taken))
         /\ Len(Rest(pending, taken)) = Len(pending) - Len(taken)
<1>1. PICK n \in 0 .. Len(pending) : taken = SubSeq(pending, 1, n)
  BY DEF Takes
<1>2. Len(m) \in Nat /\ Follows(pending, Len(m)) /\ Len(pending) \in Nat
  BY DEF Parts, Follows
<1>3. /\ Follows(taken, Len(m)) /\ Len(taken) = n
      /\ Follows(SubSeq(pending, n + 1, Len(pending)), Len(m) + n)
      /\ Len(SubSeq(pending, n + 1, Len(pending))) = Len(pending) - n
  BY <1>1, <1>2, FollowsPart
<1>4. Follows(taken, 0 + Len(m))
  BY <1>2, <1>3
<1>5. Follows(m \o taken, 0) /\ Len(m \o taken) = Len(m) + Len(taken)
  BY <1>4, FollowsOn
<1> QED
  BY <1>1, <1>2, <1>3, <1>5 DEF Rest

\* A step that goes on sending.
LEMMA GoesOn ==
  ASSUME Parts', step' = "sending"
  PROVE  BodyInv'
<1>1. BodyTypeOK'
  BY DEF Parts, BodyTypeOK
<1>2. SentFromStart'
  <2>1. Len(sent)' \in Nat /\ Len(Unsent)' \in Nat /\ Len(pending)' \in Nat
    BY DEF Parts, Follows
  <2> QED
    BY <2>1 DEF Parts, SentFromStart
<1>3. RestInOrder'
  BY DEF Parts, RestInOrder
<1>4. AllSent'
  BY DEF AllSent
<1> QED
  BY <1>1, <1>2, <1>3, <1>4 DEF BodyInv

\* A step after which nothing more is sent.
LEMMA EndsEarly ==
  ASSUME step' \notin {"sending", "done"}, BodyTypeOK', SentFromStart'
  PROVE  BodyInv'
BY DEF BodyInv, RestInOrder, AllSent

LEMMA ReadFlashInv ==
  ASSUME BodyInv, ReadFlash
  PROVE  BodyInv'
<1>1. /\ step = "sending" /\ pending = <<>> /\ offset < dump.size
      /\ UNCHANGED <<dump, buffer, start, sent>>
  BY DEF ReadFlash
<1>2. Parts
  BY <1>1, SendingParts
<1>3. Unsent' = Unsent
  BY <1>1 DEF Unsent
<1>4. CASE pending' = Chunk /\ offset' = offset + Len(Chunk) /\ step' = step
  <2> DEFINE n == IF dump.size - offset < ChunkBytes THEN dump.size - offset ELSE ChunkBytes
  <2>1. offset \in Nat /\ dump.size \in Nat /\ n \in Nat /\ offset + n <= dump.size
    BY <1>1, <1>2 DEF Parts
  <2>2. Chunk = [i \in 1 .. n |-> offset + i]
    BY DEF Chunk
  <2> HIDE DEF n
  <2>3. Chunk \in Seq(Nat) /\ Len(Chunk) = n /\ \A i \in 1 .. n : Chunk[i] = offset + i
    BY <2>1, <2>2
  <2>4. Follows(Chunk, offset)
    BY <2>3 DEF Follows
  <2>5. offset = Len(sent) + Len(Unsent) /\ Len(sent) \in Nat /\ Len(Unsent) \in Nat
    BY <1>1, <1>2 DEF Parts, Follows
  <2>6. /\ Follows(pending', Len(sent') + Len(Unsent')) /\ Len(pending') = n /\ n \in Nat
        /\ offset' = Len(sent') + Len(Unsent') + n /\ offset' \in Nat /\ offset' <= dump'.size
    BY <1>1, <1>3, <1>4, <2>1, <2>3, <2>4, <2>5
  <2>7. Parts'
    BY <1>1, <1>2, <1>3, <2>6 DEF Parts
  <2> QED
    BY <1>1, <1>4, <2>7, GoesOn
<1>5. CASE step' = "failed" /\ UNCHANGED <<pending, offset>>
  BY <1>1, <1>5, EndsEarly DEF BodyInv, BodyTypeOK, SentFromStart
<1> QED
  BY <1>4, <1>5 DEF ReadFlash

LEMMA WriteBodyInv ==
  ASSUME BodyInv, WriteBody
  PROVE  BodyInv'
<1>1. step = "sending" /\ step' = "sending" /\ dump' = dump /\ offset' = offset
  BY DEF WriteBody
<1>2. Parts
  BY <1>1, SendingParts
<1>3. /\ dump \in [at : Nat, size : Nat] /\ dump.size \in Nat /\ offset \in Nat /\ offset <= dump.size
      /\ buffer \in Seq(Nat) /\ Len(buffer) \in Nat /\ start \in 0 .. Len(buffer)
      /\ Len(sent) \in Nat /\ Len(Unsent) \in Nat /\ Len(pending) \in Nat /\ pending \in Seq(Nat)
      /\ Len(Unsent) = Len(buffer) - start
      /\ Follows(pending, Len(sent) + Len(Unsent)) /\ Follows(Unsent, Len(sent)) /\ Follows(sent, 0)
      /\ offset = Len(sent) + Len(Unsent) + Len(pending)
  BY <1>2 DEF Parts, Follows
<1>4. Len(<<>>) = 0 /\ <<>> \in Seq(Nat) /\ SubSeq(<<>>, 1, 0) = <<>>
      /\ \A n \in Nat : Follows(<<>>, n)
  BY FollowsNone
<1>5. CASE WriteBuffered
  <2>1. pending' = <<>>
    BY <1>5 DEF WriteBuffered
  <2>2. CASE MustDrain(pending)
    <3>1. buffer' = <<>> \o pending /\ start' = 0 /\ sent' = sent \o Unsent
      BY <1>5, <2>2 DEF WriteBuffered, Drained
    <3>2. buffer' = pending
      BY <1>3, <3>1
    <3>3. Unsent' = pending
      BY <1>3, <3>1, <3>2 DEF Unsent
    <3>4. Follows(sent', 0) /\ Len(sent') = Len(sent) + Len(Unsent)
      BY <1>2, <3>1, AllTaken
    <3>5. Len(sent') + Len(pending) \in Nat /\ Follows(pending', Len(sent') + Len(pending))
      BY <1>3, <1>4, <2>1, <3>4
    <3>6. Parts'
      BY <1>1, <1>3, <1>4, <2>1, <3>1, <3>2, <3>3, <3>4, <3>5 DEF Parts
    <3> QED
      BY <1>1, <3>6, GoesOn
  <2>3. CASE ~MustDrain(pending)
    <3>1. buffer' = buffer \o pending /\ start' = start /\ sent' = sent \o <<>>
      BY <1>5, <2>3 DEF WriteBuffered, Drained
    <3>2. sent' = sent
      BY <1>3, <3>1 DEF Follows
    <3>3. Unsent' = Unsent \o pending
      BY <1>3, <3>1, RestOn DEF Unsent
    <3>4. Follows(Unsent \o pending, Len(sent)) /\ Len(Unsent \o pending) = Len(Unsent) + Len(pending)
      <4>1. Len(sent) \in Nat /\ Follows(Unsent, Len(sent)) /\ Follows(pending, Len(sent) + Len(Unsent))
        BY <1>3
      <4> QED
        BY <4>1, FollowsOn
    <3>5. buffer' \in Seq(Nat) /\ Len(buffer') = Len(buffer) + Len(pending)
      BY <1>3, <3>1
    <3>6. Follows(pending', Len(sent) + Len(Unsent \o pending))
      BY <1>3, <1>4, <2>1, <3>4
    <3>7. Parts'
      BY <1>1, <1>3, <1>4, <2>1, <3>1, <3>2, <3>3, <3>4, <3>5, <3>6 DEF Parts
    <3> QED
      BY <1>1, <3>7, GoesOn
  <2> QED
    BY <2>2, <2>3
<1>6. CASE WriteLarge
  <2>1. PICK taken \in Takes(pending) :
          sent' = sent \o Drained(pending) \o taken /\ pending' = Rest(pending, taken)
    BY <1>6 DEF WriteLarge
  <2> DEFINE m == sent \o Drained(pending)
  <2>2. Len(pending) >= BufferBytes
    BY <1>6 DEF WriteLarge
  <2>3. /\ Follows(m, 0) /\ Len(m) = Len(sent) + Len(Unsent)
        /\ Unsent' = <<>> /\ buffer' = <<>> /\ start' = 0
    <3>1. CASE MustDrain(pending)
      <4>1. buffer' = <<>> /\ start' = 0 /\ m = sent \o Unsent
        BY <1>6, <3>1 DEF WriteLarge, Drained
      <4>2. Unsent' = <<>>
        BY <1>4, <4>1 DEF Unsent
      <4> QED
        BY <1>2, <4>1, <4>2, AllTaken
    <3>2. CASE ~MustDrain(pending)
      <4>1. Len(buffer) = 0 /\ start = 0 /\ Len(Unsent) = 0
        BY <1>3, <2>2, <3>2 DEF MustDrain
      <4>2. buffer = <<>>
        BY <1>3, <4>1
      <4>3. buffer' = <<>> /\ start' = 0
        BY <1>6, <3>2, <4>1, <4>2 DEF WriteLarge
      <4>4. m = sent \o <<>>
        BY <3>2 DEF Drained
      <4>5. m = sent
        BY <1>3, <4>4 DEF Follows
      <4>6. Unsent' = <<>>
        BY <1>4, <4>3 DEF Unsent
      <4> QED
        BY <1>3, <4>1, <4>3, <4>5, <4>6
    <3> QED
      BY <3>1, <3>2
  <2> HIDE DEF m
  <2>4. sent' = m \o taken
    BY <2>1 DEF m
  <2>5. /\ Follows(sent', 0) /\ Len(sent') = Len(m) + Len(taken) /\ Len(taken) \in 0 .. Len(pending)
        /\ Follows(pending', Len(sent')) /\ Len(pending') = Len(pending) - Len(taken)
    BY <1>2, <2>1, <2>3, <2>4, PendingTaken
  <2>6. Len(m) \in Nat /\ Len(sent') \in Nat /\ Len(pending') \in Nat
        /\ Len(sent') + Len(pending') = offset /\ Len(sent') + 0 = Len(sent')
    BY <1>3, <2>3, <2>5
  <2>7. Parts'
    BY <1>1, <1>3, <1>4, <2>3, <2>5, <2>6 DEF Parts
  <2> QED
    BY <1>1, <2>7, GoesOn
<1> QED
  BY <1>5, <1>6 DEF WriteBody, BufferedWrite

\* Draining part of the buffer before giving up keeps what was sent in order.
LEMMA DrainInv ==
  ASSUME BodyInv, step = "sending", NEW taken \in Takes(Unsent), Drain(taken), dump' = dump,
         offset' = offset
  PROVE  BodyTypeOK' /\ SentFromStart'
<1>1. Parts
  BY SendingParts
<1>2. /\ Follows(sent', 0) /\ Len(sent') <= dump.size
      /\ Len(taken) \in 0 .. Len(buffer) - start
  BY <1>1, SomeTaken DEF Drain
<1>3. buffer \in Seq(Nat) /\ Len(buffer) \in Nat /\ start \in 0 .. Len(buffer)
  BY <1>1 DEF Parts
<1>4. buffer' \in Seq(Nat) /\ start' \in 0 .. Len(buffer')
  <2>1. CASE taken = Unsent
    <3>1. buffer' = <<>> /\ start' = 0
      BY <2>1 DEF Drain
    <3> QED
      BY <3>1
  <2>2. CASE taken # Unsent
    <3>1. buffer' = buffer /\ start' = start + Len(taken)
      BY <2>2 DEF Drain
    <3> QED
      BY <1>2, <1>3, <3>1
  <2> QED
    BY <2>1, <2>2
<1> QED
  BY <1>2, <1>4 DEF BodyInv, BodyTypeOK, SentFromStart

LEMMA WriteFailsInv ==
  ASSUME BodyInv, BodyWriteFails
  PROVE  BodyInv'
<1>1. step = "sending" /\ step' = "failed" /\ dump' = dump /\ offset' = offset
  BY DEF BodyWriteFails, GiveUp
<1>2. BodyTypeOK' /\ SentFromStart'
  <2>1. CASE UNCHANGED <<buffer, start, sent>>
    BY <1>1, <2>1 DEF BodyInv, BodyTypeOK, SentFromStart
  <2>2. CASE \E taken \in Takes(Unsent) : Drain(taken)
    BY <1>1, <2>2, DrainInv
  <2> QED
    BY <2>1, <2>2 DEF BodyWriteFails
<1> QED
  BY <1>1, <1>2, EndsEarly

LEMMA FlushInv ==
  ASSUME BodyInv, Flush
  PROVE  BodyInv'
<1>1. step = "sending" /\ pending = <<>> /\ offset = dump.size
  BY DEF Flush
<1>2. CASE Drain(Unsent) /\ step' = "done" /\ UNCHANGED <<dump, offset, pending>>
  <2>1. Parts
    BY <1>1, SendingParts
  <2>2. sent' = sent \o Unsent /\ buffer' = <<>> /\ start' = 0
    BY <1>2 DEF Drain
  <2>3. Follows(sent', 0) /\ Len(sent') = Len(sent) + Len(Unsent) /\ Len(sent') \in Nat
    BY <2>1, <2>2, AllTaken DEF Follows
  <2>4. Unsent' = <<>> /\ Len(<<>>) = 0
    BY <2>2 DEF Unsent
  <2>5. Len(sent') = dump.size /\ dump.size \in Nat /\ dump \in [at : Nat, size : Nat]
    BY <1>1, <2>1, <2>3, <2>4 DEF Parts, Follows
  <2>6. Follows(<<>>, Len(sent')) /\ Follows(<<>>, Len(sent') + 0)
    BY <2>3, FollowsNone
  <2>7. BodyTypeOK'
    BY <1>1, <1>2, <2>2, <2>5 DEF BodyTypeOK
  <2>8. SentFromStart'
    BY <1>2, <2>3, <2>5 DEF SentFromStart
  <2>9. RestInOrder'
    BY <1>1, <1>2, <2>3, <2>4, <2>5, <2>6 DEF RestInOrder
  <2>10. AllSent'
    BY <1>2, <2>5 DEF AllSent
  <2> QED
    BY <2>7, <2>8, <2>9, <2>10 DEF BodyInv
<1>3. CASE (\E taken \in Takes(Unsent) : Drain(taken)) /\ GiveUp
  <2>1. BodyTypeOK' /\ SentFromStart' /\ step' = "failed"
    BY <1>1, <1>3, DrainInv DEF GiveUp
  <2> QED
    BY <2>1, EndsEarly
<1> QED
  BY <1>2, <1>3 DEF Flush

LEMMA BodyNextInv == BodyInv /\ [BodyNext]_bodyVars => BodyInv'
<1> SUFFICES ASSUME BodyInv, [BodyNext]_bodyVars
             PROVE  BodyInv'
  OBVIOUS
<1>1. CASE UNCHANGED bodyVars
  BY <1>1 DEF bodyVars, BodyInv, BodyTypeOK, SentFromStart, RestInOrder, AllSent, Unsent
<1>2. CASE Answered \/ Crash
  <2>1. step' = "idle" /\ UNCHANGED <<dump, offset, pending, buffer, start, sent>>
    BY <1>2 DEF Answered, Crash
  <2>2. BodyTypeOK' /\ SentFromStart'
    BY <2>1 DEF BodyInv, BodyTypeOK, SentFromStart
  <2> QED
    BY <2>1, <2>2, EndsEarly
<1>3. CASE EraseDump
  BY <1>3 DEF EraseDump, BodyInv, BodyTypeOK, SentFromStart, RestInOrder, AllSent, Unsent
<1> QED
  BY <1>1, <1>2, <1>3, DownloadInv, ReadFlashInv, WriteBodyInv, WriteFailsInv, FlushInv
     DEF BodyNext, BodyStep

\* The body is the dump, however it is buffered, split and cut
\* (adapters/coredump.rs:61-87, buffered_writer.rs).
THEOREM SendsTheDump == BodySpec => []BodyIsTheDump
<1>1. BodyInv => BodyIsTheDump
  <2> SUFFICES ASSUME BodyInv
               PROVE  BodyIsTheDump
    OBVIOUS
  <2>1. ASSUME NEW s, Follows(s, 0)
        PROVE  s = [i \in 1 .. Len(s) |-> i]
    <3>1. s \in Seq(Nat) /\ Len(s) \in Nat /\ \A i \in 1 .. Len(s) : s[i] = 0 + i
      BY <2>1 DEF Follows
    <3>2. s \in [1 .. Len(s) -> Nat]
      BY <3>1
    <3>3. \A i \in 1 .. Len(s) : s[i] = i
      BY <3>1
    <3> HIDE DEF Follows
    <3> QED
      BY <3>2, <3>3
  <2>2. step \in {"sending", "done"} => sent \o Unsent \o pending = [i \in 1 .. offset |-> i]
    <3> SUFFICES ASSUME step \in {"sending", "done"}
                 PROVE  sent \o Unsent \o pending = [i \in 1 .. offset |-> i]
      OBVIOUS
    <3>1. /\ Follows(sent, 0) /\ Follows(Unsent, Len(sent)) /\ Follows(pending, Len(sent) + Len(Unsent))
          /\ Len(sent) \in Nat /\ Len(Unsent) \in Nat /\ Len(pending) \in Nat
          /\ offset = Len(sent) + Len(Unsent) + Len(pending)
      BY DEF BodyInv, SentFromStart, RestInOrder, Follows
    <3>2. Follows(sent \o Unsent, 0) /\ Len(sent \o Unsent) = Len(sent) + Len(Unsent)
      BY <3>1, FollowsOn
    <3>3. Follows(sent \o Unsent \o pending, 0) /\ Len(sent \o Unsent \o pending) = offset
      <4>1. Follows(pending, 0 + Len(sent \o Unsent))
        BY <3>1, <3>2
      <4>2. Follows(sent \o Unsent \o pending, 0)
            /\ Len(sent \o Unsent \o pending) = Len(sent \o Unsent) + Len(pending)
        <5> DEFINE m == sent \o Unsent
        <5>1. Follows(m, 0) /\ Follows(pending, 0 + Len(m)) /\ 0 \in Nat
          BY <3>2, <4>1
        <5> HIDE DEF m
        <5>2. Follows(m \o pending, 0) /\ Len(m \o pending) = Len(m) + Len(pending)
          BY <5>1, FollowsOn
        <5> QED
          BY <5>2 DEF m
      <4> QED
        BY <3>1, <3>2, <4>2
    <3> QED
      BY <2>1, <3>3
  <2>3. IsPrefix(sent, [i \in 1 .. dump.size |-> i])
    <3> DEFINE whole == [i \in 1 .. dump.size |-> i]
    <3>1. sent \in Seq(Nat) /\ Len(sent) \in Nat /\ dump.size \in Nat /\ Len(sent) <= dump.size
          /\ \A i \in 1 .. Len(sent) : sent[i] = i
      BY DEF BodyInv, BodyTypeOK, SentFromStart, Follows
    <3>2. whole \in Seq(Nat) /\ Len(whole) = dump.size /\ \A i \in 1 .. dump.size : whole[i] = i
      BY <3>1
    <3> HIDE DEF whole
    <3>3. SubSeq(sent, 1, Len(sent)) = sent
      BY <3>1
    <3>4. /\ SubSeq(whole, 1, Len(sent)) \in Seq(Nat) /\ Len(SubSeq(whole, 1, Len(sent))) = Len(sent)
          /\ \A i \in 1 .. Len(sent) : SubSeq(whole, 1, Len(sent))[i] = sent[i]
      BY <3>1, <3>2
    <3>5. SubSeq(whole, 1, Len(sent)) = sent
      BY <3>1, <3>4
    <3> QED
      BY <3>1, <3>2, <3>3, <3>5 DEF IsPrefix, whole
  <2> QED
    BY <2>2, <2>3 DEF BodyInv, AllSent, BodyIsTheDump
<1> QED
  BY <1>1, BodyInitInv, BodyNextInv, PTL DEF BodySpec

HIDE BodyAssumption

-----------------------------------------------------------------------------
(* The capture clock.                                                      *)

CaptureSpec == CaptureInit /\ [][CaptureNext]_captureVars

LEMMA PacketsOf ==
  ASSUME NEW a \in Nat
  PROVE  /\ a \div PacketFrames \in Nat /\ a % PacketFrames \in 0 .. PacketFrames - 1
         /\ a = PacketFrames * (a \div PacketFrames) + (a % PacketFrames)
BY CaptureAssumption

LEMMA FramesOf ==
  ASSUME NEW a \in Int
  PROVE  /\ a \div FrameBytes \in Int /\ a % FrameBytes \in 0 .. FrameBytes - 1
         /\ a = FrameBytes * (a \div FrameBytes) + (a % FrameBytes)
BY CaptureAssumption

LEMMA InFrame ==
  ASSUME NEW q \in Int, NEW r \in 0 .. FrameBytes - 1
  PROVE  (FrameBytes * q + r) % FrameBytes = r
BY CaptureAssumption

\* Whole frames do not count.
LEMMA WholeFrames ==
  ASSUME NEW q \in Int, NEW a \in Int, NEW b \in Int, b = FrameBytes * q + a
  PROVE  b % FrameBytes = a % FrameBytes
<1> DEFINE k == a \div FrameBytes
           r == a % FrameBytes
           j == q + k
<1>1. k \in Int /\ r \in 0 .. FrameBytes - 1 /\ a = FrameBytes * k + r
  BY FramesOf
<1>2. j \in Int /\ FrameBytes * j = FrameBytes * q + FrameBytes * k
  BY <1>1, CaptureAssumption
<1>3. FrameBytes * q \in Int /\ FrameBytes * k \in Int
  BY <1>1, CaptureAssumption
<1> HIDE DEF k, r, j
<1>4. b = FrameBytes * j + r
  BY <1>1, <1>2, <1>3
<1>5. (FrameBytes * j + r) % FrameBytes = r
  BY <1>1, <1>2, InFrame
<1> QED
  BY <1>4, <1>5 DEF r

\* Adding the same keeps two places alike.
LEMMA AddAlike ==
  ASSUME NEW a \in Int, NEW b \in Int, NEW c \in Int, a % FrameBytes = b % FrameBytes
  PROVE  (a + c) % FrameBytes = (b + c) % FrameBytes
<1> DEFINE k == a \div FrameBytes
           l == b \div FrameBytes
           r == a % FrameBytes
           x == r + c
           y == a + c
           z == b + c
<1>1. k \in Int /\ l \in Int /\ r \in Int /\ a = FrameBytes * k + r /\ b = FrameBytes * l + r
  BY FramesOf
<1>2. FrameBytes * k \in Int /\ FrameBytes * l \in Int
  BY <1>1, CaptureAssumption
<1>3. x \in Int /\ y \in Int /\ z \in Int /\ y = FrameBytes * k + x /\ z = FrameBytes * l + x
  BY <1>1, <1>2
<1> HIDE DEF k, l, r, x, y, z
<1>4. y % FrameBytes = x % FrameBytes /\ z % FrameBytes = x % FrameBytes
  BY <1>1, <1>3, WholeFrames
<1> QED
  BY <1>4 DEF y, z

LEMMA RemainderTwice ==
  ASSUME NEW a \in Int, NEW c \in Int
  PROVE  ((a % FrameBytes) + c) % FrameBytes = (a + c) % FrameBytes
<1> DEFINE r == a % FrameBytes
<1>1. r \in 0 .. FrameBytes - 1 /\ r \in Int
  BY FramesOf
<1>2. (FrameBytes * 0 + r) % FrameBytes = r /\ FrameBytes * 0 + r = r
  BY <1>1, InFrame, CaptureAssumption
<1>3. r % FrameBytes = r
  BY <1>2
<1>4. r = a % FrameBytes
  OBVIOUS
<1> HIDE DEF r
<1>5. (r + c) % FrameBytes = (a + c) % FrameBytes
  BY <1>1, <1>3, <1>4, AddAlike
<1> QED
  BY <1>5 DEF r

\* What completes a frame.
LEMMA Completes ==
  ASSUME NEW a \in Int
  PROVE  LET c == (FrameBytes - (a % FrameBytes)) % FrameBytes
         IN  c \in 0 .. FrameBytes - 1 /\ (a + c) % FrameBytes = 0
<1> DEFINE r == a % FrameBytes
           d == FrameBytes - r
           c == d % FrameBytes
<1>1. r \in 0 .. FrameBytes - 1 /\ d \in Int
  BY FramesOf, CaptureAssumption
<1>2. (r + d) % FrameBytes = (a + d) % FrameBytes
  BY <1>1, RemainderTwice
<1>3. r + d = FrameBytes * 1 + 0
  BY <1>1, CaptureAssumption
<1>4. (FrameBytes * 1 + 0) % FrameBytes = 0
  BY InFrame, CaptureAssumption
<1> HIDE DEF r, d
<1>5. c \in 0 .. FrameBytes - 1 /\ (c + a) % FrameBytes = (d + a) % FrameBytes
  BY <1>1, FramesOf, RemainderTwice
<1> HIDE DEF c
<1>6. c + a = a + c /\ d + a = a + d
  BY <1>1, <1>5
<1> QED
  BY <1>2, <1>3, <1>4, <1>5, <1>6 DEF r, d, c

-----------------------------------------------------------------------------
LEMMA BeyondType ==
  ASSUME NEW t \in Int
  PROVE  Beyond(t) \in Nat
BY CaptureAssumption DEF Beyond

LEMMA BeyondGrows ==
  ASSUME NEW s \in Int, NEW t \in Int, s <= t
  PROVE  Beyond(s) <= Beyond(t)
<1>1. s * FramesPerTick \in Int /\ t * FramesPerTick \in Int
  BY CaptureAssumption
<1>2. s * FramesPerTick <= t * FramesPerTick
  <2> DEFINE d == t - s
  <2>1. d \in Nat /\ t = s + d
    OBVIOUS
  <2> HIDE DEF d
  <2>2. d * FramesPerTick >= 0 /\ d * FramesPerTick \in Int
    BY <2>1, CaptureAssumption
  <2>3. (s + d) * FramesPerTick = s * FramesPerTick + d * FramesPerTick
    BY <2>1, CaptureAssumption
  <2> QED
    BY <1>1, <2>1, <2>2, <2>3
<1> QED
  BY <1>1, <1>2, CaptureAssumption DEF Beyond

\* Nothing is beyond what the driver keeps before time has passed.
LEMMA BeyondNothing == Beyond(0) = 0 /\ Beyond(Never) = 0
<1>1. 0 * FramesPerTick = 0 /\ -1 * FramesPerTick <= 0 /\ -1 * FramesPerTick \in Int
  BY CaptureAssumption
<1> QED
  BY <1>1, CaptureAssumption DEF Beyond, Never

-----------------------------------------------------------------------------
CaptureEngines == [filled : Nat, skip : Nat, elapsed : Nat, partial : Int, charged : Nat,
            remainder : Nat, lost : Nat]

\* Only a packet started over skips, once the outage that tore it is charged,
\* and no packet is older than the time since the last one.
Sound(e) ==
  /\ e \in CaptureEngines
  /\ e.skip > 0 => e.filled = 0 /\ e.partial = Never /\ e.charged > 0
  /\ e.partial \in -1 .. e.elapsed
  /\ e.remainder < PacketFrames

\* The next byte is at its place; the outages before, and what is charged of
\* the one under way, are counted.
Kept(e, at, before) ==
  /\ Sound(e)
  /\ (at + e.skip) % FrameBytes = e.filled % FrameBytes
  /\ e.lost * PacketFrames + e.remainder = before + e.charged

Charged(e) == e.charged = Beyond(e.elapsed)
Chargeable(e) == e.charged <= Beyond(e.elapsed)

ClockInv == phase \in Nat /\ owed \in Nat /\ Kept(engine, phase, owed) /\ Charged(engine)

LEMMA PastFields ==
  ASSUME NEW e \in CaptureEngines, NEW t \in Nat
  PROVE  /\ Past(e, t).filled = e.filled /\ Past(e, t).skip = e.skip
         /\ Past(e, t).elapsed = e.elapsed + t
         /\ Past(e, t).partial = IF e.partial = Never THEN Never ELSE e.partial + t
         /\ Past(e, t).charged = e.charged /\ Past(e, t).remainder = e.remainder
         /\ Past(e, t).lost = e.lost
         /\ Past(e, t) \in CaptureEngines
<1> DEFINE p == IF e.partial = Never THEN Never ELSE e.partial + t
           x == e.elapsed + t
<1>1. p \in Int /\ x \in Nat
  BY DEF CaptureEngines, Never
<1>2. Past(e, t) = [e EXCEPT !.elapsed = x, !.partial = p]
  BY DEF Past, CaptureEngines
<1> HIDE DEF p, x
<1>3. /\ Past(e, t).filled = e.filled /\ Past(e, t).skip = e.skip
      /\ Past(e, t).elapsed = x /\ Past(e, t).partial = p
      /\ Past(e, t).charged = e.charged /\ Past(e, t).remainder = e.remainder
      /\ Past(e, t).lost = e.lost /\ Past(e, t) \in CaptureEngines
  BY <1>1, <1>2 DEF CaptureEngines
<1> QED
  BY <1>3 DEF p, x

\* Time passes: more may be charged.
LEMMA PastKept ==
  ASSUME NEW e, NEW at \in Nat, NEW before \in Nat, NEW t \in Nat,
         Kept(e, at, before), Chargeable(e)
  PROVE  Kept(Past(e, t), at, before) /\ Chargeable(Past(e, t)) /\ t <= Past(e, t).elapsed
<1> DEFINE p == Past(e, t)
<1>1. e \in CaptureEngines /\ e.elapsed \in Nat /\ e.partial \in Int /\ e.charged \in Nat
  BY DEF Kept, Sound, CaptureEngines
<1>2. /\ p.filled = e.filled /\ p.skip = e.skip /\ p.elapsed = e.elapsed + t
      /\ p.partial = IF e.partial = Never THEN Never ELSE e.partial + t
      /\ p.charged = e.charged /\ p.remainder = e.remainder /\ p.lost = e.lost
      /\ p \in CaptureEngines
  BY <1>1, PastFields
<1> HIDE DEF p
<1>3. Sound(p)
  BY <1>1, <1>2 DEF Kept, Sound, Never
<1>4. Beyond(e.elapsed) <= Beyond(e.elapsed + t)
  BY <1>1, BeyondGrows
<1>5. Chargeable(p)
  <2>1. Beyond(e.elapsed) \in Nat /\ Beyond(e.elapsed + t) \in Nat
    BY <1>1, BeyondType
  <2>2. e.charged <= Beyond(e.elapsed)
    BY DEF Chargeable
  <2>3. e.charged <= Beyond(e.elapsed + t)
    BY <1>1, <1>4, <2>1, <2>2
  <2> QED
    BY <1>2, <2>3 DEF Chargeable
<1>6. Kept(p, at, before)
  BY <1>2, <1>3 DEF Kept
<1>7. t <= p.elapsed
  BY <1>1, <1>2
<1> QED
  BY <1>5, <1>6, <1>7 DEF p

\* An outage is charged to the end, and a packet it tore starts over at a frame.
LEMMA ObservedKept ==
  ASSUME NEW e, NEW at \in Nat, NEW before \in Nat, Kept(e, at, before), Chargeable(e)
  PROVE  /\ Kept(Observed(e), at, before) /\ Charged(Observed(e))
         /\ Observed(e).elapsed = e.elapsed
<1> DEFINE b == Beyond(e.elapsed)
           frames == e.remainder + b - e.charged
           lost == e.lost + frames \div PacketFrames
           rest == frames % PacketFrames
           c == (FrameBytes - (e.filled % FrameBytes)) % FrameBytes
           n == Observed(e)
<1>1. /\ e \in CaptureEngines /\ e.elapsed \in Nat /\ e.partial \in -1 .. e.elapsed /\ e.charged \in Nat
      /\ e.remainder \in Nat /\ e.lost \in Nat /\ e.filled \in Nat /\ e.skip \in Nat
      /\ e.remainder < PacketFrames
      /\ PacketFrames \in Nat \ {0} /\ FrameBytes \in Nat \ {0}
  BY CaptureAssumption DEF Kept, Sound, CaptureEngines
<1>2. b \in Nat /\ e.charged <= b
  BY <1>1, BeyondType DEF Chargeable
<1>3. frames \in Nat
  BY <1>1, <1>2
<1>4. /\ frames \div PacketFrames \in Nat /\ rest \in 0 .. PacketFrames - 1
      /\ frames = PacketFrames * (frames \div PacketFrames) + rest
  BY <1>3, PacketsOf
<1>5. lost \in Nat /\ lost * PacketFrames + rest = before + b
  <2> DEFINE k == frames \div PacketFrames
  <2>1. k \in Nat /\ frames = PacketFrames * k + rest /\ lost = e.lost + k
    BY <1>4
  <2>2. frames = e.remainder + b - e.charged
    OBVIOUS
  <2>6. rest \in Int
    BY <1>4
  <2> HIDE DEF k, lost, frames, rest, b
  <2>3. lost * PacketFrames = e.lost * PacketFrames + PacketFrames * k
    BY <1>1, <2>1
  <2>4. e.lost * PacketFrames + e.remainder = before + e.charged
    BY DEF Kept
  <2>5. e.lost * PacketFrames \in Int /\ PacketFrames * k \in Int
    BY <1>1, <2>1
  <2> DEFINE x == e.lost * PacketFrames
             y == PacketFrames * k
             z == lost * PacketFrames
  <2>7. /\ x \in Int /\ y \in Int /\ z = x + y /\ x + e.remainder = before + e.charged
        /\ frames = y + rest
    BY <2>1, <2>3, <2>4, <2>5
  <2>8. lost \in Nat
    BY <1>1, <2>1
  <2> HIDE DEF x, y, z
  <2>9. z + rest = before + b
    BY <1>1, <1>2, <2>2, <2>6, <2>7
  <2> QED
    BY <2>8, <2>9 DEF z
<1>6. c \in 0 .. FrameBytes - 1 /\ (e.filled + c) % FrameBytes = 0
  BY <1>1, Completes
<1>7. CASE Torn(e)
  <2>1. /\ n.filled = 0 /\ n.skip = c /\ n.elapsed = e.elapsed /\ n.partial = Never
        /\ n.charged = b /\ n.remainder = rest /\ n.lost = lost
    BY <1>1, <1>7 DEF Observed, CaptureEngines
  <2>2. n \in CaptureEngines
    <3>1. c \in Nat /\ rest \in Nat
      BY <1>4, <1>6
    <3> HIDE DEF c, rest, lost, b
    <3>2. n = [e EXCEPT !.charged = b, !.lost = lost, !.remainder = rest, !.skip = c, !.filled = 0,
                        !.partial = Never]
      BY <1>1, <1>7 DEF Observed, CaptureEngines, c, rest, lost, b
    <3> QED
      <4>1. /\ e \in CaptureEngines /\ b \in Nat /\ lost \in Nat /\ rest \in Nat /\ c \in Nat /\ 0 \in Nat
            /\ Never \in Int
        BY <1>1, <1>2, <1>5, <3>1 DEF Never
      <4> HIDE DEF n
      <4> QED
        BY <3>2, <4>1 DEF CaptureEngines
  <2>3. e.skip = 0 /\ b > 0
    <3>1. CASE Beyond(e.elapsed) > 0 /\ e.charged = 0
      BY <1>1, <3>1 DEF Kept, Sound
    <3>2. CASE Beyond(e.partial) > 0
      <4>1. e.partial # Never
        BY <3>2, BeyondNothing
      <4>2. Beyond(e.partial) <= Beyond(e.elapsed) /\ Beyond(e.partial) \in Nat
        BY <1>1, BeyondGrows, BeyondType
      <4>3. e.skip = 0
        BY <1>1, <4>1 DEF Kept, Sound
      <4> QED
        BY <1>2, <3>2, <4>2, <4>3
    <3> QED
      BY <1>7, <3>1, <3>2 DEF Torn
  <2> HIDE DEF n, b, rest, lost, frames, c
  <2>4. Sound(n)
    BY <1>1, <1>4, <2>1, <2>2, <2>3 DEF Sound, Never
  <2>5. (at + n.skip) % FrameBytes = n.filled % FrameBytes
    <3>0. c \in Int /\ at \in Int /\ e.filled \in Int
      BY <1>1, <1>6
    <3>1. (at + 0) % FrameBytes = e.filled % FrameBytes /\ at + 0 = at
      BY <2>3 DEF Kept
    <3>2. at % FrameBytes = e.filled % FrameBytes
      BY <3>1
    <3>3. (at + c) % FrameBytes = (e.filled + c) % FrameBytes
      BY <3>0, <3>2, AddAlike
    <3>4. 0 % FrameBytes = 0
      BY CaptureAssumption
    <3> QED
      BY <1>6, <2>1, <3>3, <3>4
  <2>6. Kept(n, at, before)
    BY <1>5, <2>1, <2>4, <2>5 DEF Kept
  <2> QED
    BY <2>1, <2>6 DEF Charged, n, b
<1>8. CASE ~Torn(e)
  <2>1. /\ n.filled = e.filled /\ n.skip = e.skip /\ n.elapsed = e.elapsed
        /\ n.partial = e.partial /\ n.charged = b /\ n.remainder = rest /\ n.lost = lost
    BY <1>1, <1>8 DEF Observed, CaptureEngines
  <2>2. n \in CaptureEngines
    <3>1. rest \in Nat
      BY <1>4
    <3> HIDE DEF c, rest, lost, b
    <3>2. n = [e EXCEPT !.charged = b, !.lost = lost, !.remainder = rest]
      BY <1>1, <1>8 DEF Observed, CaptureEngines, c, rest, lost, b
    <3> QED
      BY <1>1, <1>2, <1>5, <3>1, <3>2 DEF CaptureEngines
  <2> HIDE DEF n, b, rest, lost, frames, c
  <2>3. Sound(n)
    BY <1>1, <1>2, <1>4, <2>1, <2>2 DEF Kept, Sound
  <2>4. Kept(n, at, before)
    BY <1>5, <2>1, <2>3 DEF Kept
  <2> QED
    BY <2>1, <2>4 DEF Charged, n, b
<1> QED
  BY <1>7, <1>8

\* The bytes of a read go where they belong.
LEMMA FilledKept ==
  ASSUME NEW e, NEW at \in Nat, NEW before \in Nat, NEW bytes \in Nat \ {0}, NEW t \in Nat,
         Kept(e, at, before), t <= e.elapsed
  PROVE  LET n == Filled(e, bytes, t) IN
         /\ Kept(n, (at + bytes) % FrameBytes, before)
         /\ n.elapsed = e.elapsed /\ n.charged = e.charged
         /\ n.filled > 0 => n.skip = 0
<1> DEFINE skipped == IF e.skip < bytes THEN e.skip ELSE bytes
           kept == bytes - skipped
           p == IF kept > 0 /\ e.partial = Never THEN t ELSE e.partial
           n == Filled(e, bytes, t)
           there == (at + bytes) % FrameBytes
<1>1. /\ e \in CaptureEngines /\ e.elapsed \in Nat /\ e.partial \in -1 .. e.elapsed /\ e.charged \in Nat
      /\ e.remainder \in Nat /\ e.lost \in Nat /\ e.filled \in Nat /\ e.skip \in Nat
      /\ FrameBytes \in Nat \ {0}
      /\ (e.skip > 0 => e.filled = 0 /\ e.partial = Never /\ e.charged > 0)
      /\ (at + e.skip) % FrameBytes = e.filled % FrameBytes
  BY CaptureAssumption DEF Kept, Sound, CaptureEngines
<1>2. skipped \in Nat /\ kept \in Nat /\ p \in -1 .. e.elapsed /\ skipped <= e.skip
      /\ (e.skip - skipped > 0 => kept = 0) /\ (kept = 0 => p = e.partial)
  BY <1>1
<1>3. /\ n.filled = e.filled + kept /\ n.skip = e.skip - skipped /\ n.elapsed = e.elapsed
      /\ n.partial = p /\ n.charged = e.charged /\ n.remainder = e.remainder /\ n.lost = e.lost
  BY <1>1 DEF Filled, CaptureEngines
<1>4. n \in CaptureEngines
  <2>1. n = [e EXCEPT !.skip = e.skip - skipped, !.filled = e.filled + kept, !.partial = p]
    BY <1>1 DEF Filled, CaptureEngines
  <2> HIDE DEF n, skipped, kept, p
  <2>2. e.skip - skipped \in Nat /\ e.filled + kept \in Nat /\ p \in Int
    BY <1>1, <1>2
  <2> QED
    BY <1>1, <2>1, <2>2 DEF CaptureEngines
<1>5. (there + n.skip) % FrameBytes = n.filled % FrameBytes
  <2>0. (there + n.skip) % FrameBytes = (at + bytes + n.skip) % FrameBytes
    <3> DEFINE x == at + bytes
               y == n.skip
    <3>1. x \in Int /\ y \in Int
      BY <1>1, <1>2, <1>3
    <3> HIDE DEF x, y
    <3>2. ((x % FrameBytes) + y) % FrameBytes = (x + y) % FrameBytes
      BY <3>1, RemainderTwice
    <3> QED
      BY <3>2 DEF x, y
  <2>1. at + bytes + n.skip = (at + e.skip) + kept
    BY <1>1, <1>3
  <2>2. ((at + e.skip) + kept) % FrameBytes = (e.filled + kept) % FrameBytes
    <3> DEFINE x == at + e.skip
    <3>1. x \in Int /\ e.filled \in Int /\ kept \in Int
      BY <1>1, <1>2
    <3>2. x % FrameBytes = e.filled % FrameBytes
      BY <1>1
    <3> HIDE DEF x, kept
    <3>3. (x + kept) % FrameBytes = (e.filled + kept) % FrameBytes
      BY <3>1, <3>2, AddAlike
    <3> QED
      BY <3>3 DEF x
  <2> QED
    BY <1>3, <2>0, <2>1, <2>2
<1> HIDE DEF n, there, p, kept, skipped
<1>6. Sound(n)
  BY <1>1, <1>2, <1>3, <1>4 DEF Kept, Sound
<1>7. Kept(n, there, before)
  BY <1>3, <1>5, <1>6 DEF Kept
<1>8. n.filled > 0 => n.skip = 0
  BY <1>1, <1>2, <1>3
<1> QED
  BY <1>3, <1>7, <1>8 DEF n, there

\* A packet that is sent settles the outage before it.
LEMMA EmptiedKept ==
  ASSUME NEW e, NEW at \in Nat, NEW before \in Nat, Kept(e, at, before), Charged(e), Complete(e),
         e.filled > 0 => e.skip = 0
  PROVE  /\ Kept(Emptied(e), at, before + Beyond(e.elapsed)) /\ Charged(Emptied(e))
         /\ Beyond(e.elapsed) \in Nat
<1> DEFINE n == Emptied(e)
<1>1. /\ e \in CaptureEngines /\ e.elapsed \in Nat /\ e.charged \in Nat
      /\ e.remainder \in Nat /\ e.lost \in Nat
      /\ FrameBytes \in Nat \ {0} /\ PacketFrames \in Nat \ {0} /\ e.remainder < PacketFrames
      /\ (at + e.skip) % FrameBytes = e.filled % FrameBytes
      /\ e.lost * PacketFrames + e.remainder = before + e.charged
  BY CaptureAssumption DEF Kept, Sound, CaptureEngines
<1>2. /\ n.filled = 0 /\ n.skip = e.skip /\ n.elapsed = 0 /\ n.partial = Never /\ n.charged = 0
      /\ n.remainder = e.remainder /\ n.lost = e.lost /\ n \in CaptureEngines
  <2>1. n = [e EXCEPT !.filled = 0, !.partial = Never, !.elapsed = 0, !.charged = 0]
    BY DEF Emptied
  <2>2. Never \in Int /\ 0 \in Nat
    BY DEF Never
  <2> HIDE DEF n
  <2> QED
    BY <1>1, <2>1, <2>2 DEF CaptureEngines
<1>3. e.filled = FrameBytes * PacketFrames + 0 /\ e.filled > 0
  BY <1>1 DEF Complete, PacketBytes
<1>4. e.skip = 0
  BY <1>3
<1>5. e.filled % FrameBytes = 0 /\ 0 % FrameBytes = 0
  <2>1. (FrameBytes * PacketFrames + 0) % FrameBytes = 0
    BY CaptureAssumption, InFrame
  <2> QED
    BY <1>1, <1>3, <2>1
<1>6. Beyond(e.elapsed) \in Nat /\ e.charged = Beyond(e.elapsed)
  BY <1>1, BeyondType DEF Charged
<1> HIDE DEF n
<1>7. Sound(n)
  BY <1>1, <1>2, <1>4 DEF Sound, Never
<1>8. n.lost * PacketFrames + n.remainder = before + Beyond(e.elapsed) + n.charged
  <2> DEFINE x == e.lost * PacketFrames
  <2>1. x + e.remainder = before + e.charged /\ x \in Int
    BY <1>1
  <2> HIDE DEF x
  <2>2. x + e.remainder = before + Beyond(e.elapsed) + 0
    BY <1>1, <1>6, <2>1
  <2> QED
    BY <1>2, <2>2 DEF x
<1>9. Kept(n, at, before + Beyond(e.elapsed))
  BY <1>1, <1>2, <1>4, <1>5, <1>7, <1>8 DEF Kept
<1>10. Charged(n)
  BY <1>2, BeyondNothing DEF Charged
<1> QED
  BY <1>6, <1>9, <1>10 DEF n

LEMMA ClockInitInv == CaptureInit => ClockInv
<1> SUFFICES ASSUME CaptureInit
             PROVE  ClockInv
  OBVIOUS
<1>1. /\ engine.filled = 0 /\ engine.skip = 0 /\ engine.elapsed = 0 /\ engine.partial = Never
      /\ engine.charged = 0 /\ engine.remainder = 0 /\ engine.lost = 0 /\ engine \in CaptureEngines
      /\ phase = 0 /\ owed = 0
  BY DEF CaptureInit, NewEngine, CaptureEngines, Never
<1>2. Sound(engine)
  BY <1>1, CaptureAssumption DEF Sound, Never
<1>3. Kept(engine, phase, owed)
  <2>1. 0 * PacketFrames = 0
    BY CaptureAssumption
  <2> QED
    BY <1>1, <1>2, <2>1 DEF Kept
<1>4. Charged(engine)
  BY <1>1, BeyondNothing DEF Charged
<1> QED
  BY <1>1, <1>3, <1>4 DEF ClockInv

LEMMA ChargedIsChargeable ==
  ASSUME NEW e, e \in CaptureEngines, Charged(e)
  PROVE  Chargeable(e)
<1>1. Beyond(e.elapsed) \in Nat
  BY BeyondType DEF CaptureEngines
<1> QED
  BY <1>1 DEF Charged, Chargeable

\* Time passed, and was observed.
LEMMA Elapsed ==
  ASSUME NEW e, NEW at \in Nat, NEW before \in Nat, NEW t \in Nat, Kept(e, at, before), Charged(e)
  PROVE  LET n == Observed(Past(e, t)) IN Kept(n, at, before) /\ Charged(n) /\ t <= n.elapsed
<1>1. Chargeable(e)
  BY ChargedIsChargeable DEF Kept, Sound
<1>2. Kept(Past(e, t), at, before) /\ Chargeable(Past(e, t)) /\ t <= Past(e, t).elapsed
  BY <1>1, PastKept
<1> QED
  BY <1>2, ObservedKept

LEMMA ClockNextInv == ClockInv /\ [CaptureNext]_captureVars => ClockInv'
<1> SUFFICES ASSUME ClockInv, [CaptureNext]_captureVars
             PROVE  ClockInv'
  OBVIOUS
<1>0. phase \in Nat /\ owed \in Nat /\ Kept(engine, phase, owed) /\ Charged(engine)
  BY DEF ClockInv
<1>1. CASE Read
  <2>1. PICK ticks \in Waits, bytes \in 1 .. PacketBytes - engine.filled :
          LET full == Filled(Observed(Past(engine, ticks)), bytes, ticks) IN
          /\ phase' = (phase + bytes) % FrameBytes
          /\ engine' = IF Complete(full) THEN Emptied(full) ELSE full
          /\ owed' = IF Complete(full) THEN owed + Beyond(full.elapsed) ELSE owed
    BY <1>1 DEF Read
  <2>2. ticks \in Nat /\ bytes \in Nat \ {0} /\ FrameBytes \in Nat \ {0}
    <3>1. engine.filled \in Nat /\ PacketBytes \in Nat
      BY <1>0, CaptureAssumption DEF Kept, Sound, CaptureEngines, PacketBytes
    <3> QED
      BY <3>1, CaptureAssumption
  <2> DEFINE o == Observed(Past(engine, ticks))
             full == Filled(o, bytes, ticks)
             there == (phase + bytes) % FrameBytes
  <2>3. Kept(o, phase, owed) /\ Charged(o) /\ ticks <= o.elapsed
    BY <1>0, <2>2, Elapsed
  <2> HIDE DEF o
  <2>4. /\ Kept(full, there, owed) /\ full.elapsed = o.elapsed /\ full.charged = o.charged
        /\ (full.filled > 0 => full.skip = 0)
    BY <1>0, <2>2, <2>3, FilledKept
  <2>5. there \in Nat
    BY <1>0, <2>2, FramesOf
  <2>6. /\ phase' = there /\ engine' = (IF Complete(full) THEN Emptied(full) ELSE full)
        /\ owed' = (IF Complete(full) THEN owed + Beyond(full.elapsed) ELSE owed)
    BY <2>1 DEF o
  <2> HIDE DEF full, there
  <2>7. Charged(full)
    BY <2>3, <2>4 DEF Charged
  <2>8. CASE Complete(full)
    <3>1. Kept(Emptied(full), there, owed + Beyond(full.elapsed)) /\ Charged(Emptied(full))
          /\ Beyond(full.elapsed) \in Nat
      BY <1>0, <2>4, <2>5, <2>7, <2>8, EmptiedKept
    <3>2. engine' = Emptied(full) /\ owed' = owed + Beyond(full.elapsed) /\ owed' \in Nat
      BY <1>0, <2>6, <2>8, <3>1
    <3> QED
      BY <2>5, <2>6, <3>1, <3>2 DEF ClockInv
  <2>9. CASE ~Complete(full)
    BY <1>0, <2>4, <2>5, <2>6, <2>7, <2>9 DEF ClockInv
  <2> QED
    BY <2>8, <2>9
<1>2. CASE ReadNothing
  <2>1. PICK ticks \in Waits, backoff \in Waits :
          /\ engine' = Observed(Past(Observed(Past(engine, ticks)), backoff))
          /\ UNCHANGED <<phase, owed>>
    BY <1>2 DEF ReadNothing
  <2>2. ticks \in Nat /\ backoff \in Nat
    BY CaptureAssumption
  <2> DEFINE o == Observed(Past(engine, ticks))
  <2>3. Kept(o, phase, owed) /\ Charged(o)
    BY <1>0, <2>2, Elapsed
  <2>4. engine' = Observed(Past(o, backoff))
    BY <2>1
  <2> HIDE DEF o
  <2>5. Kept(Observed(Past(o, backoff)), phase, owed) /\ Charged(Observed(Past(o, backoff)))
    BY <1>0, <2>2, <2>3, Elapsed
  <2> QED
    BY <1>0, <2>1, <2>4, <2>5 DEF ClockInv
<1>3. CASE UNCHANGED captureVars
  <2>1. engine' = engine /\ phase' = phase /\ owed' = owed
    BY <1>3 DEF captureVars
  <2> QED
    BY <1>0, <2>1 DEF ClockInv
<1> QED
  BY <1>1, <1>2, <1>3 DEF CaptureNext

\* A packet keeps its frames and the sequence the time, whatever reads return
\* (stream/capture.rs).
THEOREM KeepsTime == CaptureSpec => []TimeKept
<1>1. ClockInv => TimeKept
  BY DEF ClockInv, Kept, Charged, TimeKept, FramesAligned, OutagesChargedOnce
<1> QED
  BY <1>1, ClockInitInv, ClockNextInv, PTL DEF CaptureSpec

-----------------------------------------------------------------------------
(* The two-slot store, for any number of saves.                            *)

\* What a marker, written or about to be, may name once a reset was
\* committed at resetAt and before a save numbered next.
Fresh(snap) ==
  /\ snap.sum.version < next
  /\ snap.sum.configured => snap.sum.version > resetAt

FreshCommit(c) == Fresh(c.active) /\ (c.previous # Unset => Fresh(c.previous))

ResetBeforeNext == resetAt < next

MarkerFresh == marker \in Commits => FreshCommit(marker)

\* A save under way is newer than everything committed, and a reset names
\* nothing to fall back on.
SavingFresh ==
  saving # Unset =>
    /\ saving.active.sum.version < next
    /\ saving.active.sum.version > resetAt
    /\ saving.previous # Unset =>
         Fresh(saving.previous) /\ saving.active.sum.configured

StoreInv == StoreTypeOK /\ ResetBeforeNext /\ MarkerFresh /\ SavingFresh

USE StateStoreAssumption, KeysAssumption

-----------------------------------------------------------------------------
(* Reading.                                                                *)

\* The snapshot that is read is one the marker names, and its slot holds
\* the value its checksum was taken of.
LEMMA CommittedNamed ==
  ASSUME CommittedSnapshot # Unset
  PROVE  /\ marker \in Commits
         /\ CommittedSnapshot \in {marker.active, marker.previous}
         /\ CommittedSnapshot \in Snapshots
         /\ Holds(CommittedSnapshot)
         /\ Load = CommittedSnapshot.sum
<1>1. CommittedSnapshot \in Candidates
  BY DEF CommittedSnapshot, Candidates
<1>2. marker \in Commits
  BY <1>1 DEF Candidates
<1>3. /\ CommittedSnapshot \in {marker.active, marker.previous}
      /\ Holds(CommittedSnapshot)
  BY <1>1, <1>2 DEF Candidates
<1>4. CommittedSnapshot \in Snapshots
  BY <1>2, <1>3 DEF Commits
<1>5. Load = CommittedSnapshot.sum
  BY <1>3 DEF Load, Holds
<1> QED
  BY <1>2, <1>3, <1>4, <1>5

\* What is to be kept as a fallback is what is read, and configured.
LEMMA PreviousNamed ==
  ASSUME NEW state \in States, Previous(CommittedSnapshot, state) # Unset
  PROVE  /\ Previous(CommittedSnapshot, state) = CommittedSnapshot
         /\ CommittedSnapshot # Unset
         /\ state.configured
BY DEF Previous

\* The slot written by a save is a slot, and not the one being read.
LEMMA TargetInactive ==
  /\ Target(CommittedSnapshot) \in StateSlots
  /\ CommittedSnapshot # Unset => Target(CommittedSnapshot) # CommittedSnapshot.slot
<1>1. CASE CommittedSnapshot = Unset
  BY <1>1 DEF Target, StateSlots
<1>2. CASE CommittedSnapshot # Unset
  <2>1. CommittedSnapshot.slot \in StateSlots
    BY <1>2, CommittedNamed DEF Snapshots
  <2> QED
    BY <1>2, <2>1 DEF Target, OtherSlot, StateSlots
<1> QED
  BY <1>1, <1>2

\* The commit a save prepares: well formed, and as fresh as the marker.
LEMMA PreparedCommit ==
  ASSUME StoreTypeOK, MarkerFresh, NEW configured \in BOOLEAN, next <= MaxVersion,
         NEW state, state = [version |-> next, configured |-> configured],
         NEW c, c = [active |-> [slot |-> Target(CommittedSnapshot), sum |-> state],
                     previous |-> Previous(CommittedSnapshot, state)]
  PROVE  /\ state \in States
         /\ c \in TwoSlots
         /\ c.previous # Unset => Fresh(c.previous) /\ configured
<1>1. state \in States
  BY DEF States, StoreTypeOK
<1>2. CASE c.previous = Unset
  BY <1>1, <1>2, TargetInactive DEF TwoSlots, Commits, Snapshots
<1>3. CASE c.previous # Unset
  <2>1. c.previous = CommittedSnapshot /\ CommittedSnapshot # Unset /\ configured
    BY <1>1, <1>3, PreviousNamed
  <2>2. CommittedSnapshot \in Snapshots /\ marker \in Commits
        /\ CommittedSnapshot \in {marker.active, marker.previous}
    BY <2>1, CommittedNamed
  <2>3. Fresh(CommittedSnapshot)
    BY <2>1, <2>2 DEF MarkerFresh, FreshCommit
  <2>4. c.active \in Snapshots /\ c.previous.slot # c.active.slot
    BY <1>1, <2>1, TargetInactive DEF Snapshots
  <2> QED
    BY <1>1, <2>1, <2>2, <2>3, <2>4 DEF TwoSlots, Commits
<1> QED
  BY <1>2, <1>3

-----------------------------------------------------------------------------
(* The inductive invariant.                                                *)

LEMMA StoreInitInv == StoreInit => StoreInv
BY DEF StoreInit, StoreInv, StoreTypeOK, ResetBeforeNext, MarkerFresh, SavingFresh, StateSlots

\* Every save prepares a commit newer than any other.
LEMMA SaveSlotInv ==
  ASSUME StoreInv, NEW configured \in BOOLEAN, SaveSlot(configured)
  PROVE  StoreInv'
<1> DEFINE state == [version |-> next, configured |-> configured]
           c == [active |-> [slot |-> Target(CommittedSnapshot), sum |-> state],
                 previous |-> Previous(CommittedSnapshot, state)]
<1>1. /\ next <= MaxVersion /\ next' = next + 1
      /\ slot' = [slot EXCEPT ![Target(CommittedSnapshot)] = state]
      /\ saving' = c
      /\ marker' = marker /\ resetAt' = resetAt
  BY DEF SaveSlot
<1>2. state \in States /\ c \in TwoSlots
      /\ (c.previous # Unset => Fresh(c.previous) /\ configured)
  BY <1>1, PreparedCommit DEF StoreInv
<1>3. c.active.sum = state /\ state.version = next /\ state.configured = configured
  OBVIOUS
<1> HIDE DEF c, state
<1>4. next \in Nat /\ resetAt \in Nat /\ resetAt < next
  BY DEF StoreInv, StoreTypeOK, ResetBeforeNext
<1>5. slot' \in [StateSlots -> States \cup {Unset, Corrupt}]
  BY <1>1, <1>2, TargetInactive DEF StoreInv, StoreTypeOK
<1>6. StoreTypeOK'
  BY <1>1, <1>2, <1>4, <1>5 DEF StoreInv, StoreTypeOK
<1>7. \A snap \in Snapshots : Fresh(snap) => Fresh(snap)'
  BY <1>1, <1>4 DEF Fresh, Snapshots, States
<1>8. MarkerFresh'
  BY <1>1, <1>7 DEF StoreInv, MarkerFresh, FreshCommit, Commits
<1>9. SavingFresh'
  <2>1. c.previous # Unset => c.previous \in Snapshots
    BY <1>2 DEF TwoSlots, Commits
  <2> QED
    BY <1>1, <1>2, <1>3, <1>4, <1>7, <2>1 DEF SavingFresh
<1> QED
  BY <1>1, <1>4, <1>6, <1>8, <1>9 DEF StoreInv, ResetBeforeNext

\* Committing a reset leaves no configured snapshot in the marker.
LEMMA SaveMarkerInv ==
  ASSUME StoreInv, SaveMarker
  PROVE  StoreInv'
<1>1. saving # Unset /\ saving \in TwoSlots /\ marker' = saving /\ saving' = Unset
      /\ slot' = slot /\ next' = next
  BY DEF SaveMarker, StoreInv, StoreTypeOK
<1>2. saving.active \in Snapshots /\ saving.active.sum \in States
  BY <1>1 DEF TwoSlots, Commits, Snapshots
<1>3. saving.active.sum.version \in 1 .. MaxVersion
      /\ saving.active.sum.version < next
  BY <1>1, <1>2 DEF States, StoreInv, SavingFresh
<1>4. resetAt' = IF saving.active.sum.configured THEN resetAt
                 ELSE saving.active.sum.version
  BY DEF SaveMarker
<1>5. resetAt' \in 0 .. MaxVersion /\ resetAt' < next
  BY <1>3, <1>4 DEF StoreInv, StoreTypeOK, ResetBeforeNext
<1>6. StoreTypeOK'
  BY <1>1, <1>5 DEF StoreInv, StoreTypeOK
<1>7. FreshCommit(marker)'
  BY <1>1, <1>3, <1>4 DEF FreshCommit, Fresh, StoreInv, SavingFresh
<1> QED
  BY <1>1, <1>5, <1>6, <1>7 DEF StoreInv, ResetBeforeNext, MarkerFresh, SavingFresh

LEMMA StoreNextInv == StoreInv /\ [StoreNext]_storeVars => StoreInv'
<1> SUFFICES ASSUME StoreInv, [StoreNext]_storeVars
             PROVE  StoreInv'
  OBVIOUS
<1>1. CASE UNCHANGED storeVars
  BY <1>1 DEF storeVars, StoreInv, StoreTypeOK, ResetBeforeNext, MarkerFresh, SavingFresh,
              FreshCommit, Fresh
<1>2. CASE \E configured \in BOOLEAN : SaveSlot(configured)
  BY <1>2, SaveSlotInv
<1>3. CASE SaveMarker
  BY <1>3, SaveMarkerInv
<1>4. CASE Abandon
  BY <1>4 DEF Abandon, StoreInv, StoreTypeOK, ResetBeforeNext, MarkerFresh, SavingFresh,
              FreshCommit, Fresh
<1>5. CASE \E s \in StateSlots : CorruptSlot(s)
  BY <1>5 DEF CorruptSlot, StoreInv, StoreTypeOK, ResetBeforeNext, MarkerFresh,
              SavingFresh, FreshCommit, Fresh
<1>6. CASE CorruptMarker
  BY <1>6 DEF CorruptMarker, StoreInv, StoreTypeOK, ResetBeforeNext, MarkerFresh,
              SavingFresh, FreshCommit, Fresh
<1> QED
  BY <1>1, <1>2, <1>3, <1>4, <1>5, <1>6 DEF StoreNext

\* The keys hold what they should, and a marker names two slots.
THEOREM StoreTyped == StoreSpec => []StoreTypeOK
<1>1. StoreInv => StoreTypeOK
  BY DEF StoreInv
<1> QED
  BY <1>1, StoreInitInv, StoreNextInv, PTL DEF StoreSpec

\* A reset never restores the configuration it removed (state.rs:132).
THEOREM Forgets == StoreSpec => []ResetForgets
<1>1. StoreInv => ResetForgets
  <2> SUFFICES ASSUME StoreInv, Load # Unset, Load.configured
               PROVE  Load.version > resetAt
    BY DEF ResetForgets
  <2>1. CommittedSnapshot # Unset
    BY DEF Load
  <2>2. /\ marker \in Commits /\ CommittedSnapshot \in {marker.active, marker.previous}
        /\ Load = CommittedSnapshot.sum
    BY <2>1, CommittedNamed
  <2>3. Fresh(CommittedSnapshot)
    BY <2>1, <2>2 DEF StoreInv, MarkerFresh, FreshCommit
  <2> QED
    BY <2>2, <2>3 DEF Fresh
<1> QED
  BY <1>1, StoreInitInv, StoreNextInv, PTL DEF StoreSpec

-----------------------------------------------------------------------------
(* The store implements one value with a backup.                           *)

\* What is read and what would be read next, by cases on the marker.
Reads ==
  /\ marker \notin Commits => CommittedSnapshot = Unset
  /\ marker \in Commits /\ Holds(marker.active) => CommittedSnapshot = marker.active
  /\ marker \in Commits /\ ~Holds(marker.active)
       /\ marker.previous # Unset /\ Holds(marker.previous)
     => CommittedSnapshot = marker.previous
  /\ marker \in Commits /\ ~Holds(marker.active)
       /\ (marker.previous = Unset \/ ~Holds(marker.previous))
     => CommittedSnapshot = Unset

Spares ==
  Spare = IF marker \in Commits /\ Holds(marker.active)
               /\ marker.previous # Unset /\ Holds(marker.previous)
          THEN marker.previous.sum ELSE Unset

LEMMA ReadsHolds == StoreTypeOK => Reads
<1> SUFFICES ASSUME StoreTypeOK
             PROVE  Reads
  OBVIOUS
<1>1. CASE marker \notin Commits
  BY <1>1 DEF Reads, CommittedSnapshot, Candidates
<1>2. CASE marker \in Commits
  <2>1. marker.active # Unset /\ marker.active \in Snapshots
    BY <1>2 DEF Commits
  <2>2. Candidates = {snap \in {marker.active, marker.previous} :
                        snap # Unset /\ Holds(snap)}
    BY <1>2 DEF Candidates
  <2>3. marker.active \in Candidates <=> Holds(marker.active)
    BY <2>1, <2>2
  <2>4. marker.previous \in Candidates
          <=> marker.previous # Unset /\ Holds(marker.previous)
    BY <2>2
  <2>5. Candidates \subseteq {marker.active, marker.previous}
    BY <2>2
  <2> QED
    BY <1>2, <2>3, <2>4, <2>5 DEF Reads, CommittedSnapshot
<1> QED
  BY <1>1, <1>2

LEMMA SparesHolds == StoreTypeOK => Spares
<1> SUFFICES ASSUME StoreTypeOK
             PROVE  Spares
  OBVIOUS
<1>1. Reads
  BY ReadsHolds
<1>2. CASE marker \notin Commits
  BY <1>1, <1>2 DEF Reads, Spares, Spare
<1>3. CASE marker \in Commits
  <2>1. marker \in TwoSlots
    BY <1>3 DEF StoreTypeOK
  <2>2. marker.active \in Snapshots
        /\ (marker.previous # Unset => marker.previous # marker.active)
    BY <2>1 DEF TwoSlots, Commits
  <2>3. marker.previous \in Candidates
          <=> marker.previous # Unset /\ Holds(marker.previous)
    BY <1>3 DEF Candidates
  <2>4. CASE Holds(marker.active)
    <3>1. CommittedSnapshot = marker.active /\ CommittedSnapshot # Unset
      BY <1>1, <1>3, <2>2, <2>4 DEF Reads
    <3>2. marker.previous \in Candidates => slot[marker.previous.slot] = marker.previous.sum
      BY <2>3 DEF Holds
    <3> QED
      BY <1>3, <2>2, <2>3, <2>4, <3>1, <3>2 DEF Spares, Spare
  <2>5. CASE ~Holds(marker.active)
    <3>1. CommittedSnapshot # marker.active \/ CommittedSnapshot = Unset
      BY <1>1, <1>3, <2>2, <2>5, CommittedNamed
    <3> QED
      BY <2>5, <3>1 DEF Spares, Spare
  <2> QED
    BY <2>4, <2>5
<1> QED
  BY <1>2, <1>3

\* While a save is under way its slot holds what it wrote or garbage, and
\* the fallback it names is what is read, unless that was corrupted since.
SavingInUse ==
  saving # Unset =>
    /\ slot[saving.active.slot] \in {saving.active.sum, Corrupt}
    /\ CommittedSnapshot # Unset =>
         /\ CommittedSnapshot.slot # saving.active.slot
         /\ saving.previous = Previous(CommittedSnapshot, saving.active.sum)
    /\ CommittedSnapshot = Unset /\ saving.previous # Unset => ~Holds(saving.previous)
    /\ Spare = Unset

StoreReadInv == StoreInv /\ SavingInUse

\* Which values are read depends on the slots and the marker alone.
LEMMA ReadUnchanged ==
  ASSUME UNCHANGED <<slot, marker>>
  PROVE  CommittedSnapshot' = CommittedSnapshot /\ Load' = Load /\ Spare' = Spare
BY DEF CommittedSnapshot, Candidates, Holds, Load, Spare

\* Preparing a save changes nothing that is read, and uses up the backup.
LEMMA SaveSlotReads ==
  ASSUME StoreInv, StoreInv', NEW configured \in BOOLEAN, SaveSlot(configured)
  PROVE  CommittedSnapshot' = CommittedSnapshot /\ Load' = Load /\ Spare' = Unset
<1> DEFINE state == [version |-> next, configured |-> configured]
           target == Target(CommittedSnapshot)
<1>1. slot' = [slot EXCEPT ![target] = state] /\ marker' = marker
  BY DEF SaveSlot
<1>2. /\ slot \in [StateSlots -> States \cup {Unset, Corrupt}] /\ target \in StateSlots
      /\ marker \in TwoSlots \cup {Unset, Corrupt}
  BY TargetInactive DEF StoreInv, StoreTypeOK
<1>3. Reads /\ Reads' /\ Spares /\ Spares'
  <2>1. (StoreTypeOK => Reads)' /\ (StoreTypeOK => Spares)'
    BY ReadsHolds, SparesHolds, PTL
  <2> QED
    BY <2>1, ReadsHolds, SparesHolds DEF StoreInv
<1>4. \A snap \in Snapshots :
        /\ Fresh(snap) /\ snap.slot = target => ~Holds(snap)'
        /\ snap.slot # target => (Holds(snap)' <=> Holds(snap))
  <2> SUFFICES ASSUME NEW snap \in Snapshots
               PROVE  /\ Fresh(snap) /\ snap.slot = target => ~Holds(snap)'
                      /\ snap.slot # target => (Holds(snap)' <=> Holds(snap))
    OBVIOUS
  <2>1. snap.slot \in StateSlots
    BY DEF Snapshots
  <2>2. snap.slot = target => slot'[snap.slot] = state
    BY <1>1, <1>2, <2>1
  <2>3. snap.slot # target => slot'[snap.slot] = slot[snap.slot]
    BY <1>1, <1>2, <2>1
  <2>4. state.version = next /\ next \in Nat
    BY DEF StoreInv, StoreTypeOK
  <2>5. Fresh(snap) => snap.sum # state
    <3>1. snap.sum \in States
      BY DEF Snapshots
    <3> QED
      BY <2>4, <3>1 DEF Fresh, States
  <2>6. Holds(snap)' <=> slot'[snap.slot] = snap.sum
    BY DEF Holds
  <2> HIDE DEF state
  <2> QED
    BY <2>2, <2>3, <2>5, <2>6 DEF Holds
<1> HIDE DEF target, state
<1>5. CASE marker \notin Commits
  BY <1>1, <1>3, <1>5 DEF Reads, Spares, Load
<1>6. CASE marker \in Commits
  <2> PICK a, p : a = marker.active /\ p = marker.previous
    OBVIOUS
  <2>1. /\ a \in Snapshots /\ Fresh(a)
        /\ p # Unset => p \in Snapshots /\ Fresh(p) /\ p.slot # a.slot
    BY <1>2, <1>6 DEF TwoSlots, Commits, StoreInv, MarkerFresh, FreshCommit
  <2>2. CommittedSnapshot # Unset => target # CommittedSnapshot.slot
    BY TargetInactive DEF target
  <2>3. marker'.active = a /\ marker'.previous = p /\ marker' \in Commits
    BY <1>1, <1>6
  <2>4. a # Unset
    BY <2>1
  <2>5. /\ Holds(a)' => Holds(a)
        /\ p # Unset /\ Holds(p)' => Holds(p)
    BY <1>4, <2>1
  <2>6. a.slot \in StateSlots /\ (p # Unset => p.slot \in StateSlots)
    BY <2>1 DEF Snapshots
  <2>7. CASE Holds(a)
    <3>1. CommittedSnapshot = a /\ target # a.slot
      BY <1>3, <1>6, <2>2, <2>4, <2>7 DEF Reads
    <3>2. Holds(a)' /\ (p # Unset => p.slot = target)
      BY <1>2, <1>4, <2>1, <2>6, <2>7, <3>1 DEF StateSlots
    <3>3. p # Unset => ~Holds(p)'
      BY <1>4, <2>1, <3>2
    <3>4. CommittedSnapshot' = a
      BY <1>3, <2>3, <3>2 DEF Reads
    <3>5. Spare' = Unset
      BY <1>3, <2>3, <3>3 DEF Spares
    <3>6. slot'[a.slot] = slot[a.slot]
      BY <3>2, <2>7 DEF Holds
    <3> QED
      BY <2>4, <3>1, <3>4, <3>5, <3>6 DEF Load
  <2>8. CASE ~Holds(a)
    <3>1. ~Holds(a)' /\ Spare' = Unset
      BY <1>3, <2>3, <2>5, <2>8 DEF Spares
    <3>2. CASE p # Unset /\ Holds(p)
      <4>1. CommittedSnapshot = p
        BY <1>3, <1>6, <2>8, <3>2 DEF Reads
      <4>2. Holds(p)'
        BY <1>4, <2>1, <2>2, <3>2, <4>1
      <4>3. CommittedSnapshot' = p
        BY <1>3, <2>3, <3>1, <3>2, <4>2 DEF Reads
      <4>4. slot'[p.slot] = slot[p.slot]
        BY <3>2, <4>2 DEF Holds
      <4> QED
        BY <3>1, <3>2, <4>1, <4>3, <4>4 DEF Load
    <3>3. CASE ~(p # Unset /\ Holds(p))
      <4>1. CommittedSnapshot = Unset
        BY <1>3, <1>6, <2>8, <3>3 DEF Reads
      <4>2. CommittedSnapshot' = Unset
        BY <1>3, <2>3, <2>5, <3>1, <3>3 DEF Reads
      <4> QED
        BY <3>1, <4>1, <4>2 DEF Load
    <3> QED
      BY <3>2, <3>3
  <2> QED
    BY <2>7, <2>8
<1> QED
  BY <1>5, <1>6

\* A corrupted slot leaves what is read alone, or what it falls back on, or
\* nothing; and nothing more to fall back on.
LEMMA CorruptSlotReads ==
  ASSUME StoreInv, StoreInv', NEW s \in StateSlots, CorruptSlot(s)
  PROVE  /\ Spare' = Unset
         /\ \/ CommittedSnapshot' = CommittedSnapshot /\ Load' = Load
            \/ CommittedSnapshot' = Unset /\ Load' = Unset /\ CommittedSnapshot # Unset /\ CommittedSnapshot.slot = s
            \/ Spare # Unset /\ Load' = Spare
         /\ \A snap \in Snapshots : slot'[snap.slot] = snap.sum => Holds(snap)
<1>1. slot' = [slot EXCEPT ![s] = Corrupt] /\ marker' = marker
  BY DEF CorruptSlot
<1>2. /\ slot \in [StateSlots -> States \cup {Unset, Corrupt}]
      /\ marker \in TwoSlots \cup {Unset, Corrupt}
  BY DEF StoreInv, StoreTypeOK
<1>3. Reads /\ Reads' /\ Spares /\ Spares'
  <2>1. (StoreTypeOK => Reads)' /\ (StoreTypeOK => Spares)'
    BY ReadsHolds, SparesHolds, PTL
  <2> QED
    BY <2>1, ReadsHolds, SparesHolds DEF StoreInv
<1>4. \A snap \in Snapshots :
        /\ snap.slot = s => ~Holds(snap)'
        /\ snap.slot # s => (Holds(snap)' <=> Holds(snap))
  BY <1>1, <1>2 DEF Holds, Snapshots
<1>5. \A snap \in Snapshots : slot'[snap.slot] = snap.sum => Holds(snap)
  BY <1>1, <1>2 DEF Holds, Snapshots
<1>6. CASE marker \notin Commits
  BY <1>1, <1>3, <1>5, <1>6 DEF Reads, Spares, Load
<1>7. CASE marker \in Commits
  <2> PICK a, p : a = marker.active /\ p = marker.previous
    OBVIOUS
  <2>1. /\ a \in Snapshots /\ a.slot \in StateSlots /\ a # Unset
        /\ p # Unset => p \in Snapshots /\ p.slot \in StateSlots /\ p.slot # a.slot
    BY <1>2, <1>7 DEF TwoSlots, Commits, Snapshots
  <2>2. marker'.active = a /\ marker'.previous = p /\ marker' \in Commits
    BY <1>1, <1>7
  <2>3. CASE Holds(a) /\ a.slot # s
    <3>1. Holds(a)' /\ (p # Unset => p.slot = s)
      BY <1>4, <2>1, <2>3 DEF StateSlots
    <3>2. p # Unset => ~Holds(p)'
      BY <1>4, <2>1, <3>1
    <3>3. CommittedSnapshot = a /\ CommittedSnapshot' = a /\ Spare' = Unset
      BY <1>3, <1>7, <2>2, <2>3, <3>1, <3>2 DEF Reads, Spares
    <3>4. slot'[a.slot] = slot[a.slot]
      BY <1>1, <1>2, <2>1, <2>3
    <3> QED
      BY <1>5, <3>3, <3>4 DEF Load
  <2>4. CASE Holds(a) /\ a.slot = s
    <3>1. ~Holds(a)' /\ (p # Unset => (Holds(p)' <=> Holds(p)))
      BY <1>4, <2>1, <2>4
    <3>2. CommittedSnapshot = a /\ Spare' = Unset
      BY <1>3, <1>7, <2>2, <2>4, <3>1 DEF Reads, Spares
    <3>3. CASE p # Unset /\ Holds(p)
      <4>1. CommittedSnapshot' = p /\ slot'[p.slot] = p.sum
        BY <1>3, <2>2, <3>1, <3>3 DEF Reads, Holds
      <4>2. Spare = p.sum
        BY <1>3, <1>7, <2>4, <3>3 DEF Spares
      <4>3. p.sum # Unset
        BY <2>1, <3>3 DEF Snapshots
      <4> QED
        BY <1>5, <3>2, <3>3, <4>1, <4>2, <4>3 DEF Load
    <3>4. CASE ~(p # Unset /\ Holds(p))
      <4>1. CommittedSnapshot' = Unset
        BY <1>3, <2>2, <3>1, <3>4 DEF Reads
      <4> QED
        BY <1>5, <2>1, <2>4, <3>2, <4>1 DEF Load
    <3> QED
      BY <3>3, <3>4
  <2>5. CASE ~Holds(a)
    <3>1. ~Holds(a)' /\ Spare' = Unset
      BY <1>3, <1>4, <2>1, <2>2, <2>5 DEF Spares
    <3>2. CASE p # Unset /\ Holds(p) /\ p.slot # s
      <4>1. CommittedSnapshot = p /\ CommittedSnapshot' = p /\ slot'[p.slot] = slot[p.slot]
        BY <1>1, <1>2, <1>3, <1>4, <1>7, <2>1, <2>2, <2>5, <3>1, <3>2 DEF Reads
      <4> QED
        BY <1>5, <3>1, <3>2, <4>1 DEF Load
    <3>3. CASE p # Unset /\ Holds(p) /\ p.slot = s
      <4>1. CommittedSnapshot = p /\ CommittedSnapshot' = Unset
        BY <1>3, <1>4, <1>7, <2>1, <2>2, <2>5, <3>1, <3>3 DEF Reads
      <4> QED
        BY <1>5, <3>1, <3>3, <4>1 DEF Load
    <3>4. CASE ~(p # Unset /\ Holds(p))
      <4>1. p # Unset => ~Holds(p)'
        BY <1>4, <2>1, <3>4
      <4>2. CommittedSnapshot = Unset /\ CommittedSnapshot' = Unset
        BY <1>3, <1>7, <2>2, <2>5, <3>1, <3>4, <4>1 DEF Reads
      <4> QED
        BY <1>5, <3>1, <4>2 DEF Load
    <3> QED
      BY <3>2, <3>3, <3>4
  <2> QED
    BY <2>3, <2>4, <2>5
<1> QED
  BY <1>6, <1>7

-----------------------------------------------------------------------------
(* Each step is a step of the abstract value, or none.                     *)

AbstractStep == [Durable!Next]_Durable!vars

LEMMA SaveSlotStep ==
  ASSUME StoreReadInv, StoreInv', NEW configured \in BOOLEAN, SaveSlot(configured)
  PROVE  SavingInUse' /\ AbstractStep
<1> DEFINE state == [version |-> next, configured |-> configured]
           c == [active |-> [slot |-> Target(CommittedSnapshot), sum |-> state],
                 previous |-> Previous(CommittedSnapshot, state)]
<1>1. slot' = [slot EXCEPT ![Target(CommittedSnapshot)] = state] /\ saving' = c
  BY DEF SaveSlot
<1>2. CommittedSnapshot' = CommittedSnapshot /\ Load' = Load /\ Spare' = Unset
  BY SaveSlotReads DEF StoreReadInv
<1>3. slot'[Target(CommittedSnapshot)] = state
  BY <1>1, TargetInactive DEF StoreReadInv, StoreInv, StoreTypeOK
<1>4. /\ c.active.slot = Target(CommittedSnapshot) /\ c.active.sum = state
      /\ c.previous = Previous(CommittedSnapshot, state)
  OBVIOUS
<1> HIDE DEF state, c
<1>5. CommittedSnapshot = Unset => Previous(CommittedSnapshot, state) = Unset
  BY DEF Previous
<1>6. SavingInUse'
  BY <1>1, <1>2, <1>3, <1>4, <1>5, TargetInactive DEF SavingInUse
<1>7. AbstractStep
  BY <1>2 DEF AbstractStep, Durable!Next, Durable!LoseBackup
<1> QED
  BY <1>6, <1>7

LEMMA SaveMarkerStep ==
  ASSUME StoreReadInv, StoreInv', SaveMarker
  PROVE  SavingInUse' /\ AbstractStep
<1>1. saving # Unset /\ marker' = saving /\ saving' = Unset /\ slot' = slot
  BY DEF SaveMarker
<1>2. SavingInUse'
  BY <1>1 DEF SavingInUse
<1>3. Reads' /\ Spares'
  <2>1. (StoreTypeOK => Reads)' /\ (StoreTypeOK => Spares)'
    BY ReadsHolds, SparesHolds, PTL
  <2> QED
    BY <2>1 DEF StoreInv
<1> PICK a, p : a = saving.active /\ p = saving.previous
  OBVIOUS
<1>4. /\ marker' \in Commits /\ marker'.active = a /\ marker'.previous = p
      /\ a \in Snapshots /\ a.sum \in States
      /\ p # Unset => p \in Snapshots
  BY <1>1 DEF StoreReadInv, StoreInv, StoreTypeOK, TwoSlots, Commits, Snapshots
<1>5. /\ Holds(a)' <=> Holds(a)
      /\ Holds(p)' <=> Holds(p)
  BY <1>1 DEF Holds
<1>6. /\ CommittedSnapshot # Unset => p = Previous(CommittedSnapshot, a.sum)
      /\ CommittedSnapshot = Unset /\ p # Unset => ~Holds(p)
  BY <1>1 DEF StoreReadInv, SavingInUse
<1>7. p # Unset /\ Holds(p) => CommittedSnapshot = p /\ Load = p.sum
  BY <1>4, <1>6, PreviousNamed, CommittedNamed
<1>8. CASE Holds(a)
  <2>1. Load' = a.sum
    BY <1>1, <1>3, <1>4, <1>5, <1>8 DEF Reads, Load, Holds
  <2>2. Spare' = IF p # Unset /\ Holds(p) THEN p.sum ELSE Unset
    BY <1>3, <1>4, <1>5, <1>8 DEF Spares
  <2>3. Spare' = Durable!Kept(Load, a.sum)
    <3>1. CASE CommittedSnapshot = Unset
      BY <1>6, <2>2, <3>1 DEF Durable!Kept, Load
    <3>2. CASE CommittedSnapshot # Unset
      <4>1. Load = CommittedSnapshot.sum /\ Holds(CommittedSnapshot) /\ Load # Unset
        BY <3>2, CommittedNamed DEF Snapshots
      <4> QED
        BY <1>6, <2>2, <3>2, <4>1 DEF Durable!Kept, Previous, IsConfigured
    <3> QED
      BY <3>1, <3>2
  <2>4. Durable!Commit(a.sum)
    BY <2>1, <2>3 DEF Durable!Commit
  <2> QED
    BY <1>2, <1>4, <2>4 DEF AbstractStep, Durable!Next
<1>9. CASE ~Holds(a)
  <2>1. Spare' = Unset
    BY <1>3, <1>4, <1>5, <1>9 DEF Spares
  <2>2. Load' = Load \/ Load' = Unset
    <3>1. CASE p # Unset /\ Holds(p)
      BY <1>1, <1>3, <1>4, <1>5, <1>7, <1>9, <3>1 DEF Reads, Load, Holds
    <3>2. CASE ~(p # Unset /\ Holds(p))
      BY <1>3, <1>4, <1>5, <1>9, <3>2 DEF Reads, Load
    <3> QED
      BY <3>1, <3>2
  <2> QED
    BY <1>2, <2>1, <2>2 DEF AbstractStep, Durable!Next, Durable!LoseBackup, Durable!LoseAll
<1> QED
  BY <1>8, <1>9

LEMMA CorruptSlotStep ==
  ASSUME StoreReadInv, StoreInv', NEW s \in StateSlots, CorruptSlot(s)
  PROVE  SavingInUse' /\ AbstractStep
<1>1. slot' = [slot EXCEPT ![s] = Corrupt] /\ saving' = saving
  BY DEF CorruptSlot
<1>2. /\ Spare' = Unset
      /\ \/ CommittedSnapshot' = CommittedSnapshot /\ Load' = Load
         \/ CommittedSnapshot' = Unset /\ Load' = Unset /\ CommittedSnapshot # Unset /\ CommittedSnapshot.slot = s
         \/ Spare # Unset /\ Load' = Spare
      /\ \A snap \in Snapshots : slot'[snap.slot] = snap.sum => Holds(snap)
  BY CorruptSlotReads DEF StoreReadInv
<1>3. AbstractStep
  BY <1>2 DEF AbstractStep, Durable!Next, Durable!LoseBackup, Durable!LoseAll,
              Durable!LoseValue
<1>4. SavingInUse'
  <2> SUFFICES ASSUME saving # Unset
               PROVE  SavingInUse'
    BY <1>1 DEF SavingInUse
  <2> PICK a, p : a = saving.active /\ p = saving.previous
    OBVIOUS
  <2>1. /\ a \in Snapshots /\ a.slot \in StateSlots /\ a.sum \in States
        /\ p # Unset => p \in Snapshots /\ p.slot \in StateSlots /\ p.sum \in States
    BY DEF StoreReadInv, StoreInv, StoreTypeOK, TwoSlots, Commits, Snapshots
  <2>2. slot'[a.slot] \in {a.sum, Corrupt}
    BY <1>1, <2>1 DEF StoreReadInv, StoreInv, StoreTypeOK, SavingInUse
  <2>3. CommittedSnapshot' = CommittedSnapshot \/ (CommittedSnapshot' = Unset /\ CommittedSnapshot.slot = s)
    BY <1>2 DEF StoreReadInv, SavingInUse
  <2>4. CommittedSnapshot' # Unset => CommittedSnapshot'.slot # a.slot /\ p = Previous(CommittedSnapshot', a.sum)
    BY <2>3 DEF StoreReadInv, SavingInUse
  <2>5. CommittedSnapshot' = Unset /\ p # Unset => slot'[p.slot] # p.sum
    <3>1. CASE CommittedSnapshot = Unset
      BY <1>2, <2>1, <3>1 DEF StoreReadInv, SavingInUse
    <3>2. CASE CommittedSnapshot # Unset
      <4>1. p # Unset => p = CommittedSnapshot
        BY <3>2, <2>1, PreviousNamed DEF StoreReadInv, SavingInUse
      <4> QED
        BY <1>1, <2>1, <2>3, <3>2, <4>1 DEF StoreReadInv, StoreInv, StoreTypeOK
    <3> QED
      BY <3>1, <3>2
  <2> QED
    BY <1>1, <1>2, <2>2, <2>4, <2>5 DEF SavingInUse, Holds
<1> QED
  BY <1>3, <1>4

LEMMA CorruptMarkerStep ==
  ASSUME StoreReadInv, StoreInv', CorruptMarker
  PROVE  SavingInUse' /\ AbstractStep
<1>1. marker' = Corrupt /\ saving' = Unset
  BY DEF CorruptMarker
<1>2. CommittedSnapshot' = Unset /\ Load' = Unset
  BY <1>1 DEF CommittedSnapshot, Candidates, Load
<1>3. Spare' = Unset
  BY <1>2 DEF Spare
<1> QED
  BY <1>1, <1>2, <1>3
  DEF SavingInUse, AbstractStep, Durable!Next, Durable!LoseAll

LEMMA StepRefines == StoreReadInv /\ [StoreNext]_storeVars => StoreReadInv' /\ AbstractStep
<1> SUFFICES ASSUME StoreReadInv, [StoreNext]_storeVars
             PROVE  SavingInUse' /\ AbstractStep
  BY StoreNextInv DEF StoreReadInv
<1>1. StoreInv'
  BY StoreNextInv DEF StoreReadInv
<1>2. CASE UNCHANGED storeVars
  <2>1. UNCHANGED <<CommittedSnapshot, Load, Spare>>
    BY <1>2, ReadUnchanged DEF storeVars
  <2> QED
    BY <1>2, <2>1 DEF storeVars, StoreReadInv, SavingInUse, Holds, AbstractStep, Durable!vars
<1>3. CASE \E configured \in BOOLEAN : SaveSlot(configured)
  BY <1>1, <1>3, SaveSlotStep
<1>4. CASE SaveMarker
  BY <1>1, <1>4, SaveMarkerStep
<1>5. CASE Abandon
  <2>1. UNCHANGED <<slot, marker>> /\ saving' = Unset
    BY <1>5 DEF Abandon
  <2>2. UNCHANGED <<Load, Spare>>
    BY <2>1, ReadUnchanged
  <2> QED
    BY <2>1, <2>2 DEF SavingInUse, AbstractStep, Durable!vars
<1>6. CASE \E s \in StateSlots : CorruptSlot(s)
  BY <1>1, <1>6, CorruptSlotStep
<1>7. CASE CorruptMarker
  BY <1>1, <1>7, CorruptMarkerStep
<1> QED
  BY <1>2, <1>3, <1>4, <1>5, <1>6, <1>7 DEF StoreNext

\* The two slots and the marker implement one value with one backup: a
\* corrupt active snapshot falls back only to the one it replaced, and an
\* interrupted write never becomes one (architecture.md:188).
THEOREM Implements == StoreSpec => ImplementsDurable
<1>1. StoreInit => StoreReadInv /\ Durable!Init
  <2> SUFFICES ASSUME StoreInit
               PROVE  SavingInUse /\ Durable!Init
    BY StoreInitInv DEF StoreReadInv
  <2>1. CommittedSnapshot = Unset
    BY DEF StoreInit, CommittedSnapshot, Candidates
  <2> QED
    BY <2>1 DEF StoreInit, SavingInUse, Durable!Init, Load, Spare
<1>2. StoreReadInv /\ [StoreNext]_storeVars => StoreReadInv' /\ [Durable!Next]_Durable!vars
  BY StepRefines DEF AbstractStep
<1> QED
  BY <1>1, <1>2, PTL DEF StoreSpec, ImplementsDurable, Durable!Spec

\* Overwriting the inactive slot changes nothing that is read: power loss
\* before the marker leaves the prior generation active.
THEOREM KeepsCurrent == StoreSpec => SaveKeepsCurrent
<1>1. StoreInv /\ [StoreNext]_storeVars => [saving = Unset /\ saving' # Unset => Load' = Load]_storeVars
  <2> SUFFICES ASSUME StoreInv, StoreNext, saving = Unset, saving' # Unset
               PROVE  Load' = Load
    BY DEF storeVars
  <2>1. PICK configured \in BOOLEAN : SaveSlot(configured)
    BY DEF StoreNext, SaveMarker, Abandon, CorruptSlot, CorruptMarker
  <2> QED
    BY <2>1, StoreNextInv, SaveSlotReads
<1> QED
  BY <1>1, StoreInitInv, StoreNextInv, PTL DEF StoreSpec, SaveKeepsCurrent

-----------------------------------------------------------------------------
(* The device's log: what a line was numbered it stays, and the last lines *)
(* before a reset are there after it.                                      *)

\* A number that will do has a least one.
LEMMA LeastOf ==
  ASSUME NEW T \in SUBSET Nat, T # {}
  PROVE  \E n \in T : \A m \in T : n <= m
<1>1. IsWellFoundedOn(OpToRel(<, Nat), Nat)
  BY NatLessThanWellFounded
<1>2. PICK n \in T : \A m \in T : ~(<<m, n>> \in OpToRel(<, Nat))
  <2>1. T \subseteq Nat /\ T # {}
    OBVIOUS
  <2> QED BY <1>1, <2>1, WFMin
<1>3. \A m \in T : ~(m < n)
  BY <1>2, LessOnNat
<1> QED BY <1>3

\* The bytes up to each line, which the definition by recursion means.
Sums(s, F) ==
  F = [i \in 0 .. Len(s) |-> IF i = 0 THEN 0 ELSE F[i - 1] + s[i].length + 1]

LEMMA SumsExist ==
  ASSUME NEW s \in Seq(Lines)
  PROVE  \E F : Sums(s, F) /\ BytesOf(s) = F[Len(s)]
<1> DEFINE Upto(F, n) == F = [i \in 0 .. n |-> IF i = 0 THEN 0 ELSE F[i - 1] + s[i].length + 1]
           T == {n \in Nat : \E F : Upto(F, n)}
<1>1. 0 \in T
  <2> DEFINE F == [i \in 0 .. 0 |-> 0]
  <2>1. F = [i \in 0 .. 0 |-> IF i = 0 THEN 0 ELSE F[i - 1] + s[i].length + 1]
    OBVIOUS
  <2>2. Upto(F, 0)
    BY <2>1
  <2> QED
    BY <2>2
<1>2. ASSUME NEW n \in Nat, n \in T
      PROVE  n + 1 \in T
  <2>1. PICK F : F = [i \in 0 .. n |-> IF i = 0 THEN 0 ELSE F[i - 1] + s[i].length + 1]
    BY <1>2
  <2> DEFINE G == [i \in 0 .. n + 1 |-> IF i = n + 1 THEN F[n] + s[n + 1].length + 1 ELSE F[i]]
  <2>2. ASSUME NEW i \in 0 .. n + 1
        PROVE  G[i] = IF i = 0 THEN 0 ELSE G[i - 1] + s[i].length + 1
    <3>1. CASE i = 0
      BY <2>1, <3>1
    <3>2. CASE i \in 1 .. n
      <4>1. i - 1 \in 0 .. n + 1 /\ i - 1 # n + 1 /\ i # n + 1 /\ i \in 0 .. n /\ i # 0
        BY <3>2
      <4>2. G[i - 1] = F[i - 1] /\ G[i] = F[i]
        BY <4>1
      <4>3. F[i] = F[i - 1] + s[i].length + 1
        BY <2>1, <4>1
      <4> QED
        BY <4>1, <4>2, <4>3
    <3>3. CASE i = n + 1
      <4>1. i - 1 = n /\ n # n + 1 /\ n \in 0 .. n + 1 /\ i # 0
        BY <3>3
      <4>2. G[i - 1] = F[n]
        BY <4>1
      <4> QED
        BY <3>3, <4>1, <4>2
    <3> QED
      BY <3>1, <3>2, <3>3
  <2>3. G = [i \in 0 .. n + 1 |-> IF i = 0 THEN 0 ELSE G[i - 1] + s[i].length + 1]
    BY <2>2
  <2> HIDE DEF G
  <2>4. Upto(G, n + 1)
    BY <2>3
  <2>5. n + 1 \in Nat
    OBVIOUS
  <2> HIDE DEF Upto
  <2> QED
    BY <2>4, <2>5
<1>3. Len(s) \in T
  <2> HIDE DEF T
  <2> QED
    BY <1>1, <1>2, SetInduction
<1> DEFINE total == CHOOSE F : Sums(s, F)
<1>4. Sums(s, total)
  <2>1. \E F : Sums(s, F)
    BY <1>3 DEF Sums
  <2> HIDE DEF T
  <2> QED
    BY <2>1
<1>5. BytesOf(s) = total[Len(s)]
  BY DEF BytesOf, Sums
<1> QED
  BY <1>4, <1>5

\* A sum so far depends on the lines so far.
LEMMA SumsAgree ==
  ASSUME NEW s \in Seq(Lines), NEW t \in Seq(Lines), NEW F, Sums(s, F), NEW G, Sums(t, G),
         Len(t) <= Len(s), \A i \in 1 .. Len(t) : s[i] = t[i]
  PROVE  F[Len(t)] = G[Len(t)]
<1> DEFINE T == {n \in Nat : n <= Len(t) => F[n] = G[n]}
<1>1. 0 \in T
  BY DEF Sums
<1>2. ASSUME NEW n \in Nat, n \in T
      PROVE  n + 1 \in T
  <2>1. CASE n + 1 <= Len(t)
    <3>1. n + 1 \in 1 .. Len(t) /\ n + 1 # 0 /\ (n + 1) - 1 = n
          /\ n + 1 \in 0 .. Len(s) /\ n + 1 \in 0 .. Len(t) /\ n <= Len(t)
      BY <2>1
    <3>2. F[n + 1] = F[n] + s[n + 1].length + 1 /\ G[n + 1] = G[n] + t[n + 1].length + 1
      BY <3>1 DEF Sums
    <3> QED
      BY <1>2, <3>1, <3>2
  <2>2. CASE ~(n + 1 <= Len(t))
    BY <2>2
  <2> QED
    BY <2>1, <2>2
<1>3. Len(t) \in T
  <2>1. Len(t) \in Nat
    OBVIOUS
  <2> HIDE DEF T
  <2> QED
    BY <1>1, <1>2, <2>1, SetInduction
<1> QED
  BY <1>3

LEMMA BytesType ==
  ASSUME NEW s \in Seq(Lines)
  PROVE  BytesOf(s) \in Nat
<1>1. PICK F : Sums(s, F) /\ BytesOf(s) = F[Len(s)]
  BY SumsExist
<1> DEFINE T == {n \in Nat : n <= Len(s) => F[n] \in Nat}
<1>2. 0 \in T
  BY <1>1 DEF Sums
<1>3. ASSUME NEW n \in Nat, n \in T
      PROVE  n + 1 \in T
  <2>1. CASE n + 1 <= Len(s)
    <3>1. n + 1 \in 1 .. Len(s) /\ n + 1 # 0 /\ (n + 1) - 1 = n
          /\ n + 1 \in 0 .. Len(s) /\ n <= Len(s)
      BY <2>1
    <3>2. F[n + 1] = F[n] + s[n + 1].length + 1
      BY <1>1, <3>1 DEF Sums
    <3>3. s[n + 1] \in Lines
      BY <3>1
    <3>4. s[n + 1].length \in Nat
      BY <3>3 DEF Lines
    <3>5. F[n] \in Nat
      BY <1>3, <3>1
    <3>6. F[n + 1] \in Nat
      BY <3>2, <3>4, <3>5
    <3> QED
      BY <3>6
  <2>2. CASE ~(n + 1 <= Len(s))
    BY <2>2
  <2> QED
    BY <2>1, <2>2
<1>4. Len(s) \in T
  <2>1. Len(s) \in Nat
    OBVIOUS
  <2> HIDE DEF T
  <2> QED
    BY <1>2, <1>3, <2>1, SetInduction
<1> QED
  BY <1>1, <1>4

LEMMA BytesEmpty == BytesOf(<<>>) = 0
<1>1. <<>> \in Seq(Lines) /\ Len(<<>>) = 0
  OBVIOUS
<1>2. PICK F : Sums(<<>>, F) /\ BytesOf(<<>>) = F[Len(<<>>)]
  BY <1>1, SumsExist
<1>3. F[0] = 0
  BY <1>1, <1>2 DEF Sums
<1> QED
  BY <1>1, <1>2, <1>3

\* One line more adds its length and its newline.
LEMMA BytesMore ==
  ASSUME NEW s \in Seq(Lines), NEW t \in Seq(Lines), Len(s) = Len(t) + 1,
         \A i \in 1 .. Len(t) : s[i] = t[i]
  PROVE  BytesOf(s) = BytesOf(t) + s[Len(s)].length + 1
<1>1. PICK F : Sums(s, F) /\ BytesOf(s) = F[Len(s)]
  BY SumsExist
<1>2. PICK G : Sums(t, G) /\ BytesOf(t) = G[Len(t)]
  BY SumsExist
<1>3. Len(t) <= Len(s) /\ Len(s) \in 0 .. Len(s) /\ Len(s) # 0 /\ Len(s) - 1 = Len(t)
  OBVIOUS
<1>4. F[Len(t)] = G[Len(t)]
  BY <1>1, <1>2, <1>3, SumsAgree
<1>5. F[Len(s)] = F[Len(t)] + s[Len(s)].length + 1
  BY <1>1, <1>3 DEF Sums
<1> QED
  BY <1>1, <1>2, <1>4, <1>5

-----------------------------------------------------------------------------
\* A buffer whose numbers stand, of lines no longer than they may be.
LinesFit(b) == \A i \in 1 .. Len(b.lines) : b.lines[i].length <= MaxLine

SoundLog(b) ==
  /\ b \in Buffers
  /\ Len(b.lines) <= b.next
  /\ b.open => b.lines # <<>>
  /\ LinesFit(b)
  /\ Numbered(b)

LogInv ==
  /\ SoundLog(current)
  /\ BytesOf(current.lines) <= Capacity
  /\ made = current.next
  /\ previous # NoBuffer => SoundLog(previous)

\* What the parts of a buffer are.
LEMMA BufferParts ==
  ASSUME NEW b \in Buffers
  PROVE  /\ b.lines \in Seq(Lines) /\ Len(b.lines) \in Nat
         /\ b.open \in BOOLEAN /\ b.next \in Nat /\ b.dropped \in Nat
         /\ BytesOf(b.lines) \in Nat
<1>1. b.lines \in Seq(Lines) /\ b.open \in BOOLEAN /\ b.next \in Nat /\ b.dropped \in Nat
  BY DEF Buffers
<1> QED
  BY <1>1, BytesType

\* The number of a line, counted from the next one.
LEMMA NumberedBy ==
  ASSUME NEW b \in Buffers, Len(b.lines) <= b.next
  PROVE  Numbered(b) <=>
           \A i \in 1 .. Len(b.lines) : b.lines[i].number = b.next - Len(b.lines) + i - 1
<1>1. b.lines \in Seq(Lines) /\ Len(b.lines) \in Nat /\ b.next \in Nat
  BY BufferParts
<1>2. DOMAIN b.lines = 1 .. Len(b.lines)
  BY <1>1
<1>3. FirstSequence(b) = b.next - Len(b.lines)
  BY <1>1 DEF FirstSequence
<1> QED
  BY <1>2, <1>3 DEF Numbered

\* A buffer with other lines.
LEMMA ChangedParts ==
  ASSUME NEW b \in Buffers, NEW lines, NEW dropped, NEW open
  PROVE  LET c == [b EXCEPT !.lines = lines, !.dropped = dropped, !.open = open]
         IN  /\ c.lines = lines /\ c.dropped = dropped /\ c.open = open /\ c.next = b.next
             /\ lines \in Seq(Lines) /\ dropped \in Nat /\ open \in BOOLEAN => c \in Buffers
BY DEF Buffers

\* Without its first lines a buffer is sound, and its lines are its last.
LEMMA WithoutSound ==
  ASSUME NEW b, SoundLog(b), NEW n \in 0 .. Len(b.lines)
  PROVE  /\ SoundLog(Without(b, n)) /\ Without(b, n).next = b.next
         /\ Without(b, n).lines = SubSeq(b.lines, n + 1, Len(b.lines))
         /\ Len(Without(b, n).lines) = Len(b.lines) - n
         /\ Without(b, n).open => b.open /\ n < Len(b.lines)
<1> DEFINE c == Without(b, n)
           rest == SubSeq(b.lines, n + 1, Len(b.lines))
<1>1. /\ b \in Buffers /\ b.lines \in Seq(Lines) /\ Len(b.lines) \in Nat
      /\ b.open \in BOOLEAN /\ b.next \in Nat /\ b.dropped \in Nat
      /\ Len(b.lines) <= b.next
  BY BufferParts DEF SoundLog
<1>2. /\ c.lines = rest /\ c.next = b.next
      /\ (c.open => b.open /\ n < Len(b.lines)) /\ c.dropped = b.dropped + n
  <2> DEFINE still == b.open /\ n < Len(b.lines)
             dropped == b.dropped + n
  <2>1. c = [b EXCEPT !.lines = rest, !.dropped = dropped, !.open = still]
    BY DEF Without
  <2> HIDE DEF c, rest, dropped, still
  <2>2. c.lines = rest /\ c.next = b.next /\ c.dropped = dropped /\ c.open = still
    <3>1. c.lines = rest /\ c.next = b.next /\ c.dropped = dropped
      BY <1>1, <2>1 DEF Buffers
    <3>2. c.open = still
      BY <1>1, <2>1, Zenon DEF Buffers
    <3> QED
      BY <3>1, <3>2
  <2>3. c.open => b.open /\ n < Len(b.lines)
    BY <2>2, Zenon DEF still
  <2> QED
    BY <2>2, <2>3 DEF dropped
<1>3. /\ rest \in Seq(Lines) /\ Len(rest) = Len(b.lines) - n
      /\ \A i \in 1 .. Len(rest) : rest[i] = b.lines[n + i]
  BY <1>1
<1>4. c \in Buffers
  <2> DEFINE still == b.open /\ n < Len(b.lines)
             dropped == b.dropped + n
  <2>1. dropped \in Nat /\ still \in BOOLEAN
    BY <1>1
  <2>2. c = [b EXCEPT !.lines = rest, !.dropped = dropped, !.open = still]
    BY DEF Without
  <2> HIDE DEF c, rest, dropped, still
  <2> QED
    BY <1>1, <1>3, <2>1, <2>2, ChangedParts
<1>5. Len(c.lines) <= c.next
  BY <1>1, <1>2, <1>3
<1>6. c.open => c.lines # <<>>
  <2> SUFFICES ASSUME n < Len(b.lines) PROVE rest # <<>>
    BY <1>2
  <2>1. n \in Nat
    BY <1>1
  <2> HIDE DEF rest
  <2>2. Len(rest) > 0
    BY <1>1, <1>3, <2>1
  <2> QED
    BY <2>2
<1>7. \A i \in 1 .. Len(rest) : n + i \in 1 .. Len(b.lines)
  BY <1>1, <1>3
<1>8. LinesFit(c)
  BY <1>2, <1>3, <1>7 DEF LinesFit, SoundLog
<1>9. \A i \in 1 .. Len(c.lines) : c.lines[i].number = c.next - Len(c.lines) + i - 1
  <2> SUFFICES ASSUME NEW i \in 1 .. Len(rest)
               PROVE  rest[i].number = b.next - Len(rest) + i - 1
    BY <1>2
  <2>1. b.lines[n + i].number = b.next - Len(b.lines) + (n + i) - 1
    BY <1>1, <1>7, NumberedBy DEF SoundLog
  <2>2. b.next - Len(b.lines) + (n + i) - 1 = b.next - Len(rest) + i - 1
    <3>1. i \in Nat /\ n \in Nat
      BY <1>3
    <3> HIDE DEF rest
    <3> QED
      BY <1>1, <1>3, <3>1
  <2> QED
    BY <1>3, <2>1, <2>2
<1>10. Numbered(c)
  <2> HIDE DEF c
  <2> QED
    BY <1>4, <1>5, <1>9, NumberedBy
<1> QED
  BY <1>2, <1>3, <1>4, <1>5, <1>6, <1>8, <1>10 DEF SoundLog

\* Without any line it takes nothing.
LEMMA WithoutAll ==
  ASSUME NEW b, SoundLog(b)
  PROVE  Stored(Without(b, Len(b.lines))) = 0
<1> DEFINE c == Without(b, Len(b.lines))
<1>1. b \in Buffers /\ Len(b.lines) \in Nat
  BY BufferParts DEF SoundLog
<1>2. Len(b.lines) \in 0 .. Len(b.lines)
  BY <1>1
<1>3. Len(c.lines) = 0 /\ c.open = FALSE /\ SoundLog(c)
  <2>1. /\ SoundLog(c) /\ Len(c.lines) = Len(b.lines) - Len(b.lines)
        /\ c.open => b.open /\ Len(b.lines) < Len(b.lines)
    BY <1>2, WithoutSound
  <2>2. Len(c.lines) = 0 /\ c.open = FALSE
    BY <1>1, <2>1 DEF SoundLog, Buffers
  <2> QED
    BY <2>1, <2>2
<1>4. c.lines = <<>>
  <2>1. c.lines \in Seq(Lines)
    BY <1>3, BufferParts DEF SoundLog
  <2> HIDE DEF c
  <2> QED
    BY <1>3, <2>1
<1> QED
  BY <1>3, <1>4, BytesEmpty DEF Stored

\* Without any but its last line it takes that line and its end.
LEMMA WithoutOthers ==
  ASSUME NEW b, SoundLog(b), b.lines # <<>>
  PROVE  Len(b.lines) - 1 \in 0 .. Len(b.lines)
         /\ Stored(Without(b, Len(b.lines) - 1)) <= MaxLine + 1
<1> DEFINE n == Len(b.lines) - 1
           c == Without(b, n)
<1>1. b.lines \in Seq(Lines) /\ Len(b.lines) \in Nat
  BY BufferParts DEF SoundLog
<1>2. Len(b.lines) > 0 /\ n \in 0 .. Len(b.lines)
  BY <1>1
<1>3. SoundLog(c) /\ Len(c.lines) = 1
  <2>1. SoundLog(c) /\ Len(c.lines) = Len(b.lines) - n
    <3> HIDE DEF n
    <3> QED
      BY <1>2, WithoutSound
  <2> QED
    BY <1>1, <2>1
<1> HIDE DEF c, n
<1>4. c.lines \in Seq(Lines) /\ c.open \in BOOLEAN /\ BytesOf(c.lines) \in Nat
  BY <1>3, BufferParts DEF SoundLog
<1>5. c.lines[1].length <= MaxLine /\ c.lines[1].length \in Nat
  <2>1. c.lines[1] \in Lines /\ 1 \in 1 .. Len(c.lines)
    BY <1>3, <1>4
  <2> QED
    BY <1>3, <2>1 DEF SoundLog, LinesFit, Lines
<1>6. BytesOf(c.lines) = c.lines[1].length + 1
  <2>1. <<>> \in Seq(Lines) /\ Len(<<>>) = 0
    OBVIOUS
  <2>2. Len(c.lines) = Len(<<>>) + 1 /\ \A i \in 1 .. Len(<<>>) : c.lines[i] = <<>>[i]
    BY <1>3, <2>1
  <2>3. BytesOf(c.lines) = BytesOf(<<>>) + c.lines[Len(c.lines)].length + 1
    BY <1>4, <2>1, <2>2, BytesMore
  <2> QED
    BY <1>3, <1>5, <2>3, BytesEmpty
<1>7. Stored(c) <= MaxLine + 1
  BY <1>4, <1>5, <1>6, LogAssumption DEF Stored
<1> QED
  BY <1>2, <1>7 DEF c, n

\* What an eviction leaves is at most three quarters of the buffer.
LEMMA EvictedParts ==
  ASSUME NEW b, SoundLog(b)
  PROVE  \E n \in 0 .. Len(b.lines) :
           Evicted(b) = Without(b, n)
           /\ Stored(Without(b, n)) <= Capacity - (Capacity \div 4)
<1> DEFINE Frees(n) == Stored(Without(b, n)) <= Capacity - (Capacity \div 4)
           T == {n \in 0 .. Len(b.lines) : Frees(n)}
<1>1. Len(b.lines) \in Nat
  BY BufferParts DEF SoundLog
<1>2. Len(b.lines) \in T
  <2>1. 0 <= Capacity - (Capacity \div 4)
    BY LogAssumption
  <2>2. Frees(Len(b.lines))
    BY <2>1, WithoutAll
  <2> HIDE DEF Frees
  <2> QED
    BY <1>1, <2>2
<1>3. PICK k \in T : \A m \in T : k <= m
  <2>1. T \subseteq Nat /\ T # {}
    BY <1>1, <1>2
  <2> HIDE DEF T
  <2> QED
    BY <2>1, LeastOf
<1> DEFINE e == CHOOSE n \in 0 .. Len(b.lines) :
                  Frees(n) /\ \A m \in 0 .. Len(b.lines) : Frees(m) => n <= m
<1>4. e \in 0 .. Len(b.lines) /\ Frees(e)
  <2>1. k \in 0 .. Len(b.lines) /\ Frees(k) /\ \A m \in 0 .. Len(b.lines) : Frees(m) => k <= m
    BY <1>3
  <2> HIDE DEF Frees, T
  <2> QED
    BY <2>1
<1>5. Evicted(b) = Without(b, e)
  BY DEF Evicted
<1> HIDE DEF e
<1> QED
  BY <1>4, <1>5

\* A copy is the buffer without its first lines, and keeps the last one.
LEMMA CopiedParts ==
  ASSUME NEW b, SoundLog(b)
  PROVE  \E n \in 0 .. Len(b.lines) :
           Copied(b) = Without(b, n) /\ (b.lines # <<>> => n < Len(b.lines))
<1> DEFINE Suits(n) == Stored(Without(b, n)) < KeptCapacity
           T == {n \in 0 .. Len(b.lines) : Suits(n)}
<1>1. Len(b.lines) \in Nat
  BY BufferParts DEF SoundLog
<1>2. Len(b.lines) \in T
  <2>1. 0 < KeptCapacity
    BY LogAssumption, CapacityIsSufficient
  <2>2. Suits(Len(b.lines))
    BY <2>1, WithoutAll
  <2> HIDE DEF Suits
  <2> QED
    BY <1>1, <2>2
<1>3. PICK k \in T : \A m \in T : k <= m
  <2>1. T \subseteq Nat /\ T # {}
    BY <1>1, <1>2
  <2> HIDE DEF T
  <2> QED
    BY <2>1, LeastOf
<1> DEFINE e == CHOOSE n \in 0 .. Len(b.lines) :
                  Suits(n) /\ \A m \in 0 .. Len(b.lines) : Suits(m) => n <= m
<1>4. e \in 0 .. Len(b.lines) /\ Suits(e)
      /\ \A m \in 0 .. Len(b.lines) : Suits(m) => e <= m
  <2>1. k \in 0 .. Len(b.lines) /\ Suits(k) /\ \A m \in 0 .. Len(b.lines) : Suits(m) => k <= m
    BY <1>3
  <2> HIDE DEF Suits, T
  <2> QED
    BY <2>1
<1>5. Copied(b) = Without(b, e)
  BY DEF Copied
<1>6. b.lines # <<>> => e < Len(b.lines)
  <2> SUFFICES ASSUME b.lines # <<>> PROVE e < Len(b.lines)
    OBVIOUS
  <2>1. Len(b.lines) - 1 \in 0 .. Len(b.lines)
        /\ Stored(Without(b, Len(b.lines) - 1)) <= MaxLine + 1
    BY WithoutOthers
  <2>2. Stored(Without(b, Len(b.lines) - 1)) \in Int
    <3>1. SoundLog(Without(b, Len(b.lines) - 1))
      BY <2>1, WithoutSound
    <3>2. BytesOf(Without(b, Len(b.lines) - 1).lines) \in Nat
      BY <3>1, BufferParts DEF SoundLog
    <3> QED
      BY <3>2 DEF Stored
  <2>3. MaxLine + 1 < KeptCapacity
    BY LogAssumption, CapacityIsSufficient
  <2>4. Suits(Len(b.lines) - 1)
    BY <2>1, <2>2, <2>3, LogAssumption
  <2>5. e <= Len(b.lines) - 1
    <3> HIDE DEF Suits, e
    <3> QED
      BY <1>4, <2>1, <2>4
  <2> HIDE DEF e
  <2> QED
    BY <1>1, <1>4, <2>5
<1> HIDE DEF e
<1> QED
  BY <1>4, <1>5, <1>6

\* What a line that goes on, or a new one, makes of a sound buffer.
WrittenWell(b, length, c) ==
  /\ SoundLog(c)
  /\ BytesOf(c.lines) = Stored(b) + length + 1
  /\ c.next = b.next \/ c.next = b.next + 1

LEMMA WrittenOn ==
  ASSUME NEW b, SoundLog(b), NEW length \in Nat, b.open,
         b.lines[Len(b.lines)].length + length <= MaxLine
  PROVE  WrittenWell(b, length, Written(b, length))
<1> DEFINE c == Written(b, length)
           last == Len(b.lines)
           line == [b.lines[last] EXCEPT !.length = @ + length]
           lines == [b.lines EXCEPT ![last] = line]
           before == SubSeq(b.lines, 1, last - 1)
<1>1. /\ b \in Buffers /\ b.lines \in Seq(Lines) /\ last \in Nat
      /\ b.open \in BOOLEAN /\ b.next \in Nat /\ b.dropped \in Nat
      /\ last <= b.next /\ BytesOf(b.lines) \in Nat
  BY BufferParts DEF SoundLog
<1>2. last \in 1 .. last /\ last > 0
  BY <1>1 DEF SoundLog
<1>3. b.lines[last] \in Lines
  BY <1>1, <1>2
<1>4. line \in Lines /\ line.length = b.lines[last].length + length
      /\ line.number = b.lines[last].number
  BY <1>3 DEF Lines
<1>5. c = [b EXCEPT !.lines = lines]
  BY DEF Written
<1> HIDE DEF line
<1>6. /\ lines \in Seq(Lines) /\ Len(lines) = last /\ lines[last] = line
      /\ \A i \in 1 .. last : i # last => lines[i] = b.lines[i]
  BY <1>1, <1>2, <1>4
<1> HIDE DEF c, lines
<1>7. /\ c \in Buffers /\ c.lines = lines /\ c.next = b.next /\ c.open = b.open
  BY <1>1, <1>5, <1>6 DEF Buffers
<1>8. \A i \in 1 .. last : lines[i].number = b.lines[i].number
  BY <1>4, <1>6
<1>9. LinesFit(c)
  BY <1>4, <1>6, <1>7 DEF LinesFit, SoundLog
<1>10. Numbered(c)
  <2>1. \A i \in 1 .. last : b.lines[i].number = b.next - last + i - 1
    BY <1>1, NumberedBy DEF SoundLog
  <2>2. \A i \in 1 .. Len(c.lines) : c.lines[i].number = c.next - Len(c.lines) + i - 1
    BY <1>6, <1>7, <1>8, <2>1
  <2> QED
    BY <1>1, <1>6, <1>7, <2>2, NumberedBy
<1>11. SoundLog(c)
  <2>1. c.lines # <<>>
    BY <1>2, <1>6, <1>7
  <2> QED
    BY <1>1, <1>6, <1>7, <1>9, <1>10, <2>1 DEF SoundLog
<1>12. before \in Seq(Lines) /\ Len(before) = last - 1
       /\ \A i \in 1 .. last - 1 : before[i] = b.lines[i]
  BY <1>1, <1>2
<1> HIDE DEF before
<1>13. BytesOf(b.lines) = BytesOf(before) + b.lines[last].length + 1
  BY <1>1, <1>2, <1>12, BytesMore, SMTT(30)
<1>14. BytesOf(lines) = BytesOf(before) + line.length + 1
  <2>1. Len(lines) = Len(before) + 1 /\ \A i \in 1 .. Len(before) : lines[i] = before[i]
    BY <1>1, <1>2, <1>6, <1>12
  <2> QED
    BY <1>6, <1>12, <2>1, BytesMore
<1>15. BytesOf(c.lines) = Stored(b) + length + 1
  <2>1. BytesOf(before) \in Nat /\ b.lines[last].length \in Nat
    BY <1>3, <1>12, BytesType DEF Lines
  <2>2. Stored(b) = BytesOf(b.lines) - 1
    BY DEF Stored
  <2> HIDE DEF last
  <2> QED
    BY <1>4, <1>7, <1>13, <1>14, <2>1, <2>2
<1> QED
  BY <1>7, <1>11, <1>15 DEF WrittenWell, c

LEMMA WrittenNew ==
  ASSUME NEW b, SoundLog(b), NEW length \in Nat, ~b.open, length <= MaxLine, made = b.next
  PROVE  WrittenWell(b, length, Written(b, length))
<1> DEFINE c == Written(b, length)
           line == [length |-> length, number |-> made]
           lines == Append(b.lines, line)
<1>1. /\ b \in Buffers /\ b.lines \in Seq(Lines) /\ Len(b.lines) \in Nat
      /\ b.open \in BOOLEAN /\ b.next \in Nat /\ b.dropped \in Nat
      /\ Len(b.lines) <= b.next /\ BytesOf(b.lines) \in Nat
  BY BufferParts DEF SoundLog
<1>2. line \in Lines /\ line.length = length /\ line.number = b.next
  BY <1>1 DEF Lines
<1>3. c = [b EXCEPT !.lines = lines, !.open = TRUE, !.next = b.next + 1]
  BY DEF Written
<1> HIDE DEF line
<1>4. /\ lines \in Seq(Lines) /\ Len(lines) = Len(b.lines) + 1
      /\ lines[Len(b.lines) + 1] = line
      /\ \A i \in 1 .. Len(b.lines) : lines[i] = b.lines[i]
  BY <1>1, <1>2
<1> HIDE DEF c, lines
<1>5. c \in Buffers /\ c.lines = lines /\ c.next = b.next + 1
  <2>1. b.next + 1 \in Nat
    BY <1>1
  <2> QED
    BY <1>1, <1>3, <1>4, <2>1 DEF Buffers
<1>6. LinesFit(c)
  <2> SUFFICES ASSUME NEW i \in 1 .. Len(lines) PROVE lines[i].length <= MaxLine
    BY <1>5 DEF LinesFit
  <2>1. CASE i \in 1 .. Len(b.lines)
    BY <1>4, <2>1 DEF SoundLog, LinesFit
  <2>2. CASE i = Len(b.lines) + 1
    BY <1>2, <1>4, <2>2
  <2> QED
    BY <1>1, <1>4, <2>1, <2>2
<1>7. Numbered(c)
  <2>1. \A i \in 1 .. Len(b.lines) : b.lines[i].number = b.next - Len(b.lines) + i - 1
    BY <1>1, NumberedBy DEF SoundLog
  <2>a. c.next - Len(c.lines) = b.next - Len(b.lines)
    <3>1. c.next = b.next + 1 /\ Len(c.lines) = Len(b.lines) + 1
      BY <1>4, <1>5
    <3>2. (b.next + 1) - (Len(b.lines) + 1) = b.next - Len(b.lines)
      BY <1>1
    <3> QED
      BY <3>1, <3>2
  <2>2. ASSUME NEW i \in 1 .. Len(lines)
        PROVE  lines[i].number = c.next - Len(c.lines) + i - 1
    <3>1. CASE i \in 1 .. Len(b.lines)
      BY <1>4, <2>1, <2>a, <3>1
    <3>2. CASE i = Len(b.lines) + 1
      BY <1>1, <1>2, <1>4, <2>a, <3>2
    <3> QED
      BY <1>1, <1>4, <3>1, <3>2
  <2>3. Len(c.lines) <= c.next
    BY <1>1, <1>4, <1>5
  <2> QED
    BY <1>5, <2>2, <2>3, NumberedBy
<1>8. SoundLog(c)
  <2>1. c.lines # <<>> /\ Len(c.lines) <= c.next
    BY <1>1, <1>4, <1>5
  <2> QED
    BY <1>5, <1>6, <1>7, <2>1 DEF SoundLog
<1>9. BytesOf(lines) = BytesOf(b.lines) + length + 1
  BY <1>1, <1>2, <1>4, BytesMore
<1>10. Stored(b) = BytesOf(b.lines)
  BY <1>1 DEF Stored
<1> QED
  BY <1>5, <1>8, <1>9, <1>10 DEF WrittenWell, c

\* The log after a chunk: sound, within the buffer, and at most a line more.
Grown(b) ==
  /\ SoundLog(b)
  /\ BytesOf(b.lines) <= Capacity
  /\ b.next = current.next \/ b.next = current.next + 1

\* Room is made before a chunk is written, for it and the line's end.
LEMMA ExtendedGrown ==
  ASSUME LogInv, NEW raw \in Nat
  PROVE  Grown(Extended(current, raw))
<1> DEFINE b == current
           room == MaxLine - OpenLength(b)
           length == IF raw < room THEN raw ELSE room
           e == IF Stored(b) + length + 1 > Capacity THEN Evicted(b) ELSE b
<1>1. /\ SoundLog(b) /\ made = b.next /\ b.lines \in Seq(Lines) /\ Len(b.lines) \in Nat
      /\ b.open \in BOOLEAN /\ BytesOf(b.lines) \in Nat
      /\ BytesOf(b.lines) <= Capacity /\ b.next \in Nat
  BY BufferParts DEF LogInv, SoundLog
<1>2. OpenLength(b) \in Nat /\ OpenLength(b) <= MaxLine
  <2>1. CASE b.open
    <3>1. Len(b.lines) \in 1 .. Len(b.lines)
      BY <1>1, <2>1 DEF SoundLog
    <3>2. b.lines[Len(b.lines)] \in Lines
      BY <1>1, <3>1
    <3>3. b.lines[Len(b.lines)].length \in Nat /\ b.lines[Len(b.lines)].length <= MaxLine
      BY <1>1, <3>1, <3>2 DEF SoundLog, LinesFit, Lines
    <3> QED
      BY <2>1, <3>3 DEF OpenLength
  <2>2. CASE ~b.open
    BY <2>2, LogAssumption DEF OpenLength
  <2> QED
    BY <2>1, <2>2
<1>3. length \in Nat /\ OpenLength(b) + length <= MaxLine
  BY <1>2, LogAssumption
<1> HIDE DEF length
<1>4. CASE length = 0
  <2>1. Extended(b, raw) = b
    BY <1>4 DEF Extended, length
  <2> QED
    BY <1>1, <2>1 DEF Grown
<1>5. CASE length # 0
  <2>1. Extended(b, raw) = Written(e, length)
    BY <1>5 DEF Extended, length
  <2>2. /\ SoundLog(e) /\ e.next = b.next /\ (e.open => b.open /\ e.lines # <<>>)
        /\ e.open => e.lines[Len(e.lines)] = b.lines[Len(b.lines)]
        /\ Stored(e) + length + 1 <= Capacity
    <3>1. CASE ~(Stored(b) + length + 1 > Capacity)
      <4>1. e = b
        BY <3>1
      <4>2. Stored(b) \in Int
        BY <1>1 DEF Stored
      <4>3. Stored(b) + length + 1 <= Capacity
        BY <1>3, <3>1, <4>2, LogAssumption
      <4> QED
        BY <1>1, <4>1, <4>3 DEF SoundLog
    <3>2. CASE Stored(b) + length + 1 > Capacity
      <4>1. e = Evicted(b)
        BY <3>2
      <4>2. PICK n \in 0 .. Len(b.lines) :
              e = Without(b, n) /\ Stored(Without(b, n)) <= Capacity - (Capacity \div 4)
        BY <1>1, <4>1, EvictedParts
      <4>3. /\ SoundLog(e) /\ e.next = b.next
            /\ e.lines = SubSeq(b.lines, n + 1, Len(b.lines))
            /\ Len(e.lines) = Len(b.lines) - n
            /\ e.open => b.open /\ n < Len(b.lines)
        <5> HIDE DEF e
        <5> QED
          BY <1>1, <4>2, WithoutSound
      <4>4. e.open => e.lines[Len(e.lines)] = b.lines[Len(b.lines)]
        <5> SUFFICES ASSUME e.open
                     PROVE  e.lines[Len(e.lines)] = b.lines[Len(b.lines)]
          OBVIOUS
        <5>1. n < Len(b.lines) /\ n \in Nat
          BY <4>3
        <5>2. Len(e.lines) \in 1 .. (Len(b.lines) - n)
              /\ n + Len(e.lines) = Len(b.lines)
          BY <1>1, <4>3, <5>1
        <5>3. \A i \in 1 .. (Len(b.lines) - n) :
                SubSeq(b.lines, n + 1, Len(b.lines))[i] = b.lines[n + i]
          BY <1>1, <5>1
        <5> HIDE DEF e
        <5> QED
          BY <4>3, <5>2, <5>3
      <4>5. Stored(e) \in Int
        <5>1. BytesOf(e.lines) \in Nat
          BY <4>3, BufferParts DEF SoundLog
        <5> QED
          BY <5>1 DEF Stored
      <4>6. Stored(e) + length + 1 <= Capacity
        <5>1. Stored(e) <= Capacity - (Capacity \div 4)
          BY <4>2
        <5>2. length <= MaxLine
          BY <1>2, <1>3, LogAssumption
        <5>3. (Capacity \div 4) \in Nat /\ MaxLine + 1 <= Capacity \div 4
          BY LogAssumption, EvictionMakesRoom
        <5> HIDE DEF e
        <5> QED
          BY <1>3, <4>5, <5>1, <5>2, <5>3, LogAssumption
      <4> QED
        BY <4>3, <4>4, <4>6 DEF SoundLog
    <3> QED
      BY <3>1, <3>2
  <2> HIDE DEF e, b
  <2>3. WrittenWell(e, length, Written(e, length))
    <3>1. CASE e.open
      <4>1. e.lines[Len(e.lines)].length = OpenLength(b)
        BY <2>2, <3>1 DEF OpenLength
      <4>2. e.lines[Len(e.lines)].length + length <= MaxLine
        BY <1>3, <4>1
      <4> QED
        BY <1>3, <2>2, <3>1, <4>2, WrittenOn
    <3>2. CASE ~e.open
      <4>1. length <= MaxLine
        BY <1>2, <1>3, LogAssumption
      <4> QED
        BY <1>1, <1>3, <2>2, <3>2, <4>1, WrittenNew
    <3> QED
      BY <3>1, <3>2
  <2>4. BytesOf(Written(e, length).lines) <= Capacity
    BY <2>2, <2>3 DEF WrittenWell
  <2> QED
    BY <2>1, <2>2, <2>3, <2>4 DEF WrittenWell, Grown, b
<1> QED
  BY <1>4, <1>5

\* Ending a line changes nothing of what is kept.
LEMMA TerminatedGrown ==
  ASSUME NEW b, Grown(b)
  PROVE  Grown(Terminated(b))
<1> DEFINE c == Terminated(b)
<1>1. c \in Buffers /\ c.lines = b.lines /\ c.next = b.next /\ c.open = FALSE
  BY DEF Grown, SoundLog, Terminated, Buffers
<1> HIDE DEF c
<1>2. LinesFit(c) /\ Numbered(c)
  BY <1>1 DEF Grown, SoundLog, LinesFit, Numbered, FirstSequence
<1> QED
  BY <1>1, <1>2 DEF Grown, SoundLog, c

\* What is logged keeps the invariant.
LEMMA LogGrows ==
  ASSUME LogInv, NEW b, Grown(b), Log(b), UNCHANGED previous
  PROVE  LogInv'
<1>1. current.next \in Nat
  BY BufferParts DEF LogInv, SoundLog
<1>2. made' = b.next
  BY <1>1 DEF Log, Grown, LogInv
<1>3. SoundLog(current') /\ BytesOf(current'.lines) <= Capacity /\ made' = current'.next
  BY <1>2 DEF Log, Grown
<1>4. previous' # NoBuffer => SoundLog(previous')
  BY DEF LogInv
<1> QED
  BY <1>3, <1>4 DEF LogInv

LEMMA EmptySound == SoundLog(EmptyLog) /\ BytesOf(EmptyLog.lines) = 0 /\ EmptyLog.next = 0
<1>1. EmptyLog \in Buffers /\ EmptyLog.lines = <<>> /\ EmptyLog.next = 0 /\ EmptyLog.open = FALSE
  BY DEF EmptyLog, Buffers
<1>2. LinesFit(EmptyLog) /\ Numbered(EmptyLog)
  BY <1>1 DEF LinesFit, Numbered
<1> QED
  BY <1>1, <1>2, BytesEmpty DEF SoundLog

\* A reset starts a log and keeps the last lines of the one before.
LEMMA ResetKeeps ==
  ASSUME LogInv, SoftwareReset
  PROVE  /\ SoundLog(previous') /\ previous' # NoBuffer
         /\ \E n \in 0 .. Len(current.lines) :
              previous'.lines = SubSeq(current.lines, n + 1, Len(current.lines))
         /\ current.lines # <<>> => previous'.lines # <<>>
<1>1. SoundLog(current) /\ current \in Buffers /\ Len(current.lines) \in Nat
      /\ BytesOf(current.lines) \in Nat
  BY BufferParts DEF LogInv, SoundLog
<1>2. IsIntact(current)
  <2>1. Stored(current) <= Capacity
    BY <1>1, LogAssumption DEF LogInv, Stored
  <2> QED
    BY <1>1, <2>1, LogAssumption DEF IsIntact, SoundLog
<1>3. previous' = Copied(current)
  BY <1>2 DEF SoftwareReset
<1>4. PICK n \in 0 .. Len(current.lines) :
        Copied(current) = Without(current, n)
        /\ (current.lines # <<>> => n < Len(current.lines))
  BY <1>1, CopiedParts
<1>5. /\ SoundLog(previous')
      /\ previous'.lines = SubSeq(current.lines, n + 1, Len(current.lines))
      /\ Len(previous'.lines) = Len(current.lines) - n
  BY <1>1, <1>3, <1>4, WithoutSound
<1>6. previous' # NoBuffer
  BY <1>5, LogAssumption DEF SoundLog
<1>7. current.lines # <<>> => previous'.lines # <<>>
  <2> SUFFICES ASSUME current.lines # <<>> PROVE Len(previous'.lines) > 0
    OBVIOUS
  <2>1. n < Len(current.lines) /\ n \in Nat
    BY <1>4
  <2> QED
    BY <1>1, <1>5, <2>1
<1> QED
  BY <1>5, <1>6, <1>7

LEMMA LogInitInv == LogInit => LogInv
BY EmptySound, LogAssumption DEF LogInit, LogInv

LEMMA LogNextInv == LogInv /\ [LogNext]_logVars => LogInv'
<1> SUFFICES ASSUME LogInv, [LogNext]_logVars PROVE LogInv'
  OBVIOUS
<1>1. CASE NativeChunk
  <2>1. PICK length \in Lengths, ends \in BOOLEAN :
          /\ Log(IF ends THEN Terminated(Extended(current, length)) ELSE Extended(current, length))
          /\ UNCHANGED previous
    BY <1>1 DEF NativeChunk
  <2>2. length \in Nat
    BY LogAssumption
  <2>3. Grown(Extended(current, length)) /\ Grown(Terminated(Extended(current, length)))
    BY <2>2, ExtendedGrown, TerminatedGrown
  <2> QED
    BY <2>1, <2>3, LogGrows
<1>2. CASE RustRecord
  <2>1. PICK length \in Lengths :
          Log(Terminated(Extended(current, length))) /\ UNCHANGED previous
    BY <1>2 DEF RustRecord
  <2>2. length \in Nat
    BY LogAssumption
  <2>3. Grown(Terminated(Extended(current, length)))
    BY <2>2, ExtendedGrown, TerminatedGrown
  <2> QED
    BY <2>1, <2>3, LogGrows
<1>3. CASE AllocationFails
  <2>1. Grown(Extended(current, MaxLine))
    BY ExtendedGrown, LogAssumption
  <2> QED
    BY <1>3, <2>1, LogGrows DEF AllocationFails
<1>4. CASE SoftwareReset
  <2>1. SoundLog(previous')
    BY <1>4, ResetKeeps
  <2>2. current' = EmptyLog /\ made' = 0
    BY <1>4 DEF SoftwareReset
  <2> QED
    BY <2>1, <2>2, EmptySound, LogAssumption DEF LogInv
<1>5. CASE ColdBoot
  <2>1. previous' = NoBuffer /\ current' = EmptyLog /\ made' = 0
    BY <1>5 DEF ColdBoot
  <2> QED
    BY <2>1, EmptySound, LogAssumption DEF LogInv
<1>6. CASE UNCHANGED logVars
  BY <1>6 DEF logVars, LogInv
<1> QED
  BY <1>1, <1>2, <1>3, <1>4, <1>5, <1>6 DEF LogNext

(***************************************************************************)
(* The log can be read across evictions and resets, for lines and buffers  *)
(* of any size that an eviction makes room in: every line keeps the number *)
(* it got, and the last lines before a software reset are there after it   *)
(* (logs.rs LogBuffer::extend, evict and copy_into).                       *)
(***************************************************************************)
THEOREM LogReadable == LogSpec => LogKept
<1>1. LogInv => NumbersStand
  BY DEF LogInv, SoundLog, NumbersStand
<1> DEFINE LastWords ==
      SoftwareReset =>
        /\ previous' # NoBuffer
        /\ \E n \in 0..Len(current.lines) :
             previous'.lines = SubSeq(current.lines, n + 1, Len(current.lines))
        /\ current.lines # <<>> => previous'.lines # <<>>
<1>2. LogInv => LastWords
  BY ResetKeeps
<1>3. LogSpec => []LogInv
  BY LogInitInv, LogNextInv, PTL DEF LogSpec
<1>4. LogInv /\ [LogNext]_logVars => [LastWords]_logVars
  BY <1>2
<1> HIDE DEF LastWords
<1>5. LogSpec => [][LastWords]_logVars
  BY <1>3, <1>4, PTL DEF LogSpec
<1>6. LogSpec => []NumbersStand
  BY <1>1, <1>3, PTL
<1> QED
  BY <1>5, <1>6 DEF LogKept, LastWordsKept, LastWords

-----------------------------------------------------------------------------
(* The PCM link: the ring, chunk by chunk, and what became of each interval. *)

\* Places in the ring, and the chunks they lie in.
ChunkNumbers == 0 .. ChunkCount - 1

LEMMA DepthType == QueueDepth \in Nat \ {0}
<1>1. \A a, b \in Nat \ {0} : a * b \in Nat \ {0}
  OBVIOUS
<1> QED
  BY <1>1, LinkAssumption DEF QueueDepth

LEMMA ChunkOfType ==
  ASSUME NEW place \in Nat
  PROVE  ChunkOf(place) \in ChunkNumbers
<1> DEFINE x == place % QueueDepth
           q == x \div ChunkDepth
<1>1. x \in 0 .. QueueDepth - 1
  BY DepthType
<1>2. x \in Nat /\ x < ChunkDepth * ChunkCount
  BY <1>1, DepthType DEF QueueDepth
<1> HIDE DEF x
<1>3. q \in Nat /\ ChunkDepth * q <= x
  BY <1>2, LinkAssumption
<1>4. q < ChunkCount
  <2> HIDE DEF q
  <2> SUFFICES ASSUME q >= ChunkCount PROVE FALSE
    BY <1>3, LinkAssumption
  <2>1. \A a, b, c \in Nat : b >= c => a * b >= a * c
    OBVIOUS
  <2>2. ChunkDepth * q >= ChunkDepth * ChunkCount
    BY <1>3, <2>1, LinkAssumption
  <2>3. ChunkDepth * q \in Nat /\ ChunkDepth * ChunkCount \in Nat
    BY <1>3, LinkAssumption
  <2> QED
    BY <1>2, <1>3, <2>2, <2>3
<1>5. ChunkOf(place) = q
  BY DEF ChunkOf, x
<1> HIDE DEF q
<1> QED
  BY <1>3, <1>4, <1>5, LinkAssumption DEF ChunkNumbers

LEMMA InRing ==
  ASSUME NEW q \in Nat, NEW r \in 0 .. QueueDepth - 1
  PROVE  (QueueDepth * q + r) % QueueDepth = r
BY DepthType

LEMMA OnceAround ==
  ASSUME NEW k \in Nat
  PROVE  (QueueDepth + k) % QueueDepth = k % QueueDepth
<1> DEFINE q == k \div QueueDepth
           r == k % QueueDepth
<1>1. q \in Nat /\ r \in 0 .. QueueDepth - 1 /\ k = QueueDepth * q + r
  BY DepthType
<1> HIDE DEF q, r
<1>2. QueueDepth * (q + 1) = QueueDepth * q + QueueDepth /\ QueueDepth * q \in Nat
  BY <1>1, DepthType
<1>3. QueueDepth + k = QueueDepth * (q + 1) + r
  BY <1>1, <1>2, DepthType
<1>4. (QueueDepth * (q + 1) + r) % QueueDepth = r
  BY <1>1, InRing
<1> QED
  BY <1>3, <1>4 DEF r

\* The place after the head, and the places from there.
LEMMA AroundTheRing ==
  ASSUME NEW head \in 0 .. QueueDepth - 1, NEW k \in Nat
  PROVE  /\ (head + 1) % QueueDepth \in 0 .. QueueDepth - 1
         /\ ChunkOf(((head + 1) % QueueDepth) + k) = ChunkOf(head + 1 + k)
<1> DEFINE ahead == (head + 1) % QueueDepth
<1>1. ahead \in 0 .. QueueDepth - 1
  BY DepthType
<1>2. CASE head + 1 < QueueDepth
  <2>1. ahead = head + 1
    BY <1>2, DepthType
  <2> QED
    BY <1>1, <2>1
<1>3. CASE head + 1 = QueueDepth
  <2>1. ahead = 0
    BY <1>3, DepthType
  <2>2. (QueueDepth + k) % QueueDepth = k % QueueDepth
    BY OnceAround
  <2>3. head + 1 + k = QueueDepth + k /\ ahead + k = k
    BY <1>3, <2>1, DepthType
  <2> QED
    BY <1>1, <2>2, <2>3 DEF ChunkOf
<1> QED
  BY <1>2, <1>3, DepthType

-----------------------------------------------------------------------------
\* How many of the first n places from head on lie in a chunk.
InChunk(head, c, n) == {j \in 0 .. n - 1 : ChunkOf(head + j) = c}
Held(head, c, n) == Cardinality(InChunk(head, c, n))

LEMMA HeldType ==
  ASSUME NEW head \in Nat, NEW c, NEW n \in Nat
  PROVE  IsFiniteSet(InChunk(head, c, n)) /\ Held(head, c, n) \in Nat
<1>1. IsFiniteSet(0 .. n - 1)
  BY FS_Interval
<1>2. IsFiniteSet(InChunk(head, c, n))
  BY <1>1, FS_Subset DEF InChunk
<1> QED
  BY <1>2, FS_CardinalityType DEF Held

LEMMA HeldNone ==
  ASSUME NEW head \in Nat, NEW c
  PROVE  Held(head, c, 0) = 0
<1>1. InChunk(head, c, 0) = {}
  BY DEF InChunk
<1> QED
  BY <1>1, FS_EmptySet DEF Held

LEMMA HeldMore ==
  ASSUME NEW head \in Nat, NEW c, NEW n \in Nat
  PROVE  Held(head, c, n + 1) =
           IF ChunkOf(head + n) = c THEN Held(head, c, n) + 1 ELSE Held(head, c, n)
<1>1. CASE ChunkOf(head + n) = c
  <2>1. InChunk(head, c, n + 1) = InChunk(head, c, n) \cup {n} /\ n \notin InChunk(head, c, n)
    BY <1>1 DEF InChunk
  <2> QED
    BY <1>1, <2>1, HeldType, FS_AddElement DEF Held
<1>2. CASE ChunkOf(head + n) # c
  <2>1. InChunk(head, c, n + 1) = InChunk(head, c, n)
    BY <1>2 DEF InChunk
  <2> QED
    BY <1>2, <2>1 DEF Held
<1> QED
  BY <1>1, <1>2

LEMMA HeldGrows ==
  ASSUME NEW head \in Nat, NEW c, NEW n \in Nat, NEW k \in 0 .. n
  PROVE  Held(head, c, k) <= Held(head, c, n)
<1>1. InChunk(head, c, k) \subseteq InChunk(head, c, n)
  BY DEF InChunk
<1> QED
  BY <1>1, HeldType, FS_Subset DEF Held

\* Counted from the next place on, the first place is left out.
LEMMA HeldAfter ==
  ASSUME NEW head \in 0 .. QueueDepth - 1, NEW c, NEW n \in Nat
  PROVE  Held(head, c, n + 1) =
           (IF ChunkOf(head) = c THEN 1 ELSE 0) + Held((head + 1) % QueueDepth, c, n)
<1> DEFINE ahead == (head + 1) % QueueDepth
           first == IF ChunkOf(head) = c THEN 1 ELSE 0
           T == {m \in Nat : Held(head, c, m + 1) = first + Held(ahead, c, m)}
<1>1. head \in Nat /\ ahead \in Nat /\ first \in Nat
  BY AroundTheRing, DepthType
<1>2. 0 \in T
  <2>1. Held(head, c, 0) = 0 /\ Held(ahead, c, 0) = 0
    BY <1>1, HeldNone
  <2>2. head + 0 = head /\ 0 + 1 = 1
    BY <1>1
  <2>3. Held(head, c, 0 + 1) = IF ChunkOf(head + 0) = c THEN Held(head, c, 0) + 1 ELSE Held(head, c, 0)
    BY <1>1, HeldMore
  <2>4. Held(head, c, 0 + 1) = first + Held(ahead, c, 0)
    BY <2>1, <2>2, <2>3
  <2> HIDE DEF first, ahead
  <2> QED
    BY <2>4
<1>3. ASSUME NEW m \in Nat, m \in T
      PROVE  m + 1 \in T
  <2>1. Held(head, c, m + 1) = first + Held(ahead, c, m)
    BY <1>3
  <2>2. ChunkOf(ahead + m) = ChunkOf(head + (m + 1))
    <3>1. head + 1 + m = head + (m + 1)
      BY <1>1
    <3> QED
      BY <3>1, AroundTheRing
  <2> HIDE DEF first, ahead
  <2>3. Held(head, c, (m + 1) + 1) =
          IF ChunkOf(head + (m + 1)) = c THEN Held(head, c, m + 1) + 1 ELSE Held(head, c, m + 1)
    BY <1>1, HeldMore
  <2>4. Held(ahead, c, m + 1) =
          IF ChunkOf(ahead + m) = c THEN Held(ahead, c, m) + 1 ELSE Held(ahead, c, m)
    BY <1>1, HeldMore
  <2>5. Held(ahead, c, m) \in Nat
    BY <1>1, HeldType
  <2>6. Held(head, c, (m + 1) + 1) = first + Held(ahead, c, m + 1)
    BY <1>1, <2>1, <2>2, <2>3, <2>4, <2>5
  <2> QED
    BY <2>6
<1>4. n \in T
  <2> HIDE DEF T
  <2> QED
    BY <1>2, <1>3, SetInduction
<1> QED
  BY <1>4

-----------------------------------------------------------------------------
\* A ring holds a sequence from its n-th packet on: each lies in the chunk of
\* its place, behind those of the same chunk before it.
Rings ==
  [there : BOOLEAN, head : 0 .. QueueDepth - 1, len : Nat, chunks : [ChunkNumbers -> Seq(Nat)]]

Placed(r, k) == r.chunks[ChunkOf(r.head + k)][Held(r.head, ChunkOf(r.head + k), k) + 1]

RingHolds(r, s, n) ==
  /\ r \in Rings /\ s \in Seq(Nat) /\ n \in Nat /\ n + r.len = Len(s)
  /\ \A c \in ChunkNumbers : Len(r.chunks[c]) = Held(r.head, c, r.len)
  /\ \A k \in 0 .. r.len - 1 : s[n + k + 1] = Placed(r, k)

LEMMA RingParts ==
  ASSUME NEW r \in Rings
  PROVE  /\ r.there \in BOOLEAN /\ r.head \in 0 .. QueueDepth - 1 /\ r.head \in Nat
         /\ r.len \in Nat /\ r.chunks \in [ChunkNumbers -> Seq(Nat)]
<1>1. /\ r.there \in BOOLEAN /\ r.head \in 0 .. QueueDepth - 1
      /\ r.len \in Nat /\ r.chunks \in [ChunkNumbers -> Seq(Nat)]
  BY DEF Rings
<1>2. r.head \in Nat
  BY <1>1, DepthType
<1> QED
  BY <1>1, <1>2

\* An empty ring holds nothing, whether its storage is there or not.
LEMMA EmptyHolds ==
  ASSUME NEW r, r = EmptyRing \/ r = NoRing
  PROVE  RingHolds(r, <<>>, 0) /\ r.len = 0 /\ (r.there <=> r = EmptyRing)
<1>1. EmptyRing \in Rings /\ EmptyRing.len = 0 /\ EmptyRing.head = 0 /\ EmptyRing.there = TRUE
      /\ \A c \in ChunkNumbers : EmptyRing.chunks[c] = <<>>
  BY DepthType DEF EmptyRing, Rings, ChunkNumbers
<1>2. NoRing \in Rings /\ NoRing.len = 0 /\ NoRing.head = 0 /\ NoRing.there = FALSE
      /\ \A c \in ChunkNumbers : NoRing.chunks[c] = <<>>
  BY <1>1 DEF NoRing, Rings
<1>3. \A c \in ChunkNumbers : Held(0, c, 0) = 0
  BY HeldNone
<1>4. <<>> \in Seq(Nat) /\ Len(<<>>) = 0
  OBVIOUS
<1>5. RingHolds(r, <<>>, 0)
  <2>1. r \in Rings /\ r.len = 0 /\ r.head = 0 /\ \A c \in ChunkNumbers : r.chunks[c] = <<>>
    BY <1>1, <1>2
  <2> QED
    BY <1>3, <1>4, <2>1 DEF RingHolds
<1> QED
  BY <1>1, <1>2, <1>5

\* The places a ring holds are within its chunks.
LEMMA PlacedWithin ==
  ASSUME NEW r, NEW s, NEW n, RingHolds(r, s, n), NEW k \in 0 .. r.len - 1
  PROVE  /\ ChunkOf(r.head + k) \in ChunkNumbers
         /\ Held(r.head, ChunkOf(r.head + k), k) + 1
              \in 1 .. Len(r.chunks[ChunkOf(r.head + k)])
<1> DEFINE c == ChunkOf(r.head + k)
<1>1. r.head \in Nat /\ r.len \in Nat /\ k \in Nat /\ k + 1 \in 0 .. r.len
  BY RingParts DEF RingHolds
<1>2. c \in ChunkNumbers
  BY <1>1, ChunkOfType
<1>3. Held(r.head, c, k + 1) = Held(r.head, c, k) + 1
  BY <1>1, HeldMore
<1>4. Held(r.head, c, k + 1) <= Held(r.head, c, r.len)
  BY <1>1, HeldGrows
<1>5. Held(r.head, c, k) \in Nat /\ Held(r.head, c, r.len) \in Nat
  BY <1>1, HeldType
<1>6. Len(r.chunks[c]) = Held(r.head, c, r.len)
  BY <1>2 DEF RingHolds
<1> HIDE DEF c
<1>7. Held(r.head, c, k) + 1 \in 1 .. Len(r.chunks[c])
  BY <1>3, <1>4, <1>5, <1>6
<1> QED
  BY <1>2, <1>7 DEF c

\* Pushing appends to the sequence.
LEMMA PushHolds ==
  ASSUME NEW r, NEW s, RingHolds(r, s, 0), NEW p \in Nat
  PROVE  /\ RingHolds(PushedBack(r, p), Append(s, p), 0)
         /\ PushedBack(r, p).len = r.len + 1 /\ PushedBack(r, p).there = r.there
<1> DEFINE q == PushedBack(r, p)
           t == ChunkOf(r.head + r.len)
           chunks == [r.chunks EXCEPT ![t] = Append(r.chunks[t], p)]
<1>1. /\ r \in Rings /\ r.there \in BOOLEAN /\ r.head \in 0 .. QueueDepth - 1 /\ r.head \in Nat
      /\ r.len \in Nat /\ r.chunks \in [ChunkNumbers -> Seq(Nat)]
      /\ s \in Seq(Nat) /\ Len(s) = r.len
  BY RingParts DEF RingHolds
<1>2. t \in ChunkNumbers
  BY <1>1, ChunkOfType
<1>3. q = [r EXCEPT !.chunks = chunks, !.len = r.len + 1]
  BY DEF PushedBack
<1>4. /\ chunks \in [ChunkNumbers -> Seq(Nat)]
      /\ chunks[t] = Append(r.chunks[t], p)
      /\ \A c \in ChunkNumbers : c # t => chunks[c] = r.chunks[c]
  <2>1. Append(r.chunks[t], p) \in Seq(Nat)
    BY <1>1, <1>2
  <2> HIDE DEF t
  <2> QED
    BY <1>1, <1>2, <2>1
<1> HIDE DEF q, chunks
<1>5. /\ q \in Rings /\ q.chunks = chunks /\ q.len = r.len + 1 /\ q.head = r.head
      /\ q.there = r.there
  <2>1. r.len + 1 \in Nat
    BY <1>1
  <2> QED
    BY <1>1, <1>3, <1>4, <2>1 DEF Rings
<1>6. /\ Append(s, p) \in Seq(Nat) /\ Len(Append(s, p)) = r.len + 1
      /\ \A k \in 1 .. r.len : Append(s, p)[k] = s[k]
      /\ Append(s, p)[r.len + 1] = p
  BY <1>1
<1>7. /\ r.chunks[t] \in Seq(Nat) /\ Len(chunks[t]) = Len(r.chunks[t]) + 1
      /\ \A i \in 1 .. Len(r.chunks[t]) : chunks[t][i] = r.chunks[t][i]
      /\ chunks[t][Len(r.chunks[t]) + 1] = p
  <2>1. r.chunks[t] \in Seq(Nat)
    BY <1>1, <1>2
  <2> HIDE DEF t
  <2> QED
    BY <1>4, <2>1
<1>8. \A c \in ChunkNumbers : Len(r.chunks[c]) = Held(r.head, c, r.len)
  BY DEF RingHolds
<1>9. \A c \in ChunkNumbers : Len(chunks[c]) = Held(r.head, c, r.len + 1)
  <2> SUFFICES ASSUME NEW c \in ChunkNumbers
               PROVE  Len(chunks[c]) = Held(r.head, c, r.len + 1)
    OBVIOUS
  <2>1. Held(r.head, c, r.len + 1) =
          IF t = c THEN Held(r.head, c, r.len) + 1 ELSE Held(r.head, c, r.len)
    BY <1>1, HeldMore
  <2> HIDE DEF t
  <2> QED
    BY <1>4, <1>7, <1>8, <2>1
<1>10. ASSUME NEW k \in 0 .. r.len
       PROVE  Append(s, p)[k + 1] = Placed(q, k)
  <2>1. CASE k = r.len
    <3>1. Placed(q, k) = chunks[t][Held(r.head, t, r.len) + 1]
      BY <1>5, <2>1 DEF Placed
    <3>2. Placed(q, k) = chunks[t][Len(r.chunks[t]) + 1]
      BY <1>2, <1>8, <3>1
    <3> QED
      BY <1>6, <1>7, <2>1, <3>2
  <2>2. CASE k \in 0 .. r.len - 1
    <3> DEFINE c == ChunkOf(r.head + k)
               i == Held(r.head, c, k) + 1
    <3>1. c \in ChunkNumbers /\ i \in 1 .. Len(r.chunks[c])
      BY <2>2, PlacedWithin
    <3>2. Placed(q, k) = chunks[c][i] /\ Placed(r, k) = r.chunks[c][i]
      BY <1>5 DEF Placed
    <3>3. s[0 + k + 1] = Placed(r, k)
      BY <2>2 DEF RingHolds
    <3>4. k + 1 \in 1 .. r.len /\ 0 + k + 1 = k + 1
      BY <1>1, <2>2
    <3> HIDE DEF c, i, t
    <3>5. chunks[c][i] = r.chunks[c][i]
      BY <1>4, <1>7, <3>1
    <3> QED
      BY <1>6, <3>2, <3>3, <3>4, <3>5
  <2> QED
    BY <1>1, <2>1, <2>2
<1>11. RingHolds(q, Append(s, p), 0)
  <2>1. \A k \in 0 .. q.len - 1 : Append(s, p)[0 + k + 1] = Placed(q, k)
    <3> SUFFICES ASSUME NEW k \in 0 .. q.len - 1
                 PROVE  Append(s, p)[0 + k + 1] = Placed(q, k)
      OBVIOUS
    <3>1. k \in 0 .. r.len /\ 0 + k + 1 = k + 1
      BY <1>1, <1>5
    <3> QED
      BY <1>10, <3>1
  <2>2. 0 + q.len = Len(Append(s, p))
    BY <1>1, <1>5, <1>6
  <2> QED
    BY <1>5, <1>6, <1>9, <2>1, <2>2 DEF RingHolds
<1> QED
  BY <1>5, <1>11 DEF q

\* A chunk without its first packet.
LEMMA WithoutFirst ==
  ASSUME NEW c \in Seq(Nat), Len(c) > 0
  PROVE  LET rest == SubSeq(c, 2, Len(c))
         IN  /\ rest \in Seq(Nat) /\ Len(rest) = Len(c) - 1
             /\ \A i \in 1 .. Len(c) - 1 : rest[i] = c[i + 1]
<1> DEFINE rest == SubSeq(c, 2, Len(c))
<1>1. rest \in Seq(Nat)
  OBVIOUS
<1>2. Len(rest) = Len(c) - 1
  <2>1. CASE Len(c) = 1
    <3>1. rest = SubSeq(c, 2, 1)
      BY <2>1
    <3>2. Len(SubSeq(c, 2, 1)) = 0
      OBVIOUS
    <3> QED
      BY <2>1, <3>1, <3>2
  <2>2. CASE Len(c) > 1
    <3>1. 2 <= Len(c) /\ Len(c) \in Nat
      BY <2>2
    <3> QED
      BY <3>1
  <2>3. Len(c) = 1 \/ Len(c) > 1
    <3>1. Len(c) \in Nat
      OBVIOUS
    <3>2. \A n \in Nat : n > 0 => n = 1 \/ n > 1
      OBVIOUS
    <3> QED
      BY <3>1, <3>2
  <2> QED
    BY <2>1, <2>2, <2>3
<1>3. ASSUME NEW i \in 1 .. Len(c) - 1
      PROVE  rest[i] = c[i + 1]
  <2>1. i \in 1 .. Len(rest)
    BY <1>2
  <2>2. rest[i] = c[2 + i - 1]
    BY <2>1
  <2>3. 2 + i - 1 = i + 1
    OBVIOUS
  <2> QED
    BY <2>2, <2>3
<1> QED
  BY <1>1, <1>2, <1>3

\* Popping hands out the first packet held and leaves the others.
LEMMA PopHolds ==
  ASSUME NEW r, NEW s, NEW n, RingHolds(r, s, n), r.len > 0
  PROVE  /\ Foremost(r) = <<s[n + 1]>>
         /\ RingHolds(PoppedFront(r), s, n + 1)
         /\ PoppedFront(r).len = r.len - 1 /\ PoppedFront(r).there = r.there
<1> DEFINE q == PoppedFront(r)
           t == ChunkOf(r.head)
           chunk == r.chunks[t]
           ahead == (r.head + 1) % QueueDepth
           chunks == [r.chunks EXCEPT ![t] = SubSeq(chunk, 2, Len(chunk))]
<1>1. /\ r \in Rings /\ r.there \in BOOLEAN /\ r.head \in 0 .. QueueDepth - 1 /\ r.head \in Nat
      /\ r.len \in Nat /\ r.chunks \in [ChunkNumbers -> Seq(Nat)]
      /\ s \in Seq(Nat) /\ n \in Nat /\ n + r.len = Len(s)
  BY RingParts DEF RingHolds
<1>2. t \in ChunkNumbers /\ ahead \in 0 .. QueueDepth - 1 /\ ahead \in Nat
  <2>1. ahead \in 0 .. QueueDepth - 1
    BY <1>1, AroundTheRing
  <2> QED
    BY <1>1, <2>1, ChunkOfType, DepthType
<1>3. chunk \in Seq(Nat) /\ Len(chunk) \in Nat \ {0} /\ chunk[1] = s[n + 1]
  <2>1. 0 \in 0 .. r.len - 1 /\ r.head + 0 = r.head /\ n + 0 + 1 = n + 1
    BY <1>1
  <2>2. Held(r.head, t, 0) = 0 /\ 0 + 1 = 1
    BY <1>1, HeldNone
  <2>3. 1 \in 1 .. Len(chunk)
    BY <2>1, <2>2, PlacedWithin
  <2>4. s[n + 1] = Placed(r, 0)
    BY <2>1 DEF RingHolds
  <2>5. Placed(r, 0) = chunk[1]
    BY <2>1, <2>2 DEF Placed
  <2>6. chunk \in Seq(Nat)
    BY <1>1, <1>2
  <2> HIDE DEF chunk
  <2> QED
    BY <2>3, <2>4, <2>5, <2>6
<1>4. Foremost(r) = <<s[n + 1]>>
  <2>1. chunk # <<>> /\ Head(chunk) = s[n + 1]
    <3> HIDE DEF chunk
    <3> QED
      BY <1>3
  <2> QED
    BY <2>1 DEF Foremost
<1>5. q = [r EXCEPT !.chunks = chunks, !.head = ahead, !.len = r.len - 1]
  BY DEF PoppedFront
<1> HIDE DEF chunk
<1>6. /\ SubSeq(chunk, 2, Len(chunk)) \in Seq(Nat)
      /\ Len(SubSeq(chunk, 2, Len(chunk))) = Len(chunk) - 1
      /\ \A i \in 1 .. Len(chunk) - 1 : SubSeq(chunk, 2, Len(chunk))[i] = chunk[i + 1]
  <2>1. Len(chunk) > 0
    BY <1>3
  <2> QED
    BY <1>3, <2>1, WithoutFirst
<1> HIDE DEF ahead
<1>7. /\ chunks \in [ChunkNumbers -> Seq(Nat)]
      /\ Len(chunks[t]) = Len(chunk) - 1
      /\ \A i \in 1 .. Len(chunk) - 1 : chunks[t][i] = chunk[i + 1]
      /\ \A c \in ChunkNumbers : c # t => chunks[c] = r.chunks[c]
  <2> HIDE DEF t
  <2> QED
    BY <1>1, <1>2, <1>6
<1> HIDE DEF q, chunks
<1>8. /\ q \in Rings /\ q.chunks = chunks /\ q.len = r.len - 1 /\ q.head = ahead
      /\ q.there = r.there
  <2>1. r.len - 1 \in Nat
    BY <1>1
  <2> QED
    BY <1>1, <1>2, <1>5, <1>7, <2>1 DEF Rings
<1>9. ASSUME NEW c, NEW k \in Nat
      PROVE  Held(r.head, c, k + 1) = (IF t = c THEN 1 ELSE 0) + Held(ahead, c, k)
             /\ Held(ahead, c, k) \in Nat
  BY <1>1, <1>2, HeldAfter, HeldType DEF ahead
<1>10. \A c \in ChunkNumbers : Len(chunks[c]) = Held(ahead, c, r.len - 1)
  <2> SUFFICES ASSUME NEW c \in ChunkNumbers
               PROVE  Len(chunks[c]) = Held(ahead, c, r.len - 1)
    OBVIOUS
  <2>1. Len(r.chunks[c]) = Held(r.head, c, r.len)
    BY DEF RingHolds
  <2>2. r.len - 1 \in Nat /\ (r.len - 1) + 1 = r.len
    BY <1>1
  <2>3. Held(r.head, c, r.len) = (IF t = c THEN 1 ELSE 0) + Held(ahead, c, r.len - 1)
        /\ Held(ahead, c, r.len - 1) \in Nat
    BY <1>9, <2>2
  <2>4. t = c => Len(r.chunks[c]) = Len(chunk)
    BY DEF chunk
  <2> HIDE DEF t
  <2> QED
    BY <1>3, <1>7, <2>1, <2>3, <2>4
<1>11. ASSUME NEW k \in 0 .. r.len - 2
       PROVE  s[n + 1 + k + 1] = Placed(q, k)
  <2> DEFINE c == ChunkOf(r.head + (k + 1))
             i == Held(ahead, c, k) + 1
  <2>1. k \in Nat /\ k + 1 \in 0 .. r.len - 1 /\ n + (k + 1) + 1 = n + 1 + k + 1
        /\ r.head + 1 + k = r.head + (k + 1)
    <3>1. k \in Nat
      OBVIOUS
    <3>2. k + 1 \in 0 .. r.len - 1
      BY <1>1
    <3>3. n + (k + 1) + 1 = n + 1 + k + 1 /\ r.head + 1 + k = r.head + (k + 1)
      <4>1. \A a, b \in Nat : a + (b + 1) + 1 = a + 1 + b + 1 /\ a + 1 + b = a + (b + 1)
        OBVIOUS
      <4> QED
        BY <1>1, <3>1, <4>1
    <3> QED
      BY <3>1, <3>2, <3>3
  <2>2. ChunkOf(ahead + k) = c
    BY <1>1, <2>1, AroundTheRing DEF ahead
  <2>3. s[n + (k + 1) + 1] = Placed(r, k + 1)
    BY <2>1 DEF RingHolds
  <2>4. Placed(r, k + 1) = r.chunks[c][Held(r.head, c, k + 1) + 1]
    BY DEF Placed
  <2>5. Placed(q, k) = chunks[c][i]
    BY <1>8, <2>2 DEF Placed
  <2>6. c \in ChunkNumbers /\ Held(r.head, c, k + 1) + 1 \in 1 .. Len(r.chunks[c])
    BY <2>1, PlacedWithin
  <2>7. Held(r.head, c, k + 1) = (IF t = c THEN 1 ELSE 0) + Held(ahead, c, k)
        /\ Held(ahead, c, k) \in Nat
    BY <1>9, <2>1
  <2> HIDE DEF c
  <2>8. CASE t = c
    <3>1. Held(r.head, c, k + 1) + 1 = i + 1 /\ i \in Nat \ {0} /\ r.chunks[c] = chunk
      BY <2>7, <2>8 DEF chunk
    <3>2. i \in 1 .. Len(chunk) - 1
      BY <1>3, <2>6, <3>1
    <3> HIDE DEF i
    <3>3. chunks[c][i] = chunk[i + 1]
      BY <1>7, <2>8, <3>2
    <3> QED
      BY <2>1, <2>3, <2>4, <2>5, <3>1, <3>3
  <2>9. CASE t # c
    <3>1. Held(r.head, c, k + 1) + 1 = i /\ chunks[c] = r.chunks[c]
      BY <1>7, <2>6, <2>7, <2>9
    <3> QED
      BY <2>1, <2>3, <2>4, <2>5, <3>1
  <2> QED
    BY <2>8, <2>9
<1>12. RingHolds(q, s, n + 1)
  <2>1. \A k \in 0 .. q.len - 1 : s[n + 1 + k + 1] = Placed(q, k)
    <3> SUFFICES ASSUME NEW k \in 0 .. q.len - 1
                 PROVE  s[n + 1 + k + 1] = Placed(q, k)
      OBVIOUS
    <3>1. k \in 0 .. r.len - 2
      BY <1>1, <1>8
    <3> QED
      BY <1>11, <3>1
  <2>2. (n + 1) + q.len = Len(s) /\ n + 1 \in Nat
    BY <1>1, <1>8
  <2> QED
    BY <1>1, <1>8, <1>10, <2>1, <2>2 DEF RingHolds
<1> QED
  BY <1>4, <1>8, <1>12 DEF q

-----------------------------------------------------------------------------
(* Popping several.                                                        *)

\* The packets popped one after the other, which the recursion means.
LEMMA PoppedDefined ==
  ASSUME NEW r, NEW n \in Nat
  PROVE  \E F : /\ F[0] = [ring |-> r, packets |-> <<>>]
                /\ \A k \in 1 .. n : F[k] = PopOne(F[k - 1])
                /\ Popped(r, n) = F[n]
<1> DEFINE first == [ring |-> r, packets |-> <<>>]
           Solves(F, m) == F = [k \in 0 .. m |-> IF k = 0 THEN first ELSE PopOne(F[k - 1])]
           T == {m \in Nat : \E F : Solves(F, m)}
<1>1. 0 \in T
  <2> DEFINE F == [k \in 0 .. 0 |-> first]
  <2>1. F = [k \in 0 .. 0 |-> IF k = 0 THEN first ELSE PopOne(F[k - 1])]
    OBVIOUS
  <2>2. Solves(F, 0)
    BY <2>1
  <2> QED
    BY <2>2
<1>2. ASSUME NEW m \in Nat, m \in T
      PROVE  m + 1 \in T
  <2>1. PICK F : F = [k \in 0 .. m |-> IF k = 0 THEN first ELSE PopOne(F[k - 1])]
    BY <1>2
  <2> DEFINE G == [k \in 0 .. m + 1 |-> IF k = m + 1 THEN PopOne(F[m]) ELSE F[k]]
  <2> HIDE DEF first
  <2>2. ASSUME NEW k \in 0 .. m + 1
        PROVE  G[k] = IF k = 0 THEN first ELSE PopOne(G[k - 1])
    <3>1. CASE k = 0
      BY <2>1, <3>1
    <3>2. CASE k \in 1 .. m
      <4>1. k - 1 \in 0 .. m + 1 /\ k - 1 # m + 1 /\ k # m + 1 /\ k \in 0 .. m /\ k # 0
        BY <3>2
      <4>2. G[k - 1] = F[k - 1] /\ G[k] = F[k]
        BY <4>1
      <4>3. F[k] = PopOne(F[k - 1])
        BY <2>1, <4>1
      <4> QED
        BY <4>1, <4>2, <4>3
    <3>3. CASE k = m + 1
      <4>1. k - 1 = m /\ m # m + 1 /\ m \in 0 .. m + 1 /\ k # 0
        BY <3>3
      <4>2. G[k - 1] = F[m]
        BY <4>1
      <4> QED
        BY <3>3, <4>1, <4>2
    <3> QED
      BY <3>1, <3>2, <3>3
  <2>3. G = [k \in 0 .. m + 1 |-> IF k = 0 THEN first ELSE PopOne(G[k - 1])]
    BY <2>2
  <2> HIDE DEF G
  <2>4. Solves(G, m + 1)
    BY <2>3
  <2>5. m + 1 \in Nat
    OBVIOUS
  <2> HIDE DEF Solves
  <2> QED
    BY <2>4, <2>5
<1>3. n \in T
  <2> HIDE DEF T
  <2> QED
    BY <1>1, <1>2, SetInduction
<1> DEFINE popped == CHOOSE F : Solves(F, n)
<1>4. Solves(popped, n)
  <2>1. \E F : Solves(F, n)
    BY <1>3
  <2> HIDE DEF T, Solves
  <2> QED
    BY <2>1
<1>5. Popped(r, n) = popped[n]
  BY DEF Popped
<1> HIDE DEF popped
<1>6. popped = [k \in 0 .. n |-> IF k = 0 THEN first ELSE PopOne(popped[k - 1])]
  BY <1>4
<1> HIDE DEF T, Solves, first
<1>7. popped[0] = first /\ \A k \in 1 .. n : popped[k] = PopOne(popped[k - 1])
  BY <1>6
<1> QED
  BY <1>5, <1>7 DEF first

LEMMA Tacked ==
  ASSUME NEW a \in Seq(Nat), NEW e \in Nat
  PROVE  /\ a \o <<e>> \in Seq(Nat) /\ Len(a \o <<e>>) = Len(a) + 1 /\ Len(a) \in Nat
         /\ \A i \in 1 .. Len(a) : (a \o <<e>>)[i] = a[i]
         /\ (a \o <<e>>)[Len(a) + 1] = e
OBVIOUS

LEMMA PrefixMore ==
  ASSUME NEW s \in Seq(Nat), NEW k \in 0 .. Len(s) - 1
  PROVE  SubSeq(s, 1, k) \o <<s[k + 1]>> = SubSeq(s, 1, k + 1)
<1> DEFINE a == SubSeq(s, 1, k)
           b == SubSeq(s, 1, k + 1)
           e == s[k + 1]
           c == a \o <<e>>
<1>1. Len(s) \in Nat /\ k \in Nat /\ k + 1 \in 1 .. Len(s) /\ s[k + 1] \in Nat
  OBVIOUS
<1>2. a \in Seq(Nat) /\ Len(a) = k /\ \A i \in 1 .. k : a[i] = s[i]
  BY <1>1
<1>3. b \in Seq(Nat) /\ Len(b) = k + 1 /\ \A i \in 1 .. k + 1 : b[i] = s[i]
  BY <1>1
<1>4. e \in Nat /\ e = s[k + 1]
  BY <1>1
<1> HIDE DEF a, b, e
<1>5. /\ c \in Seq(Nat) /\ Len(c) = Len(a) + 1
      /\ \A i \in 1 .. Len(a) : c[i] = a[i]
      /\ c[Len(a) + 1] = e
  BY <1>2, <1>4, Tacked
<1> HIDE DEF c
<1>6. \A i \in 1 .. Len(b) : c[i] = b[i]
  <2> SUFFICES ASSUME NEW i \in 1 .. k + 1 PROVE c[i] = b[i]
    BY <1>3
  <2>1. CASE i \in 1 .. k
    BY <1>1, <1>2, <1>3, <1>5, <2>1
  <2>2. CASE i = k + 1
    BY <1>2, <1>3, <1>4, <1>5, <2>2
  <2> QED
    BY <1>1, <2>1, <2>2
<1>7. Len(c) = Len(b)
  BY <1>2, <1>3, <1>5
<1>8. c = b
  BY <1>3, <1>5, <1>6, <1>7, SameSequence
<1> QED
  BY <1>8 DEF a, b, c, e

\* So many packets are handed out in order, and the others are still held.
LEMMA PoppedHolds ==
  ASSUME NEW r, NEW s, RingHolds(r, s, 0), NEW n \in 0 .. r.len
  PROVE  /\ RingHolds(Popped(r, n).ring, s, n) /\ Popped(r, n).ring.there = r.there
         /\ Popped(r, n).packets = SubSeq(s, 1, n)
<1>1. r.len \in Nat /\ n \in Nat /\ s \in Seq(Nat) /\ Len(s) = r.len
  BY RingParts DEF RingHolds
<1>2. PICK F : /\ F[0] = [ring |-> r, packets |-> <<>>]
               /\ \A k \in 1 .. n : F[k] = PopOne(F[k - 1])
               /\ Popped(r, n) = F[n]
  BY <1>1, PoppedDefined
<1> DEFINE Good(k) == /\ RingHolds(F[k].ring, s, k) /\ F[k].ring.there = r.there
                      /\ F[k].packets = SubSeq(s, 1, k)
           T == {k \in Nat : k <= n => Good(k)}
<1>3. 0 \in T
  <2>1. SubSeq(s, 1, 0) = <<>>
    BY <1>1
  <2>2. Good(0)
    BY <1>2, <2>1
  <2> HIDE DEF Good
  <2> QED
    BY <2>2
<1>4. ASSUME NEW k \in Nat, k \in T
      PROVE  k + 1 \in T
  <2> SUFFICES ASSUME k + 1 <= n PROVE Good(k + 1)
    BY <1>4
  <2>1. k <= n /\ k + 1 \in 1 .. n /\ (k + 1) - 1 = k /\ k \in 0 .. Len(s) - 1
    BY <1>1
  <2>2. Good(k)
    BY <1>4, <2>1
  <2>3. F[k + 1] = PopOne(F[k])
    BY <1>2, <2>1
  <2> DEFINE remaining == F[k].ring
             out == F[k].packets
  <2>4. RingHolds(remaining, s, k) /\ remaining.there = r.there /\ out = SubSeq(s, 1, k)
    BY <2>2
  <2>5. F[k + 1] = [ring |-> PoppedFront(remaining), packets |-> out \o Foremost(remaining)]
    BY <2>3 DEF PopOne
  <2> HIDE DEF remaining, out
  <2>6. remaining.len > 0
    <3>1. k + remaining.len = Len(s) /\ remaining.len \in Nat
      BY <2>4, RingParts DEF RingHolds
    <3> QED
      BY <1>1, <2>1, <3>1
  <2>7. /\ Foremost(remaining) = <<s[k + 1]>> /\ RingHolds(PoppedFront(remaining), s, k + 1)
        /\ PoppedFront(remaining).there = remaining.there
    BY <2>4, <2>6, PopHolds
  <2>8. SubSeq(s, 1, k) \o <<s[k + 1]>> = SubSeq(s, 1, k + 1)
    BY <1>1, <2>1, PrefixMore
  <2>9. F[k + 1].ring = PoppedFront(remaining) /\ F[k + 1].packets = SubSeq(s, 1, k + 1)
    BY <2>4, <2>5, <2>7, <2>8
  <2> QED
    BY <2>4, <2>7, <2>9
<1>5. n \in T
  <2> HIDE DEF T
  <2> QED
    BY <1>1, <1>3, <1>4, SetInduction
<1>6. Good(n)
  BY <1>1, <1>5
<1> QED
  BY <1>2, <1>6

\* What is held from the n-th packet on, from its first.
LEMMA HeldRest ==
  ASSUME NEW r, NEW s, NEW n, RingHolds(r, s, n)
  PROVE  LET rest == SubSeq(s, n + 1, Len(s))
         IN  /\ RingHolds(r, rest, 0) /\ rest \in Seq(Nat) /\ Len(rest) = Len(s) - n
             /\ \A i \in 1 .. Len(s) - n : rest[i] = s[n + i]
<1> DEFINE rest == SubSeq(s, n + 1, Len(s))
<1>1. /\ r \in Rings /\ r.len \in Nat /\ s \in Seq(Nat) /\ n \in Nat /\ n + r.len = Len(s)
      /\ Len(s) \in Nat
  BY RingParts DEF RingHolds
<1>2. n \in 0 .. Len(s) /\ Len(s) - n = r.len
  BY <1>1
<1>3. /\ rest \in Seq(Nat) /\ Len(rest) = Len(s) - n
      /\ \A i \in 1 .. Len(s) - n : rest[i] = s[n + i]
  BY <1>1, <1>2
<1> HIDE DEF rest
<1>4. \A k \in 0 .. r.len - 1 : rest[0 + k + 1] = Placed(r, k)
  <2> SUFFICES ASSUME NEW k \in 0 .. r.len - 1
               PROVE  rest[0 + k + 1] = Placed(r, k)
    OBVIOUS
  <2>1. k \in Nat /\ k + 1 \in 1 .. Len(s) - n /\ 0 + k + 1 = k + 1
    BY <1>1, <1>2
  <2>2. n + (k + 1) = n + k + 1
    BY <1>1, <2>1
  <2>3. s[n + k + 1] = Placed(r, k)
    BY DEF RingHolds
  <2> QED
    BY <1>3, <2>1, <2>2, <2>3
<1>5. RingHolds(r, rest, 0)
  <2>1. 0 + r.len = Len(rest)
    BY <1>1, <1>2, <1>3
  <2> QED
    BY <1>1, <1>3, <1>4, <2>1 DEF RingHolds
<1> QED
  BY <1>2, <1>3, <1>5 DEF rest

\* The packets of a ring are what it holds.
LEMMA ListedHeld ==
  ASSUME NEW r, NEW s, RingHolds(r, s, 0)
  PROVE  Listed(r) = s
<1>1. r.len \in 0 .. r.len /\ s \in Seq(Nat) /\ Len(s) = r.len
  BY RingParts DEF RingHolds
<1>2. Listed(r) = SubSeq(s, 1, r.len)
  BY <1>1, PoppedHolds DEF Listed
<1>3. SubSeq(s, 1, Len(s)) = s
  BY <1>1
<1> QED
  BY <1>1, <1>2, <1>3

-----------------------------------------------------------------------------
(* Where every interval is.                                                *)
Totals ==
  [packets : Nat, drops : Nat, lost : Nat, failed : Nat, reconnects : Nat, errors : Nat,
   handshakes : Nat]

Links ==
  [secure : BOOLEAN, open : BOOLEAN, shaking : BOOLEAN, fresh : BOOLEAN, cut : BOOLEAN,
   handles : Int, probe : BOOLEAN]

LinkTypeOK ==
  /\ interval \in Nat /\ batch \in Seq(Nat) /\ link \in Links /\ totals \in Totals
  /\ allowed \in BOOLEAN /\ aside \in Nat /\ carried \in Nat

Rising(s) == \A i, j \in 1 .. Len(s) : i < j => s[i] < s[j]

\* What waits in the ring comes after what waits in the batch, and all of it
\* was captured.
InOrder(s, t, n) ==
  /\ Rising(s) /\ Rising(t)
  /\ \A i \in 1 .. Len(s) : s[i] < n
  /\ \A j \in 1 .. Len(t) : t[j] < n
  /\ \A i \in 1 .. Len(s), j \in 1 .. Len(t) : s[i] < t[j]

Tallied(queued) ==
  interval = totals.packets + totals.drops + totals.lost + totals.failed + aside
               + Len(batch) + Len(queued)

Waiting(queued) == RingHolds(ring, queued, 0) /\ InOrder(batch, queued, interval) /\ Tallied(queued)

\* A reconnect is counted with the first batch that a later connection carries.
Connections ==
  /\ totals.packets = 0 <=> carried = 0
  /\ totals.reconnects = IF carried = 0 THEN 0 ELSE carried - 1
  /\ totals.handshakes <= totals.errors
  /\ link.open /\ ~link.fresh => carried > 0
  /\ link.shaking => ~link.open

LinkInv ==
  /\ LinkTypeOK
  /\ ~ring.there => ring.len = 0
  /\ \E queued \in Seq(Nat) : Waiting(queued)
  /\ Connections
  /\ LinkFramed

\* The sequences that wait stay in order.
LEMMA OrderLater ==
  ASSUME NEW s \in Seq(Nat), NEW t \in Seq(Nat), NEW n \in Nat, NEW m \in Nat, n <= m,
         InOrder(s, t, n)
  PROVE  InOrder(s, t, m)
<1>1. \A i \in 1 .. Len(s) : s[i] \in Nat
  OBVIOUS
<1>2. \A j \in 1 .. Len(t) : t[j] \in Nat
  OBVIOUS
<1>3. \A i \in 1 .. Len(s) : s[i] < m
  BY <1>1 DEF InOrder
<1>4. \A j \in 1 .. Len(t) : t[j] < m
  BY <1>2 DEF InOrder
<1> QED
  BY <1>3, <1>4 DEF InOrder

LEMMA OrderWithout ==
  ASSUME NEW s \in Seq(Nat), NEW t \in Seq(Nat), NEW n \in Nat, InOrder(s, t, n)
  PROVE  InOrder(<<>>, t, n) /\ InOrder(s, <<>>, n)
BY DEF InOrder, Rising

LEMMA OrderRest ==
  ASSUME NEW s \in Seq(Nat), NEW t \in Seq(Nat), NEW u \in Seq(Nat), NEW k \in Nat,
         NEW n \in Nat, InOrder(s, t, n), k + Len(u) = Len(t),
         \A i \in 1 .. Len(u) : u[i] = t[k + i]
  PROVE  InOrder(s, u, n)
<1>1. Len(u) \in Nat /\ Len(t) \in Nat
  OBVIOUS
<1>2. \A i \in 1 .. Len(u) : k + i \in 1 .. Len(t)
  BY <1>1
<1>3. ASSUME NEW i \in 1 .. Len(u), NEW j \in 1 .. Len(u), i < j
      PROVE  u[i] < u[j]
  <2>1. k + i < k + j /\ k + i \in 1 .. Len(t) /\ k + j \in 1 .. Len(t)
    BY <1>1, <1>2, <1>3
  <2>2. t[k + i] < t[k + j]
    BY <2>1 DEF InOrder, Rising
  <2> QED
    BY <2>2
<1>4. Rising(u)
  BY <1>3 DEF Rising
<1> QED
  BY <1>2, <1>4 DEF InOrder

LEMMA OrderMore ==
  ASSUME NEW s \in Seq(Nat), NEW t \in Seq(Nat), NEW n \in Nat, InOrder(s, t, n)
  PROVE  InOrder(s, Append(t, n), n + 1)
<1> DEFINE u == Append(t, n)
<1>1. /\ u \in Seq(Nat) /\ Len(t) \in Nat /\ Len(u) = Len(t) + 1
      /\ \A i \in 1 .. Len(t) : u[i] = t[i]
      /\ u[Len(t) + 1] = n
  OBVIOUS
<1> HIDE DEF u
<1>2. InOrder(s, t, n + 1)
  <2>1. n + 1 \in Nat /\ n <= n + 1
    OBVIOUS
  <2> QED
    BY <2>1, OrderLater
<1>3. \A j \in 1 .. Len(u) : j \in 1 .. Len(t) \/ j = Len(t) + 1
  BY <1>1
<1>4. ASSUME NEW j \in 1 .. Len(u)
      PROVE  u[j] < n + 1
  <2>1. CASE j \in 1 .. Len(t)
    BY <1>1, <1>2, <2>1 DEF InOrder
  <2>2. CASE j = Len(t) + 1
    <3>1. u[j] = n
      BY <1>1, <2>2
    <3> QED
      BY <3>1
  <2> QED
    BY <1>3, <2>1, <2>2
<1>5. \A i \in 1 .. Len(s), j \in 1 .. Len(u) : s[i] < u[j]
  BY <1>1, <1>3 DEF InOrder
<1>6. ASSUME NEW i \in 1 .. Len(u), NEW j \in 1 .. Len(u), i < j
      PROVE  u[i] < u[j]
  <2>1. i \in 1 .. Len(t)
    BY <1>1, <1>6
  <2>2. CASE j \in 1 .. Len(t)
    BY <1>1, <1>6, <2>1, <2>2 DEF InOrder, Rising
  <2>3. CASE j = Len(t) + 1
    BY <1>1, <2>1, <2>3 DEF InOrder
  <2> QED
    BY <1>3, <2>2, <2>3
<1>7. Rising(u)
  BY <1>6 DEF Rising
<1> QED
  BY <1>2, <1>4, <1>5, <1>7 DEF InOrder, u

LEMMA OrderSplit ==
  ASSUME NEW t \in Seq(Nat), NEW k \in 0 .. Len(t), NEW n \in Nat, InOrder(<<>>, t, n)
  PROVE  LET s == SubSeq(t, 1, k)
             u == SubSeq(t, k + 1, Len(t))
         IN  /\ InOrder(s, u, n) /\ s \in Seq(Nat) /\ u \in Seq(Nat)
             /\ Len(s) = k /\ Len(u) = Len(t) - k
<1> DEFINE s == SubSeq(t, 1, k)
           u == SubSeq(t, k + 1, Len(t))
<1>1. Len(t) \in Nat /\ k \in Nat
  OBVIOUS
<1>2. s \in Seq(Nat) /\ Len(s) = k /\ \A i \in 1 .. k : s[i] = t[i]
  BY <1>1
<1>3. u \in Seq(Nat) /\ Len(u) = Len(t) - k /\ \A i \in 1 .. Len(t) - k : u[i] = t[k + i]
  BY <1>1
<1> HIDE DEF s, u
<1>4. InOrder(<<>>, u, n)
  <2>1. k + Len(u) = Len(t) /\ \A i \in 1 .. Len(u) : u[i] = t[k + i]
    BY <1>1, <1>3
  <2>2. <<>> \in Seq(Nat)
    OBVIOUS
  <2> QED
    BY <1>1, <1>3, <2>1, <2>2, OrderRest
<1>5. \A i \in 1 .. k : i \in 1 .. Len(t)
  BY <1>1
<1>6. \A i \in 1 .. Len(s) : s[i] < n
  BY <1>2, <1>5 DEF InOrder
<1>7. Rising(s)
  BY <1>2, <1>5 DEF InOrder, Rising
<1>8. ASSUME NEW i \in 1 .. Len(s), NEW j \in 1 .. Len(u)
      PROVE  s[i] < u[j]
  <2>1. i \in 1 .. k /\ j \in 1 .. Len(t) - k
    BY <1>2, <1>3
  <2>2. i \in 1 .. Len(t) /\ k + j \in 1 .. Len(t) /\ i < k + j
    BY <1>1, <2>1
  <2>3. t[i] < t[k + j]
    BY <2>2 DEF InOrder, Rising
  <2> QED
    BY <1>2, <1>3, <2>1, <2>3
<1> QED
  BY <1>2, <1>3, <1>4, <1>6, <1>7, <1>8 DEF InOrder, s, u

-----------------------------------------------------------------------------
\* The counters, each by what adds to it.
LEMMA TotalsParts ==
  ASSUME NEW t \in Totals
  PROVE  /\ t.packets \in Nat /\ t.drops \in Nat /\ t.lost \in Nat /\ t.failed \in Nat
         /\ t.reconnects \in Nat /\ t.errors \in Nat /\ t.handshakes \in Nat
BY DEF Totals

SameConnections(t, u) ==
  u.packets = t.packets /\ u.reconnects = t.reconnects /\ u.handshakes <= u.errors

LEMMA Dropping ==
  ASSUME NEW t \in Totals, t.handshakes <= t.errors
  PROVE  /\ QueueDropped(t) \in Totals /\ SameConnections(t, QueueDropped(t))
         /\ QueueDropped(t).drops = t.drops + 1 /\ QueueDropped(t).lost = t.lost
         /\ QueueDropped(t).failed = t.failed
BY DEF Totals, QueueDropped, SameConnections

LEMMA Losing ==
  ASSUME NEW t \in Totals, t.handshakes <= t.errors, NEW n \in Nat
  PROVE  /\ CaptureLost(t, n) \in Totals /\ SameConnections(t, CaptureLost(t, n))
         /\ CaptureLost(t, n).drops = t.drops /\ CaptureLost(t, n).lost = t.lost + n
         /\ CaptureLost(t, n).failed = t.failed
BY DEF Totals, CaptureLost, SameConnections

LEMMA Failing ==
  ASSUME NEW t \in Totals, t.handshakes <= t.errors, NEW n \in Nat, NEW h \in BOOLEAN
  PROVE  LET u == NetworkFailed(SendFailed(t, n), h)
         IN  /\ u \in Totals /\ SameConnections(t, u)
             /\ u.drops = t.drops /\ u.lost = t.lost /\ u.failed = t.failed + n
<1> DEFINE v == [t EXCEPT !.failed = t.failed + n]
           u == NetworkFailed(SendFailed(t, n), h)
<1>1. t.failed + n \in Nat /\ t.errors + 1 \in Nat /\ t.handshakes + 1 \in Nat
      /\ t.handshakes \in Nat /\ t.errors \in Nat
  BY TotalsParts
<1>2. v \in Totals /\ v.failed = t.failed + n /\ v.packets = t.packets /\ v.drops = t.drops
      /\ v.lost = t.lost /\ v.reconnects = t.reconnects /\ v.errors = t.errors
      /\ v.handshakes = t.handshakes
  BY <1>1 DEF Totals
<1>3. SendFailed(t, n) = v
  BY DEF SendFailed
<1> HIDE DEF v
<1> DEFINE w(x) == [v EXCEPT !.errors = v.errors + 1, !.handshakes = x]
<1>4. u = w(IF h THEN v.handshakes + 1 ELSE v.handshakes)
  BY <1>3 DEF NetworkFailed
<1>5. ASSUME NEW x \in Nat, x <= v.errors + 1
      PROVE  /\ w(x) \in Totals /\ w(x).handshakes <= w(x).errors
             /\ w(x).packets = v.packets /\ w(x).reconnects = v.reconnects
             /\ w(x).drops = v.drops /\ w(x).lost = v.lost /\ w(x).failed = v.failed
  BY <1>1, <1>2, <1>5 DEF Totals
<1> HIDE DEF u, w
<1>6. (IF h THEN v.handshakes + 1 ELSE v.handshakes) \in Nat
      /\ (IF h THEN v.handshakes + 1 ELSE v.handshakes) <= v.errors + 1
  BY <1>1, <1>2
<1>7. /\ u \in Totals /\ u.handshakes <= u.errors
      /\ u.packets = v.packets /\ u.reconnects = v.reconnects
      /\ u.drops = v.drops /\ u.lost = v.lost /\ u.failed = v.failed
  BY <1>4, <1>5, <1>6
<1> QED
  BY <1>2, <1>7 DEF SameConnections, u

LEMMA Sending ==
  ASSUME NEW t \in Totals, t.handshakes <= t.errors, NEW n \in Nat, NEW fresh \in BOOLEAN
  PROVE  LET u == BatchSent(t, n, fresh)
         IN  /\ u \in Totals /\ u.handshakes <= u.errors /\ u.packets = t.packets + n
             /\ u.drops = t.drops /\ u.lost = t.lost /\ u.failed = t.failed
             /\ u.reconnects = IF fresh /\ t.packets > 0 THEN t.reconnects + 1
                                                         ELSE t.reconnects
<1> DEFINE more == IF fresh /\ t.packets > 0 THEN t.reconnects + 1 ELSE t.reconnects
           u == [t EXCEPT !.packets = t.packets + n, !.reconnects = more]
<1>1. BatchSent(t, n, fresh) = u
  BY DEF BatchSent
<1>2. more \in Nat /\ t.packets + n \in Nat
  BY TotalsParts
<1> HIDE DEF more
<1>3. /\ u \in Totals /\ u.handshakes <= u.errors /\ u.packets = t.packets + n
      /\ u.drops = t.drops /\ u.lost = t.lost /\ u.failed = t.failed /\ u.reconnects = more
  BY <1>2 DEF Totals
<1> QED
  BY <1>1, <1>3 DEF more

-----------------------------------------------------------------------------
\* The connection, by what is done with it.
LEMMA LinkParts ==
  ASSUME NEW l \in Links
  PROVE  /\ l.secure \in BOOLEAN /\ l.open \in BOOLEAN /\ l.shaking \in BOOLEAN
         /\ l.fresh \in BOOLEAN /\ l.cut \in BOOLEAN /\ l.probe \in BOOLEAN /\ l.handles \in Int
BY DEF Links

Framed(l) ==
  /\ ~l.cut
  /\ l.handles = (IF l.open \/ l.shaking THEN 1 ELSE 0) + (IF l.probe THEN 1 ELSE 0)

LEMMA Closing ==
  ASSUME link \in Links, Framed(link), link.shaking => ~link.open
  PROVE  /\ Closed \in Links /\ Framed(Closed) /\ ~Closed.open
<1> DEFINE fewer == link.handles - (IF link.open THEN 1 ELSE 0)
<1>1. fewer \in Int
  BY LinkParts
<1>2. Closed = [link EXCEPT !.open = FALSE, !.fresh = FALSE, !.cut = FALSE, !.handles = fewer]
  BY DEF Closed
<1> HIDE DEF fewer
<1>3. /\ Closed \in Links /\ Closed.open = FALSE /\ Closed.cut = FALSE
      /\ Closed.handles = fewer /\ Closed.shaking = link.shaking /\ Closed.probe = link.probe
  BY <1>1, <1>2 DEF Links
<1>4. fewer = (IF link.shaking THEN 1 ELSE 0) + (IF link.probe THEN 1 ELSE 0)
  BY LinkParts DEF Framed, fewer
<1> QED
  BY <1>3, <1>4 DEF Framed

LEMMA Connecting ==
  ASSUME link \in Links, Framed(link), ~link.open
  PROVE  /\ link.shaking => Connected \in Links /\ Framed(Connected)
         /\ ~link.shaking => [Connected EXCEPT !.handles = Connected.handles + 1] \in Links
                             /\ Framed([Connected EXCEPT !.handles = Connected.handles + 1])
         /\ Connected.fresh /\ ~Connected.shaking /\ Connected.open
         /\ [Connected EXCEPT !.handles = Connected.handles + 1].fresh
         /\ ~[Connected EXCEPT !.handles = Connected.handles + 1].shaking
<1>1. /\ Connected \in Links /\ Connected.open = TRUE /\ Connected.fresh = TRUE
      /\ Connected.shaking = FALSE /\ Connected.cut = link.cut
      /\ Connected.handles = link.handles /\ Connected.probe = link.probe
  BY DEF Connected, Links
<1> DEFINE c == [Connected EXCEPT !.handles = Connected.handles + 1]
<1>2. Connected.handles + 1 \in Int
  BY <1>1, LinkParts
<1>3. /\ c \in Links /\ c.open = TRUE /\ c.fresh = TRUE /\ c.shaking = FALSE
      /\ c.cut = link.cut /\ c.handles = link.handles + 1 /\ c.probe = link.probe
  BY <1>1, <1>2 DEF Links
<1> HIDE DEF c
<1>4. link.shaking => Framed(Connected)
  BY <1>1 DEF Framed
<1>5. ~link.shaking => Framed(c)
  BY <1>3, LinkParts DEF Framed
<1> QED
  BY <1>1, <1>3, <1>4, <1>5 DEF c

\* A handle allocated for a handshake, and one destroyed after it.
LEMMA Shaking ==
  ASSUME link \in Links, Framed(link), ~link.open, NEW x \in BOOLEAN,
         link.shaking = ~x
  PROVE  LET l == [link EXCEPT !.shaking = x,
                               !.handles = IF x THEN link.handles + 1 ELSE link.handles - 1]
         IN  l \in Links /\ Framed(l) /\ l.open = link.open
<1> DEFINE h == IF x THEN link.handles + 1 ELSE link.handles - 1
           l == [link EXCEPT !.shaking = x, !.handles = h]
<1>1. h \in Int /\ link.handles \in Int
  BY LinkParts
<1> HIDE DEF h
<1>2. /\ l \in Links /\ l.shaking = x /\ l.handles = h /\ l.open = link.open
      /\ l.cut = link.cut /\ l.probe = link.probe
  BY <1>1 DEF Links
<1>3. h = (IF x THEN 1 ELSE 0) + (IF link.probe THEN 1 ELSE 0)
  <2>1. CASE x
    <3>1. ~link.shaking
      BY <2>1
    <3>2. link.handles = 0 + (IF link.probe THEN 1 ELSE 0)
      BY <3>1 DEF Framed
    <3> QED
      BY <2>1, <3>2 DEF h
  <2>2. CASE ~x
    <3>1. link.shaking
      BY <2>2
    <3>2. link.handles = 1 + (IF link.probe THEN 1 ELSE 0)
      BY <3>1 DEF Framed
    <3> QED
      BY <2>2, <3>2 DEF h
  <2> QED
    BY <2>1, <2>2
<1> HIDE DEF l
<1>4. Framed(l)
  BY <1>2, <1>3 DEF Framed
<1> QED
  BY <1>2, <1>4 DEF l, h

LEMMA Probing ==
  ASSUME link \in Links, Framed(link), NEW x \in BOOLEAN, link.probe = ~x
  PROVE  LET l == [link EXCEPT !.probe = x,
                               !.handles = IF x THEN link.handles + 1 ELSE link.handles - 1]
         IN  /\ l \in Links /\ Framed(l) /\ l.open = link.open /\ l.shaking = link.shaking
             /\ l.fresh = link.fresh
<1> DEFINE h == IF x THEN link.handles + 1 ELSE link.handles - 1
           l == [link EXCEPT !.probe = x, !.handles = h]
<1>1. h \in Int /\ link.handles \in Int
  BY LinkParts
<1> HIDE DEF h
<1>2. /\ l \in Links /\ l.shaking = link.shaking /\ l.handles = h /\ l.open = link.open
      /\ l.cut = link.cut /\ l.probe = x /\ l.fresh = link.fresh
  BY <1>1 DEF Links
<1> DEFINE busy == IF link.open \/ link.shaking THEN 1 ELSE 0
<1>3. h = busy + (IF x THEN 1 ELSE 0)
  <2>1. busy \in Int /\ link.handles = busy + (IF link.probe THEN 1 ELSE 0)
    BY DEF Framed
  <2> HIDE DEF busy
  <2>2. CASE x
    <3>1. ~link.probe
      BY <2>2
    <3>2. link.handles = busy + 0
      BY <2>1, <3>1
    <3> QED
      BY <2>1, <2>2, <3>2 DEF h
  <2>3. CASE ~x
    <3>1. link.probe
      BY <2>3
    <3>2. link.handles = busy + 1
      BY <2>1, <3>1
    <3> QED
      BY <2>1, <2>3, <3>2 DEF h
  <2> QED
    BY <2>2, <2>3
<1> HIDE DEF l
<1>4. Framed(l)
  BY <1>2, <1>3 DEF Framed
<1> QED
  BY <1>2, <1>4 DEF l, h

-----------------------------------------------------------------------------
(* One lemma per kind of step.                                             *)

\* What the ring holds, and the rest of the invariant in its parts.
LEMMA LinkInvParts ==
  ASSUME LinkInv
  PROVE  /\ interval \in Nat /\ batch \in Seq(Nat) /\ Len(batch) \in Nat
         /\ link \in Links /\ totals \in Totals
         /\ allowed \in BOOLEAN /\ aside \in Nat /\ carried \in Nat
         /\ Framed(link) /\ totals.handshakes <= totals.errors
         /\ link.shaking => ~link.open
<1>1. batch \in Seq(Nat)
  BY DEF LinkInv, LinkTypeOK
<1>2. Len(batch) \in Nat
  BY <1>1
<1> QED
  BY <1>1, <1>2 DEF LinkInv, LinkTypeOK, Connections, LinkFramed, Framed

\* The counters and the connection as before, but for what no part counts.
SameLink ==
  /\ link' \in Links /\ Framed(link') /\ (link'.shaking => ~link'.open)
  /\ link'.open /\ ~link'.fresh => carried > 0
  /\ totals' \in Totals /\ SameConnections(totals, totals')
  /\ carried' = carried /\ allowed' \in BOOLEAN

SameQueue == UNCHANGED <<ring, interval, batch, aside>>

SameCounts == totals'.drops = totals.drops /\ totals'.lost = totals.lost
              /\ totals'.failed = totals.failed /\ totals'.packets = totals.packets

LEMMA SameWaiting ==
  ASSUME LinkInv, SameQueue, SameCounts
  PROVE  (\E queued \in Seq(Nat) : Waiting(queued))' /\ (~ring.there => ring.len = 0)'
<1>1. PICK queued \in Seq(Nat) : Waiting(queued)
  BY DEF LinkInv
<1>2. RingHolds(ring', queued, 0) /\ InOrder(batch', queued, interval')
  BY <1>1 DEF Waiting, SameQueue
<1>3. Tallied(queued)'
  BY <1>1 DEF Waiting, Tallied, SameQueue, SameCounts
<1>4. Waiting(queued)'
  BY <1>2, <1>3 DEF Waiting
<1> QED
  BY <1>4 DEF LinkInv, SameQueue

\* An invariant put together again.
LEMMA LinkAgain ==
  ASSUME LinkInv, SameLink, interval' \in Nat, batch' \in Seq(Nat), aside' \in Nat,
         ~ring'.there => ring'.len = 0,
         (\E queued \in Seq(Nat) : Waiting(queued))'
  PROVE  LinkInv'
<1>1. LinkTypeOK'
  BY LinkInvParts DEF LinkTypeOK, SameLink
<1>2. Connections'
  BY DEF Connections, SameLink, SameConnections, LinkInv
<1>3. LinkFramed'
  BY DEF LinkFramed, Framed, SameLink
<1> QED
  BY <1>1, <1>2, <1>3 DEF LinkInv

\* A step of the ring or of the capture leaves the connection alone.
LEMMA LinkUntouched ==
  ASSUME LinkInv, UNCHANGED <<link, carried>>, allowed' \in BOOLEAN,
         totals' \in Totals, SameConnections(totals, totals')
  PROVE  SameLink
BY LinkInvParts DEF SameLink, LinkInv, Connections

\* What is counted, with what waits.
LEMMA WaitingParts ==
  ASSUME LinkInv
  PROVE  \E queued \in Seq(Nat) :
           /\ RingHolds(ring, queued, 0) /\ InOrder(batch, queued, interval) /\ Tallied(queued)
           /\ Len(queued) \in Nat /\ Len(queued) = ring.len
<1>1. PICK queued \in Seq(Nat) : Waiting(queued)
  BY DEF LinkInv
<1>2. RingHolds(ring, queued, 0)
  BY <1>1 DEF Waiting
<1>3. Len(queued) = ring.len /\ ring.len \in Nat
  BY <1>2, RingParts DEF RingHolds
<1> QED
  BY <1>1, <1>3 DEF Waiting

LEMMA LinkInitInv ==
  ASSUME PcmInit
  PROVE  LinkInv
<1>1. LinkTypeOK
  BY DEF PcmInit, LinkTypeOK, Links, Totals
<1>2. RingHolds(ring, <<>>, 0) /\ ring.len = 0
  BY EmptyHolds DEF PcmInit
<1>3. InOrder(batch, <<>>, interval)
  BY DEF PcmInit, InOrder, Rising
<1>4. Tallied(<<>>)
  BY DEF PcmInit, Tallied
<1>5. \E queued \in Seq(Nat) : Waiting(queued)
  <2>1. Waiting(<<>>)
    BY <1>2, <1>3, <1>4 DEF Waiting
  <2>2. <<>> \in Seq(Nat)
    OBVIOUS
  <2> QED
    BY <2>1, <2>2
<1>6. Connections /\ LinkFramed
  BY DEF PcmInit, Connections, LinkFramed
<1> QED
  BY <1>1, <1>2, <1>5, <1>6 DEF LinkInv

AddedUp(p, d, l, f, a, b, q) == p + d + l + f + a + b + q

LEMMA TalliedAdds ==
  ASSUME NEW queued
  PROVE  Tallied(queued) <=> interval = AddedUp(totals.packets, totals.drops, totals.lost,
                                          totals.failed, aside, Len(batch), Len(queued))
BY DEF Tallied, AddedUp

\* An interval nobody queues is put aside, and one that is queued is counted
\* where the ring makes room for it.
LEMMA CapturePreserves ==
  ASSUME LinkInv, CaptureInterval
  PROVE  LinkInv'
<1>1. /\ interval \in Nat /\ batch \in Seq(Nat) /\ Len(batch) \in Nat /\ totals \in Totals
      /\ allowed \in BOOLEAN /\ aside \in Nat /\ totals.handshakes <= totals.errors
  BY LinkInvParts
<1>2. /\ totals.packets \in Nat /\ totals.drops \in Nat /\ totals.lost \in Nat
      /\ totals.failed \in Nat
  BY <1>1, TotalsParts
<1>3. PICK queued \in Seq(Nat) :
           /\ RingHolds(ring, queued, 0) /\ InOrder(batch, queued, interval) /\ Tallied(queued)
           /\ Len(queued) \in Nat /\ Len(queued) = ring.len
  BY WaitingParts
<1>4. interval' = interval + 1 /\ UNCHANGED <<batch, link, allowed, carried>>
  BY DEF CaptureInterval
<1>5. interval + 1 \in Nat /\ interval <= interval + 1 /\ aside + 1 \in Nat
  BY <1>1
<1>11. PICK p \in Nat, d \in Nat, l \in Nat, f \in Nat, a \in Nat, b \in Nat, q \in Nat :
           /\ p = totals.packets /\ d = totals.drops /\ l = totals.lost /\ f = totals.failed
           /\ a = aside /\ b = Len(batch) /\ q = Len(queued)
  BY <1>1, <1>2, <1>3
<1>6. interval = AddedUp(p, d, l, f, a, b, q)
  BY <1>3, <1>11, TalliedAdds
<1>7. CASE ring' = ring /\ totals' = totals /\ aside' = aside + 1
  <2>1. InOrder(batch, queued, interval + 1)
    BY <1>1, <1>3, <1>5, OrderLater
  <2>2. Tallied(queued)'
    <3>1. interval + 1 = AddedUp(p, d, l, f, a + 1, b, q)
      BY <1>6 DEF AddedUp
    <3> QED
      BY <1>4, <1>7, <1>11, <3>1 DEF Tallied, AddedUp
  <2>3. Waiting(queued)'
    BY <1>3, <1>4, <1>7, <2>1, <2>2 DEF Waiting
  <2>4. SameLink
    BY <1>1, <1>4, <1>7, LinkUntouched DEF SameConnections
  <2>5. ~ring'.there => ring'.len = 0
    BY <1>7 DEF LinkInv
  <2> QED
    BY <1>1, <1>4, <1>5, <1>7, <2>3, <2>4, <2>5, LinkAgain
<1>8. CASE /\ ring.there /\ ring.len = QueueDepth
           /\ ring' = PushedBack(PoppedFront(ring), interval)
           /\ totals' = QueueDropped(totals) /\ aside' = aside
  <2> DEFINE left == PoppedFront(ring)
             rest == SubSeq(queued, 2, Len(queued))
  <2>1. ring.len > 0
    BY <1>8, DepthType
  <2>2. RingHolds(left, queued, 1) /\ left.there = ring.there
    <3>1. RingHolds(left, queued, 0 + 1) /\ left.there = ring.there
      BY <1>3, <2>1, PopHolds
    <3> QED
      BY <3>1
  <2>3. /\ RingHolds(left, rest, 0) /\ rest \in Seq(Nat) /\ Len(rest) = Len(queued) - 1
        /\ \A i \in 1 .. Len(queued) - 1 : rest[i] = queued[1 + i]
    <3>1. Len(queued) > 0
      BY <1>3, <2>1
    <3>2. /\ rest \in Seq(Nat) /\ Len(rest) = Len(queued) - 1
          /\ \A i \in 1 .. Len(queued) - 1 : rest[i] = queued[i + 1]
      BY <3>1, WithoutFirst
    <3>3. \A i \in 1 .. Len(queued) - 1 : i + 1 = 1 + i
      OBVIOUS
    <3>4. RingHolds(left, rest, 0)
      <4>1. PICK k : k = 1
        OBVIOUS
      <4>2. RingHolds(left, queued, k) /\ SubSeq(queued, k + 1, Len(queued)) = rest
        BY <2>2, <4>1
      <4> HIDE DEF left, rest
      <4>3. RingHolds(left, SubSeq(queued, k + 1, Len(queued)), 0)
        BY <4>2, HeldRest
      <4> QED
        BY <4>2, <4>3
    <3> HIDE DEF left, rest
    <3> QED
      BY <3>2, <3>3, <3>4
  <2> HIDE DEF left, rest
  <2>15. Append(rest, interval) \in Seq(Nat) /\ Len(Append(rest, interval)) = Len(rest) + 1
    BY <1>1, <2>3
  <2>16. PICK longer \in Seq(Nat) : longer = Append(rest, interval)
    BY <2>15
  <2>4. RingHolds(ring', longer, 0) /\ ring'.there = left.there
    BY <1>1, <1>8, <2>3, <2>16, PushHolds DEF left
  <2>5. longer \in Seq(Nat) /\ Len(longer) = Len(rest) + 1
    BY <2>15, <2>16
  <2>6. InOrder(batch, rest, interval)
    <3>1. 1 + Len(rest) = Len(queued)
      BY <1>3, <2>3
    <3>2. \A i \in 1 .. Len(rest) : rest[i] = queued[1 + i]
      BY <2>3
    <3>3. queued \in Seq(Nat) /\ 1 \in Nat
      OBVIOUS
    <3> QED
      BY <1>1, <1>3, <2>3, <3>1, <3>2, <3>3, OrderRest
  <2>7. InOrder(batch, longer, interval + 1)
    BY <1>1, <2>3, <2>6, <2>16, OrderMore
  <2>8. /\ totals' \in Totals /\ SameConnections(totals, totals')
        /\ totals'.drops = totals.drops + 1 /\ totals'.lost = totals.lost
        /\ totals'.failed = totals.failed
    BY <1>1, <1>8, Dropping
  <2>9. totals'.packets = totals.packets
    BY <2>8 DEF SameConnections
  <2>10. Len(longer) = Len(queued)
    BY <1>3, <2>3, <2>5
  <2>11. Tallied(longer)'
    <3>1. interval + 1 = AddedUp(p, d + 1, l, f, a, b, q)
      BY <1>6 DEF AddedUp
    <3> QED
      BY <1>4, <1>8, <1>11, <2>8, <2>9, <2>10, <3>1 DEF Tallied, AddedUp
  <2>12. Waiting(longer)'
    BY <1>4, <2>4, <2>7, <2>11 DEF Waiting
  <2>13. SameLink
    BY <1>1, <1>4, <2>8, LinkUntouched
  <2>14. ~ring'.there => ring'.len = 0
    BY <1>8, <2>2, <2>4
  <2> QED
    BY <1>1, <1>4, <1>5, <1>8, <2>5, <2>12, <2>13, <2>14, LinkAgain
<1>9. CASE /\ ring.there /\ ring' = PushedBack(ring, interval)
           /\ totals' = totals /\ aside' = aside
  <2>8. Append(queued, interval) \in Seq(Nat) /\ Len(Append(queued, interval)) = Len(queued) + 1
    BY <1>1
  <2>9. PICK longer \in Seq(Nat) : longer = Append(queued, interval)
    BY <2>8
  <2>1. RingHolds(ring', longer, 0) /\ ring'.there = ring.there
    BY <1>1, <1>3, <1>9, <2>9, PushHolds
  <2>2. longer \in Seq(Nat) /\ Len(longer) = Len(queued) + 1
    BY <2>8, <2>9
  <2>3. InOrder(batch, longer, interval + 1)
    BY <1>1, <1>3, <2>9, OrderMore
  <2>4. Tallied(longer)'
    <3>1. interval + 1 = AddedUp(p, d, l, f, a, b, q + 1)
      BY <1>6 DEF AddedUp
    <3> QED
      BY <1>4, <1>9, <1>11, <2>2, <3>1 DEF Tallied, AddedUp
  <2>5. Waiting(longer)'
    BY <1>4, <2>1, <2>3, <2>4 DEF Waiting
  <2>6. SameLink
    BY <1>1, <1>4, <1>9, LinkUntouched DEF SameConnections
  <2>7. ~ring'.there => ring'.len = 0
    BY <1>9, <2>1
  <2> QED
    BY <1>1, <1>4, <1>5, <1>9, <2>2, <2>5, <2>6, <2>7, LinkAgain
<1>10. \/ ring' = ring /\ totals' = totals /\ aside' = aside + 1
       \/ /\ ring.there /\ ring.len = QueueDepth
          /\ ring' = PushedBack(PoppedFront(ring), interval)
          /\ totals' = QueueDropped(totals) /\ aside' = aside
       \/ /\ ring.there /\ ring' = PushedBack(ring, interval)
          /\ totals' = totals /\ aside' = aside
  BY DEF CaptureInterval, PushDropOldest
<1> QED
  BY <1>7, <1>8, <1>9, <1>10

LEMMA LosePreserves ==
  ASSUME LinkInv, LoseIntervals
  PROVE  LinkInv'
<1>1. /\ interval \in Nat /\ batch \in Seq(Nat) /\ Len(batch) \in Nat /\ totals \in Totals
      /\ allowed \in BOOLEAN /\ aside \in Nat /\ totals.handshakes <= totals.errors
  BY LinkInvParts
<1>2. /\ totals.packets \in Nat /\ totals.drops \in Nat /\ totals.lost \in Nat
      /\ totals.failed \in Nat
  BY <1>1, TotalsParts
<1>3. PICK queued \in Seq(Nat) :
           /\ RingHolds(ring, queued, 0) /\ InOrder(batch, queued, interval) /\ Tallied(queued)
           /\ Len(queued) \in Nat /\ Len(queued) = ring.len
  BY WaitingParts
<1>4. PICK n \in 1 .. MaxLostAtOnce :
           /\ interval' = interval + n /\ totals' = CaptureLost(totals, n)
           /\ UNCHANGED <<ring, batch, link, allowed, aside, carried>>
  BY DEF LoseIntervals
<1>5. n \in Nat /\ interval + n \in Nat /\ interval <= interval + n
  BY <1>1, LinkAssumption
<1>6. /\ totals' \in Totals /\ SameConnections(totals, totals')
      /\ totals'.drops = totals.drops /\ totals'.lost = totals.lost + n
      /\ totals'.failed = totals.failed
  BY <1>1, <1>4, <1>5, Losing
<1>7. totals'.packets = totals.packets
  BY <1>6 DEF SameConnections
<1>8. InOrder(batch, queued, interval + n)
  BY <1>1, <1>3, <1>5, OrderLater
<1>9. Tallied(queued)'
  <2>1. PICK p \in Nat, d \in Nat, l \in Nat, f \in Nat, a \in Nat, b \in Nat, q \in Nat :
           /\ p = totals.packets /\ d = totals.drops /\ l = totals.lost /\ f = totals.failed
           /\ a = aside /\ b = Len(batch) /\ q = Len(queued)
    BY <1>1, <1>2, <1>3
  <2>2. interval = AddedUp(p, d, l, f, a, b, q)
    BY <1>3, <2>1, TalliedAdds
  <2>3. interval + n = AddedUp(p, d, l + n, f, a, b, q)
    BY <1>5, <2>2 DEF AddedUp
  <2> QED
    BY <1>4, <1>6, <1>7, <2>1, <2>3 DEF Tallied, AddedUp
<1>10. Waiting(queued)'
  BY <1>3, <1>4, <1>8, <1>9 DEF Waiting
<1>11. SameLink
  BY <1>1, <1>4, <1>6, LinkUntouched
<1>12. ~ring'.there => ring'.len = 0
  BY <1>4 DEF LinkInv
<1> QED
  BY <1>1, <1>4, <1>5, <1>10, <1>11, <1>12, LinkAgain

\* A pause gives up the ring: what it held is put aside.
LEMMA SuspendPreserves ==
  ASSUME LinkInv, Suspended
  PROVE  LinkInv'
<1>1. /\ interval \in Nat /\ batch \in Seq(Nat) /\ Len(batch) \in Nat /\ totals \in Totals
      /\ allowed \in BOOLEAN /\ aside \in Nat /\ totals.handshakes <= totals.errors
      /\ link \in Links /\ Framed(link) /\ (link.shaking => ~link.open)
  BY LinkInvParts
<1>2. /\ totals.packets \in Nat /\ totals.drops \in Nat /\ totals.lost \in Nat
      /\ totals.failed \in Nat
  BY <1>1, TotalsParts
<1>3. PICK queued \in Seq(Nat) :
           /\ RingHolds(ring, queued, 0) /\ InOrder(batch, queued, interval) /\ Tallied(queued)
           /\ Len(queued) \in Nat /\ Len(queued) = ring.len
  BY WaitingParts
<1>4. /\ batch = <<>> /\ link' = Closed /\ ring' = NoRing /\ aside' = aside + ring.len
      /\ UNCHANGED <<interval, batch, totals, allowed, carried>>
  BY DEF Suspended
<1>5. RingHolds(ring', <<>>, 0) /\ ring'.len = 0
  BY <1>4, EmptyHolds
<1>6. InOrder(batch', <<>>, interval')
  BY <1>1, <1>3, <1>4, OrderWithout
<1>7. Tallied(<<>>)'
  <2>1. interval = totals.packets + totals.drops + totals.lost + totals.failed + aside
                     + Len(queued)
    BY <1>1, <1>2, <1>3, <1>4 DEF Tallied
  <2>2. aside' = aside + Len(queued) /\ interval' = interval /\ totals' = totals /\ batch' = <<>>
    BY <1>3, <1>4
  <2>3. aside \in Nat /\ Len(queued) \in Nat
    BY <1>1, <1>3
  <2> QED
    BY <1>2, <2>1, <2>2, <2>3 DEF Tallied
<1>8. Waiting(<<>>)'
  BY <1>5, <1>6, <1>7 DEF Waiting
<1>9. Closed \in Links /\ Framed(Closed) /\ ~Closed.open
  BY <1>1, Closing
<1>10. SameLink
  BY <1>1, <1>4, <1>9 DEF SameLink, SameConnections
<1>11. aside' \in Nat
  BY <1>1, <1>3, <1>4
<1> QED
  BY <1>1, <1>4, <1>5, <1>8, <1>10, <1>11, LinkAgain

\* A batch is the front of what the ring held.
LEMMA CollectPreserves ==
  ASSUME LinkInv, Collect
  PROVE  LinkInv'
<1>1. /\ interval \in Nat /\ batch \in Seq(Nat) /\ Len(batch) \in Nat /\ totals \in Totals
      /\ allowed \in BOOLEAN /\ aside \in Nat /\ totals.handshakes <= totals.errors
  BY LinkInvParts
<1>2. /\ totals.packets \in Nat /\ totals.drops \in Nat /\ totals.lost \in Nat
      /\ totals.failed \in Nat
  BY <1>1, TotalsParts
<1>3. PICK queued \in Seq(Nat) :
           /\ RingHolds(ring, queued, 0) /\ InOrder(batch, queued, interval) /\ Tallied(queued)
           /\ Len(queued) \in Nat /\ Len(queued) = ring.len
  BY WaitingParts
<1>4. batch = <<>> /\ UNCHANGED <<interval, link, totals, allowed, aside, carried>>
  BY DEF Collect
<1>5. SameLink
  BY <1>1, <1>4, LinkUntouched DEF SameConnections
<1>6. CASE ~ring.there /\ ring' = EmptyRing /\ UNCHANGED batch
  <2>1. RingHolds(ring', <<>>, 0) /\ ring'.len = 0
    BY <1>6, EmptyHolds
  <2>2. InOrder(batch', <<>>, interval')
    BY <1>1, <1>3, <1>4, <1>6, OrderWithout
  <2>3. Len(queued) = 0
    BY <1>3, <1>6 DEF LinkInv
  <2>4. Tallied(<<>>)'
    BY <1>1, <1>2, <1>3, <1>4, <1>6, <2>3 DEF Tallied
  <2>5. Waiting(<<>>)'
    BY <2>1, <2>2, <2>4 DEF Waiting
  <2> QED
    BY <1>1, <1>4, <1>5, <1>6, <2>1, <2>5, LinkAgain
<1>7. ASSUME ring.there, NEW n \in 1 .. BatchPackets, n <= ring.len,
             batch' = Popped(ring, n).packets, ring' = Popped(ring, n).ring
      PROVE  LinkInv'
  <2> DEFINE front == SubSeq(queued, 1, n)
             rest == SubSeq(queued, n + 1, Len(queued))
  <2>1. n \in 0 .. ring.len /\ n \in 0 .. Len(queued) /\ n \in Nat
    BY <1>3, <1>7, LinkAssumption
  <2>2. RingHolds(ring', queued, n) /\ ring'.there = ring.there /\ batch' = front
    BY <1>3, <1>7, <2>1, PoppedHolds
  <2>3. RingHolds(ring', rest, 0)
    BY <2>2, HeldRest
  <2>4. InOrder(<<>>, queued, interval)
    BY <1>3, <1>4
  <2>5. /\ InOrder(front, rest, interval) /\ front \in Seq(Nat) /\ rest \in Seq(Nat)
        /\ Len(front) = n /\ Len(rest) = Len(queued) - n
    BY <1>1, <2>1, <2>4, OrderSplit
  <2> HIDE DEF front, rest
  <2>6. Len(batch) = 0 /\ Len(batch') + Len(rest) = Len(queued) /\ Len(rest) \in Nat
    BY <1>3, <1>4, <2>1, <2>2, <2>5
  <2>7. Tallied(rest)'
    <3>1. Len(batch') \in Nat
      BY <2>2, <2>5, <2>1
    <3>2. interval = totals.packets + totals.drops + totals.lost + totals.failed + aside
                       + 0 + Len(queued)
      BY <1>3, <2>6 DEF Tallied
    <3>3. interval = totals.packets + totals.drops + totals.lost + totals.failed + aside
                       + Len(batch') + Len(rest)
      BY <1>1, <1>2, <1>3, <2>6, <3>1, <3>2
    <3> QED
      BY <1>4, <3>3 DEF Tallied
  <2>8. Waiting(rest)'
    BY <1>4, <2>2, <2>3, <2>5, <2>7 DEF Waiting
  <2>9. (\E other \in Seq(Nat) : Waiting(other))'
    BY <2>5, <2>8
  <2>10. ~ring'.there => ring'.len = 0
    BY <1>7, <2>2
  <2>11. interval' \in Nat /\ batch' \in Seq(Nat) /\ aside' \in Nat
    BY <1>1, <1>4, <2>2, <2>5
  <2> QED
    BY <1>5, <2>9, <2>10, <2>11, LinkAgain
<1>8. \/ ~ring.there /\ ring' = EmptyRing /\ UNCHANGED batch
      \/ /\ ring.there
         /\ \E n \in 1 .. BatchPackets :
              n <= ring.len /\ batch' = Popped(ring, n).packets /\ ring' = Popped(ring, n).ring
  BY DEF Collect
<1> QED
  BY <1>6, <1>7, <1>8

\* The batch leaves, and whoever takes it counts it.
LEMMA BatchLeaves ==
  ASSUME LinkInv, UNCHANGED <<ring, interval>>, batch' = <<>>,
         totals' \in Totals, aside' \in Nat,
         totals'.packets + totals'.drops + totals'.lost + totals'.failed + aside'
           = totals.packets + totals.drops + totals.lost + totals.failed + aside + Len(batch)
  PROVE  /\ (\E queued \in Seq(Nat) : Waiting(queued))' /\ (~ring.there => ring.len = 0)'
         /\ interval' \in Nat /\ batch' \in Seq(Nat)
<1>1. interval \in Nat /\ batch \in Seq(Nat) /\ Len(batch) \in Nat
  BY LinkInvParts
<1>2. PICK queued \in Seq(Nat) :
           /\ RingHolds(ring, queued, 0) /\ InOrder(batch, queued, interval) /\ Tallied(queued)
           /\ Len(queued) \in Nat /\ Len(queued) = ring.len
  BY WaitingParts
<1>3. InOrder(batch', queued, interval')
  BY <1>1, <1>2, OrderWithout
<1>4. Len(batch') = 0
  OBVIOUS
<1>5. /\ totals'.packets \in Nat /\ totals'.drops \in Nat /\ totals'.lost \in Nat
      /\ totals'.failed \in Nat
  BY TotalsParts
<1>6. interval' = totals'.packets + totals'.drops + totals'.lost + totals'.failed + aside'
                    + 0 + Len(queued)
  BY <1>1, <1>2, <1>5 DEF Tallied
<1>7. Tallied(queued)'
  BY <1>4, <1>6 DEF Tallied
<1>8. Waiting(queued)'
  BY <1>2, <1>3, <1>7 DEF Waiting
<1>9. batch' \in Seq(Nat)
  OBVIOUS
<1> QED
  BY <1>1, <1>8, <1>9 DEF LinkInv

\* A failed batch is counted, whatever failed.
LEMMA FailedPreserves ==
  ASSUME LinkInv, NEW h \in BOOLEAN, Failed(h), UNCHANGED <<ring, interval, allowed, aside, carried>>,
         link' \in Links, Framed(link'), link'.shaking => ~link'.open,
         link'.open /\ ~link'.fresh => carried > 0
  PROVE  LinkInv'
<1>1. /\ interval \in Nat /\ batch \in Seq(Nat) /\ Len(batch) \in Nat /\ totals \in Totals
      /\ allowed \in BOOLEAN /\ aside \in Nat /\ totals.handshakes <= totals.errors
  BY LinkInvParts
<1>2. /\ totals.packets \in Nat /\ totals.drops \in Nat /\ totals.lost \in Nat
      /\ totals.failed \in Nat
  BY <1>1, TotalsParts
<1>3. totals' = NetworkFailed(SendFailed(totals, Len(batch)), h) /\ batch' = <<>>
  BY DEF Failed
<1>4. /\ totals' \in Totals /\ SameConnections(totals, totals')
      /\ totals'.drops = totals.drops /\ totals'.lost = totals.lost
      /\ totals'.failed = totals.failed + Len(batch)
  BY <1>1, <1>3, Failing
<1>5. totals'.packets = totals.packets
  BY <1>4 DEF SameConnections
<1>6. totals'.packets + totals'.drops + totals'.lost + totals'.failed + aside'
        = totals.packets + totals.drops + totals.lost + totals.failed + aside + Len(batch)
  BY <1>1, <1>2, <1>4, <1>5
<1>7. /\ (\E queued \in Seq(Nat) : Waiting(queued))' /\ (~ring.there => ring.len = 0)'
      /\ interval' \in Nat /\ batch' \in Seq(Nat)
  BY <1>1, <1>3, <1>4, <1>6, BatchLeaves
<1>8. SameLink
  BY <1>1, <1>4 DEF SameLink
<1> QED
  BY <1>1, <1>7, <1>8, LinkAgain

LEMMA DiscardPreserves ==
  ASSUME LinkInv, DiscardedQueue
  PROVE  LinkInv'
<1>1. /\ interval \in Nat /\ batch \in Seq(Nat) /\ Len(batch) \in Nat /\ totals \in Totals
      /\ allowed \in BOOLEAN /\ aside \in Nat /\ totals.handshakes <= totals.errors
  BY LinkInvParts
<1>2. /\ totals.packets \in Nat /\ totals.drops \in Nat /\ totals.lost \in Nat
      /\ totals.failed \in Nat
  BY <1>1, TotalsParts
<1>3. /\ batch' = <<>> /\ aside' = aside + Len(batch)
      /\ UNCHANGED <<ring, interval, link, totals, allowed, carried>>
  BY DEF DiscardedQueue
<1>4. totals'.packets + totals'.drops + totals'.lost + totals'.failed + aside'
        = totals.packets + totals.drops + totals.lost + totals.failed + aside + Len(batch)
  BY <1>1, <1>2, <1>3
<1>5. aside' \in Nat /\ totals' \in Totals
  BY <1>1, <1>3
<1>6. /\ (\E queued \in Seq(Nat) : Waiting(queued))' /\ (~ring.there => ring.len = 0)'
      /\ interval' \in Nat /\ batch' \in Seq(Nat)
  BY <1>3, <1>4, <1>5, BatchLeaves
<1>7. SameLink
  BY <1>1, <1>3, LinkUntouched DEF SameConnections
<1> QED
  BY <1>5, <1>6, <1>7, LinkAgain

\* A step of the connection alone.
LEMMA LinkOnly ==
  ASSUME LinkInv, UNCHANGED <<ring, interval, batch, totals, aside, carried>>,
         allowed' \in BOOLEAN,
         link' \in Links, Framed(link'), link'.shaking => ~link'.open,
         link'.open /\ ~link'.fresh => carried > 0
  PROVE  LinkInv'
<1>1. /\ interval \in Nat /\ batch \in Seq(Nat) /\ aside \in Nat /\ totals \in Totals
      /\ totals.handshakes <= totals.errors
  BY LinkInvParts
<1>2. SameLink
  BY <1>1 DEF SameLink, SameConnections
<1>3. (\E queued \in Seq(Nat) : Waiting(queued))' /\ (~ring.there => ring.len = 0)'
  BY SameWaiting DEF SameQueue, SameCounts
<1> QED
  BY <1>1, <1>2, <1>3, LinkAgain

LEMMA ConnectPreserves ==
  ASSUME LinkInv, Unresolved \/ ConnectPlain \/ Shake
  PROVE  LinkInv'
<1>1. /\ link \in Links /\ Framed(link) /\ (link.shaking => ~link.open) /\ allowed \in BOOLEAN
  BY LinkInvParts
<1>2. link.open /\ ~link.fresh => carried > 0
  BY DEF LinkInv, Connections
<1>3. ~link.open /\ ~link.shaking /\ UNCHANGED <<ring, interval, allowed, aside, carried>>
  BY DEF Unresolved, ConnectPlain, Shake, Unconnected
<1>4. CASE \E h \in BOOLEAN : Failed(h) /\ UNCHANGED link
  BY <1>1, <1>2, <1>3, <1>4, FailedPreserves
<1>5. CASE /\ link' = [Connected EXCEPT !.handles = Connected.handles + 1]
           /\ UNCHANGED <<batch, totals>>
  <2>1. /\ link' \in Links /\ Framed(link') /\ link'.fresh /\ ~link'.shaking
    BY <1>1, <1>3, <1>5, Connecting
  <2> QED
    BY <1>1, <1>3, <1>5, <2>1, LinkOnly
<1>6. CASE /\ link' = [link EXCEPT !.shaking = TRUE, !.handles = link.handles + 1]
           /\ UNCHANGED <<batch, totals>>
  <2>1. link' \in Links /\ Framed(link') /\ link'.open = link.open
    <3>1. link.shaking = ~TRUE
      BY <1>1, <1>3, LinkParts
    <3> QED
      BY <1>1, <1>3, <1>6, <3>1, Shaking
  <2>2. ~link'.open
    BY <1>3, <2>1
  <2> QED
    BY <1>1, <1>3, <1>6, <2>1, <2>2, LinkOnly
<1> QED
  BY <1>4, <1>5, <1>6 DEF Unresolved, ConnectPlain, Shake

LEMMA ShakenPreserves ==
  ASSUME LinkInv, Shaken
  PROVE  LinkInv'
<1>1. /\ link \in Links /\ Framed(link) /\ (link.shaking => ~link.open) /\ allowed \in BOOLEAN
  BY LinkInvParts
<1>2. link.shaking /\ ~link.open /\ UNCHANGED <<ring, interval, allowed, aside, carried>>
  BY <1>1 DEF Shaken
<1>3. CASE Refused
  <2>1. Failed(TRUE) /\ link' = [link EXCEPT !.shaking = FALSE, !.handles = link.handles - 1]
    BY <1>3 DEF Refused
  <2>2. link' \in Links /\ Framed(link') /\ link'.open = link.open
    <3>1. link.shaking = ~FALSE
      BY <1>1, <1>2, LinkParts
    <3> QED
      BY <1>1, <1>2, <2>1, <3>1, Shaking
  <2>3. ~link'.open
    BY <1>2, <2>2
  <2> QED
    BY <1>2, <2>1, <2>2, <2>3, FailedPreserves
<1>4. CASE link' = Connected /\ UNCHANGED <<batch, totals>>
  <2>1. /\ link' \in Links /\ Framed(link') /\ link'.fresh /\ ~link'.shaking
    BY <1>1, <1>2, <1>4, Connecting
  <2> QED
    BY <1>1, <1>2, <1>4, <2>1, LinkOnly
<1>5. Refused \/ (link' = Connected /\ UNCHANGED <<batch, totals>>)
  BY DEF Shaken
<1> QED
  BY <1>3, <1>4, <1>5

\* A batch that was written counts a connection when it is its first.
LEMMA TransmitPreserves ==
  ASSUME LinkInv, Transmit
  PROVE  LinkInv'
<1>1. /\ interval \in Nat /\ batch \in Seq(Nat) /\ Len(batch) \in Nat /\ totals \in Totals
      /\ allowed \in BOOLEAN /\ aside \in Nat /\ totals.handshakes <= totals.errors
      /\ link \in Links /\ Framed(link) /\ (link.shaking => ~link.open) /\ carried \in Nat
  BY LinkInvParts
<1>2. /\ totals.packets \in Nat /\ totals.drops \in Nat /\ totals.lost \in Nat
      /\ totals.failed \in Nat /\ totals.reconnects \in Nat
  BY <1>1, TotalsParts
<1>3. batch # <<>> /\ link.open /\ UNCHANGED <<ring, interval, allowed, aside>>
  BY DEF Transmit
<1>4. CASE Failed(FALSE) /\ link' = AfterFailure /\ UNCHANGED carried
  <2>1. link' \in Links /\ Framed(link') /\ ~link'.open
    BY <1>1, <1>4, Closing DEF AfterFailure
  <2> QED
    BY <1>3, <1>4, <2>1, FailedPreserves
<1>5. CASE /\ totals' = BatchSent(totals, Len(batch), link.fresh)
           /\ carried' = IF link.fresh THEN carried + 1 ELSE carried
           /\ link' = [link EXCEPT !.fresh = FALSE] /\ batch' = <<>>
  <2>1. link.fresh \in BOOLEAN
    BY <1>1, LinkParts
  <2>2. /\ totals' \in Totals /\ totals'.handshakes <= totals'.errors
        /\ totals'.packets = totals.packets + Len(batch)
        /\ totals'.drops = totals.drops /\ totals'.lost = totals.lost
        /\ totals'.failed = totals.failed
        /\ totals'.reconnects = IF link.fresh /\ totals.packets > 0
                                THEN totals.reconnects + 1 ELSE totals.reconnects
    BY <1>1, <1>5, <2>1, Sending
  <2>3. /\ link' \in Links /\ link'.open = link.open /\ link'.shaking = link.shaking
        /\ link'.cut = link.cut /\ link'.handles = link.handles /\ link'.probe = link.probe
    BY <1>1, <1>5 DEF Links
  <2>4. Framed(link') /\ (link'.shaking => ~link'.open)
    BY <1>1, <2>3 DEF Framed
  <2>5. Len(batch) > 0
    BY <1>1, <1>3
  <2>6. totals'.packets + totals'.drops + totals'.lost + totals'.failed + aside'
          = totals.packets + totals.drops + totals.lost + totals.failed + aside + Len(batch)
    BY <1>1, <1>2, <1>3, <2>2, SMTT(30)
  <2>7. aside' \in Nat
    BY <1>1, <1>3
  <2>8. /\ (\E queued \in Seq(Nat) : Waiting(queued))' /\ (~ring.there => ring.len = 0)'
        /\ interval' \in Nat /\ batch' \in Seq(Nat)
    BY <1>1, <1>3, <1>5, <2>2, <2>6, <2>7, BatchLeaves
  <2>9. /\ totals.packets = 0 <=> carried = 0
        /\ totals.reconnects = IF carried = 0 THEN 0 ELSE carried - 1
        /\ link.open /\ ~link.fresh => carried > 0
    BY DEF LinkInv, Connections
  <2>10. totals'.packets > 0 /\ totals'.packets \in Nat
    BY <1>1, <1>2, <2>2, <2>5
  <2>11. /\ carried' \in Nat /\ carried' > 0 /\ totals'.reconnects = carried' - 1
    <3>1. CASE link.fresh
      <4>1. carried' = carried + 1
        BY <1>5, <3>1
      <4>2. CASE carried = 0
        BY <1>1, <1>2, <2>2, <2>9, <3>1, <4>1, <4>2
      <4>3. CASE carried # 0
        <5>1. totals.packets > 0
          BY <1>2, <2>9, <4>3
        <5>2. totals'.reconnects = totals.reconnects + 1 /\ totals.reconnects = carried - 1
          BY <2>2, <2>9, <3>1, <4>3, <5>1
        <5> QED
          BY <1>1, <1>2, <4>1, <5>2
      <4> QED
        BY <4>2, <4>3
    <3>2. CASE ~link.fresh
      <4>1. carried' = carried /\ totals'.reconnects = totals.reconnects /\ carried > 0
        BY <1>3, <1>5, <2>2, <2>9, <3>2
      <4> QED
        BY <1>1, <2>9, <4>1
    <3> QED
      BY <3>1, <3>2
  <2>12. Connections'
    BY <2>2, <2>4, <2>10, <2>11 DEF Connections
  <2>13. LinkFramed'
    BY <2>4 DEF LinkFramed, Framed
  <2>14. LinkTypeOK'
    BY <1>1, <1>3, <2>2, <2>3, <2>7, <2>8, <2>11 DEF LinkTypeOK
  <2> QED
    BY <2>8, <2>12, <2>13, <2>14 DEF LinkInv
<1> QED
  BY <1>4, <1>5 DEF Transmit

LEMMA ProbePreserves ==
  ASSUME LinkInv, SwitchStreaming \/ ProbeKey \/ ProbeEnds
  PROVE  LinkInv'
<1>1. /\ link \in Links /\ Framed(link) /\ (link.shaking => ~link.open) /\ allowed \in BOOLEAN
  BY LinkInvParts
<1>2. link.open /\ ~link.fresh => carried > 0
  BY DEF LinkInv, Connections
<1>3. /\ UNCHANGED <<ring, interval, batch, totals, aside, carried>> /\ allowed' \in BOOLEAN
  BY <1>1 DEF SwitchStreaming, ProbeKey, ProbeEnds
<1>4. CASE SwitchStreaming
  BY <1>1, <1>2, <1>3, <1>4, LinkOnly DEF SwitchStreaming
<1>5. ASSUME NEW x \in BOOLEAN, link.probe = ~x,
             link' = [link EXCEPT !.probe = x,
                        !.handles = IF x THEN link.handles + 1 ELSE link.handles - 1]
      PROVE  LinkInv'
  <2>1. /\ link' \in Links /\ Framed(link') /\ link'.open = link.open
        /\ link'.shaking = link.shaking /\ link'.fresh = link.fresh
    BY <1>1, <1>5, Probing
  <2> QED
    BY <1>1, <1>2, <1>3, <2>1, LinkOnly
<1>6. CASE ProbeKey
  <2>1. link.probe = ~TRUE /\ link' = [link EXCEPT !.probe = TRUE, !.handles = link.handles + 1]
    BY <1>1, <1>6, LinkParts DEF ProbeKey
  <2> QED
    BY <1>5, <2>1
<1>7. CASE ProbeEnds
  <2>1. link.probe = ~FALSE /\ link' = [link EXCEPT !.probe = FALSE, !.handles = link.handles - 1]
    BY <1>1, <1>7, LinkParts DEF ProbeEnds
  <2> QED
    BY <1>5, <2>1
<1> QED
  BY <1>4, <1>6, <1>7

LEMMA LinkStill ==
  ASSUME LinkInv, UNCHANGED pcmVars
  PROVE  LinkInv'
BY DEF pcmVars, LinkInv, LinkTypeOK, Waiting, Tallied, Connections, LinkFramed

LEMMA LinkNextInv ==
  ASSUME LinkInv, PcmNext
  PROVE  LinkInv'
<1> USE DEF PcmNext
<1> QED
  BY CapturePreserves, LosePreserves, SuspendPreserves, CollectPreserves, DiscardPreserves,
     ConnectPreserves, ShakenPreserves, TransmitPreserves, ProbePreserves

\* What waits is the batch and then the ring, and it is in order.
LEMMA WaitsInOrder ==
  ASSUME NEW s \in Seq(Nat), NEW t \in Seq(Nat), NEW n \in Nat, InOrder(s, t, n)
  PROVE  LET u == s \o t
         IN  /\ Len(u) = Len(s) + Len(t)
             /\ \A i \in 1 .. Len(u) - 1 : u[i] < u[i + 1]
<1> DEFINE u == s \o t
<1>1. /\ Len(s) \in Nat /\ Len(t) \in Nat /\ Len(u) = Len(s) + Len(t)
      /\ \A i \in 1 .. Len(s) : u[i] = s[i]
      /\ \A i \in Len(s) + 1 .. Len(s) + Len(t) : u[i] = t[i - Len(s)]
  OBVIOUS
<1> HIDE DEF u
<1>2. ASSUME NEW i \in 1 .. Len(u) - 1
      PROVE  u[i] < u[i + 1]
  <2>1. i \in Nat /\ i + 1 \in 1 .. Len(s) + Len(t)
    BY <1>1
  <2>2. CASE i + 1 <= Len(s)
    <3>1. i \in 1 .. Len(s) /\ i + 1 \in 1 .. Len(s) /\ i < i + 1
      BY <1>1, <2>1, <2>2
    <3> QED
      BY <1>1, <3>1 DEF InOrder, Rising
  <2>3. CASE i = Len(s)
    <3>1. i \in 1 .. Len(s) /\ i + 1 - Len(s) = 1 /\ 1 \in 1 .. Len(t)
          /\ i + 1 \in Len(s) + 1 .. Len(s) + Len(t)
      BY <1>1, <2>1, <2>3
    <3>2. u[i] = s[i] /\ u[i + 1] = t[1]
      BY <1>1, <3>1, SMTT(30)
    <3> QED
      BY <3>1, <3>2 DEF InOrder
  <2>4. CASE i > Len(s)
    <3> DEFINE j == i - Len(s)
    <3>1. /\ j \in 1 .. Len(t) /\ j + 1 \in 1 .. Len(t) /\ j < j + 1
          /\ i \in Len(s) + 1 .. Len(s) + Len(t)
          /\ i + 1 \in Len(s) + 1 .. Len(s) + Len(t) /\ i + 1 - Len(s) = j + 1
      BY <1>1, <2>1, <2>4
    <3>2. u[i] = t[j] /\ u[i + 1] = t[j + 1]
      BY <1>1, <3>1
    <3> HIDE DEF j
    <3>3. t[j] < t[j + 1]
      BY <3>1 DEF InOrder, Rising
    <3> QED
      BY <3>2, <3>3
  <2> QED
    BY <1>1, <2>1, <2>2, <2>3, <2>4
<1> QED
  BY <1>1, <1>2 DEF u

LEMMA LinkInvAccounts ==
  ASSUME LinkInv
  PROVE  LinkAccounts
<1>1. /\ interval \in Nat /\ batch \in Seq(Nat) /\ Len(batch) \in Nat /\ totals \in Totals
      /\ aside \in Nat
  BY LinkInvParts
<1>2. /\ totals.packets \in Nat /\ totals.drops \in Nat /\ totals.lost \in Nat
      /\ totals.failed \in Nat
  BY <1>1, TotalsParts
<1>3. PICK queued \in Seq(Nat) :
           /\ RingHolds(ring, queued, 0) /\ InOrder(batch, queued, interval) /\ Tallied(queued)
           /\ Len(queued) \in Nat /\ Len(queued) = ring.len
  BY WaitingParts
<1>4. Listed(ring) = queued
  BY <1>3, ListedHeld
<1> DEFINE waiting == batch \o queued
<1>5. /\ Len(waiting) = Len(batch) + Len(queued)
      /\ \A i \in 1 .. Len(waiting) - 1 : waiting[i] < waiting[i + 1]
  BY <1>1, <1>3, WaitsInOrder
<1> HIDE DEF waiting
<1>6. interval = totals.packets + totals.drops + totals.lost + totals.failed
                   + aside + Len(waiting)
  BY <1>1, <1>2, <1>3, <1>5, SMTT(30) DEF Tallied
<1>7. /\ totals.reconnects = IF carried = 0 THEN 0 ELSE carried - 1
      /\ totals.handshakes <= totals.errors
  BY DEF LinkInv, Connections
<1>8. IntervalsAccounted
  BY <1>4, <1>5, <1>6, <1>7 DEF IntervalsAccounted, waiting
<1> QED
  BY <1>8 DEF LinkAccounts, LinkInv

\* Every captured interval ends in one counter, in a pause, in the batch or in
\* the ring, in the order of capture; a connection carries whole packets, and
\* each handle is in use or destroyed (stream/queue.rs, stream/network.rs,
\* stream/status.rs, transport.rs).
THEOREM LinkAccounted == PcmSpec => []LinkAccounts
<1>1. PcmInit => LinkInv
  BY LinkInitInv
<1>2. LinkInv /\ [PcmNext]_pcmVars => LinkInv'
  BY LinkNextInv, LinkStill
<1>3. LinkInv => LinkAccounts
  BY LinkInvAccounts
<1> QED
  BY <1>1, <1>2, <1>3, PTL DEF PcmSpec
=============================================================================
