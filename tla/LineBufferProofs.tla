---------------------------- MODULE LineBufferProofs ----------------------------
(***************************************************************************)
(* Theorems about LineBuffer, for every size of the buffer, every stream   *)
(* and every way to cut it into reads.                                     *)
(*                                                                         *)
(* The scan of process_data and the meaning of a stream are both defined   *)
(* byte by byte.  What holds of them for sequences of every length is      *)
(* proved by the least counterexample: a set that contains 0 and is closed *)
(* under successor is Nat (InductiveSet), and a set that contains the      *)
(* empty sequence and is closed under Append holds every sequence          *)
(* (SeqInduction).                                                         *)
(***************************************************************************)
EXTENDS LineBuffer, SequenceTheorems, WellFoundedInduction, TLAPS

-----------------------------------------------------------------------------
(***************************************************************************)
(* Numbers and induction.                                                  *)
(***************************************************************************)
LEMMA LeastExists ==
    ASSUME NEW S \in SUBSET Nat, S # {}
    PROVE  \E x \in S : \A y \in S : x <= y
  <1>1. \E x \in S : \A y \in S : ~(<<y, x>> \in OpToRel(<, Nat))
    BY NatLessThanWellFounded, WFMin
  <1>2. \A x, y \in Nat : y < x => <<y, x>> \in OpToRel(<, Nat)
    BY DEF OpToRel
  <1>3. PICK x \in S : \A y \in S : ~(y < x)
    BY <1>1, <1>2
  <1>4. QED
    BY <1>3

\* Max of the community modules is a CHOOSE: it is what it is called in a set
\* that is bounded and not empty.
LEMMA MaxOfBounded ==
    ASSUME NEW n \in Nat, NEW S \in SUBSET (0..n), S # {}
    PROVE  Max(S) \in S /\ \A y \in S : Max(S) >= y
  <1> DEFINE Bounds == {m \in Nat : \A y \in S : y <= m}
  <1>1. n \in Bounds
    OBVIOUS
  <1>2. PICK m \in Bounds : \A y \in Bounds : m <= y
    BY <1>1, LeastExists
  <1>3. m \in S
    <2>1. SUFFICES ASSUME m \notin S PROVE FALSE
      OBVIOUS
    <2>2. m # 0
      <3>1. PICK y \in S : TRUE
        OBVIOUS
      <3>2. QED
        BY <2>1, <3>1
    <2>3. m - 1 \in Bounds
      BY <2>1, <2>2
    <2>4. QED
      BY <1>2, <2>3
  <1>4. QED
    BY <1>3 DEF Max

LEMMA MinOfBounded ==
    ASSUME NEW n \in Nat, NEW S \in SUBSET (0..n), S # {}
    PROVE  Min(S) \in S /\ \A y \in S : Min(S) <= y
  <1>1. PICK m \in S : \A y \in S : m <= y
    BY LeastExists
  <1>2. QED
    BY <1>1 DEF Min

\* Induction over the numbers of a set.
LEMMA InductiveSet ==
    ASSUME NEW S \in SUBSET Nat, 0 \in S, \A n \in S : n + 1 \in S
    PROVE  S = Nat
  <1>1. SUFFICES ASSUME Nat \ S # {} PROVE FALSE
    OBVIOUS
  <1>2. PICK m \in Nat \ S : \A y \in Nat \ S : m <= y
    BY <1>1, LeastExists
  <1>3. m # 0
    OBVIOUS
  <1>4. m - 1 \in S
    BY <1>2, <1>3
  <1>5. (m - 1) + 1 \in S
    BY <1>4
  <1>6. QED
    BY <1>5

\* Induction over the sequences of a set, from the empty one by Append.
LEMMA SeqInduction ==
    ASSUME NEW S, NEW T, <<>> \in T,
           \A s \in Seq(S), e \in S : s \in T => Append(s, e) \in T
    PROVE  Seq(S) \subseteq T
  <1> DEFINE Lengths == {n \in Nat : \A s \in Seq(S) : Len(s) = n => s \in T}
  <1>1. 0 \in Lengths
    <2>1. \A s \in Seq(S) : Len(s) = 0 => s = <<>>
      OBVIOUS
    <2>2. QED
      BY <2>1
  <1>2. ASSUME NEW n \in Lengths PROVE n + 1 \in Lengths
    <2>1. SUFFICES ASSUME NEW s \in Seq(S), Len(s) = n + 1 PROVE s \in T
      OBVIOUS
    <2>2. PICK r \in Seq(S), e \in S : s = Append(r, e)
      BY <2>1, SequenceEmptyOrAppend
    <2>3. Len(r) = n
      BY <2>1, <2>2
    <2>4. QED
      BY <2>2, <2>3
  <1>3. Lengths = Nat
    <2> HIDE DEF Lengths
    <2>1. Lengths \in SUBSET Nat
      BY DEF Lengths
    <2>2. QED
      BY <1>1, <1>2, <2>1, InductiveSet
  <1>4. ASSUME NEW s \in Seq(S) PROVE s \in T
    <2>1. Len(s) \in Lengths
      BY <1>3
    <2>2. QED
      BY <2>1
  <1>5. QED
    BY <1>4

-----------------------------------------------------------------------------
(***************************************************************************)
(* The scan of process_data: what it makes of no byte and of one byte      *)
(* more.                                                                   *)
(***************************************************************************)
IsScan(f, bytes, n) ==
    f = [i \in 0..n |-> IF i = 0 THEN Fresh ELSE Scan(f[i - 1], bytes[i])]

LEMMA ScanExists ==
    ASSUME NEW bytes, NEW n \in Nat
    PROVE  \E f : IsScan(f, bytes, n)
  <1> DEFINE N == {k \in Nat : \E f : IsScan(f, bytes, k)}
  <1>1. 0 \in N
    <2>1. IsScan([i \in 0..0 |-> Fresh], bytes, 0)
      BY DEF IsScan
    <2>2. QED
      BY <2>1
  <1>2. ASSUME NEW k \in N PROVE k + 1 \in N
    <2>1. PICK f : IsScan(f, bytes, k)
      OBVIOUS
    <2> DEFINE g == [i \in 0..(k + 1) |-> IF i <= k THEN f[i] ELSE Scan(f[k], bytes[i])]
    <2>2. \A i \in 0..k : f[i] = IF i = 0 THEN Fresh ELSE Scan(f[i - 1], bytes[i])
      BY <2>1 DEF IsScan
    <2>3. \A i \in 0..(k + 1) : g[i] = IF i = 0 THEN Fresh ELSE Scan(g[i - 1], bytes[i])
      <3>1. ASSUME NEW i \in 0..(k + 1), i <= k
            PROVE  g[i] = IF i = 0 THEN Fresh ELSE Scan(g[i - 1], bytes[i])
        <4>1. g[i] = f[i] /\ (i # 0 => g[i - 1] = f[i - 1])
          BY <3>1
        <4>2. QED
          BY <2>2, <3>1, <4>1
      <3>2. g[k + 1] = Scan(g[k], bytes[k + 1])
        OBVIOUS
      <3>3. QED
        BY <3>1, <3>2, SMTT(30)
    <2>4. IsScan(g, bytes, k + 1)
      BY <2>3 DEF IsScan
    <2>5. QED
      BY <2>4
  <1>3. N = Nat
    <2> HIDE DEF N
    <2>1. N \in SUBSET Nat
      BY DEF N
    <2>2. QED
      BY <1>1, <1>2, <2>1, InductiveSet
  <1>4. QED
    BY <1>3

\* Two scans agree on the bytes that they have in common.
LEMMA ScansAgree ==
    ASSUME NEW b, NEW c, NEW n \in Nat, NEW m \in Nat, n <= m,
           \A i \in 1..n : b[i] = c[i],
           NEW f, IsScan(f, b, n), NEW g, IsScan(g, c, m)
    PROVE  f[n] = g[n]
  <1> DEFINE N == {i \in Nat : i <= n => f[i] = g[i]}
  <1>1. /\ \A i \in 0..n : f[i] = IF i = 0 THEN Fresh ELSE Scan(f[i - 1], b[i])
        /\ \A i \in 0..m : g[i] = IF i = 0 THEN Fresh ELSE Scan(g[i - 1], c[i])
    BY DEF IsScan
  <1>2. 0 \in N
    BY <1>1
  <1>3. ASSUME NEW k \in N PROVE k + 1 \in N
    <2>1. SUFFICES ASSUME k + 1 <= n PROVE f[k + 1] = g[k + 1]
      OBVIOUS
    <2>2. f[k] = g[k] /\ b[k + 1] = c[k + 1] /\ (k + 1) - 1 = k
      BY <2>1
    <2>3. f[k + 1] = Scan(f[k], b[k + 1]) /\ g[k + 1] = Scan(g[k], c[k + 1])
      BY <1>1, <2>1, <2>2
    <2>4. QED
      BY <2>2, <2>3
  <1>4. N = Nat
    <2> HIDE DEF N
    <2>1. N \in SUBSET Nat
      BY DEF N
    <2>2. QED
      BY <1>2, <1>3, <2>1, InductiveSet
  <1>5. QED
    BY <1>4

\* Scanned is what a scan of all its bytes ends with.
LEMMA ScannedIsScan ==
    ASSUME NEW bytes, Len(bytes) \in Nat
    PROVE  \E f : IsScan(f, bytes, Len(bytes)) /\ Scanned(bytes) = f[Len(bytes)]
  <1>1. Scanned(bytes) = (CHOOSE f : IsScan(f, bytes, Len(bytes)))[Len(bytes)]
    BY DEF Scanned, IsScan
  <1>2. QED
    BY <1>1, ScanExists

LEMMA ScannedEmpty == Scanned(<<>>) = Fresh
  <1>1. PICK f : IsScan(f, <<>>, Len(<<>>)) /\ Scanned(<<>>) = f[Len(<<>>)]
    BY ScannedIsScan
  <1>2. QED
    BY <1>1 DEF IsScan

LEMMA ScannedAppend ==
    ASSUME NEW S, NEW bytes \in Seq(S), NEW byte \in S
    PROVE  Scanned(Append(bytes, byte)) = Scan(Scanned(bytes), byte)
  <1> DEFINE n == Len(bytes)
             more == Append(bytes, byte)
  <1>1. /\ n \in Nat /\ Len(more) = n + 1 /\ more[n + 1] = byte
        /\ \A i \in 1..n : bytes[i] = more[i]
    OBVIOUS
  <1>2. PICK f : IsScan(f, bytes, n) /\ Scanned(bytes) = f[n]
    BY <1>1, ScannedIsScan
  <1> HIDE DEF n, more
  <1>3. PICK g : IsScan(g, more, n + 1) /\ Scanned(more) = g[n + 1]
    BY <1>1, ScannedIsScan
  <1>4. f[n] = g[n]
    BY <1>1, <1>2, <1>3, ScansAgree
  <1>5. g[n + 1] = Scan(g[n], byte)
    <2>1. g[n + 1] = IF n + 1 = 0 THEN Fresh ELSE Scan(g[(n + 1) - 1], more[n + 1])
      BY <1>1, <1>3 DEF IsScan
    <2>2. (n + 1) - 1 = n /\ n + 1 # 0
      BY <1>1
    <2>3. QED
      BY <1>1, <2>1, <2>2
  <1>6. QED
    BY <1>2, <1>3, <1>4, <1>5 DEF more

-----------------------------------------------------------------------------
(***************************************************************************)
(* FlattenSeq, which a stream's events are defined by: what it makes of no *)
(* sequence and of one more.                                               *)
(***************************************************************************)
IsFlatten(f, seqs, n) ==
    f = [i \in 1..n |-> IF i = 1 THEN seqs[i] ELSE f[i - 1] \o seqs[i]]

LEMMA FlattenExists ==
    ASSUME NEW seqs, NEW n \in Nat
    PROVE  \E f : IsFlatten(f, seqs, n)
  <1> DEFINE N == {k \in Nat : \E f : IsFlatten(f, seqs, k)}
  <1>1. 0 \in N
    <2>1. IsFlatten([i \in 1..0 |-> <<>>], seqs, 0)
      BY DEF IsFlatten
    <2>2. QED
      BY <2>1
  <1>2. ASSUME NEW k \in N PROVE k + 1 \in N
    <2>1. PICK f : IsFlatten(f, seqs, k)
      OBVIOUS
    <2> DEFINE g == [i \in 1..(k + 1) |-> IF i <= k THEN f[i]
                                          ELSE IF i = 1 THEN seqs[i] ELSE f[k] \o seqs[i]]
    <2>2. \A i \in 1..k : f[i] = IF i = 1 THEN seqs[i] ELSE f[i - 1] \o seqs[i]
      BY <2>1 DEF IsFlatten
    <2>3. \A i \in 1..(k + 1) : g[i] = IF i = 1 THEN seqs[i] ELSE g[i - 1] \o seqs[i]
      <3>1. ASSUME NEW i \in 1..(k + 1), i <= k
            PROVE  g[i] = IF i = 1 THEN seqs[i] ELSE g[i - 1] \o seqs[i]
        <4>1. g[i] = f[i] /\ (i # 1 => g[i - 1] = f[i - 1])
          BY <3>1
        <4>2. QED
          BY <2>2, <3>1, <4>1
      <3>2. g[k + 1] = IF k + 1 = 1 THEN seqs[k + 1] ELSE f[k] \o seqs[k + 1]
        OBVIOUS
      <3>3. k + 1 # 1 => g[k] = f[k] /\ (k + 1) - 1 = k
        OBVIOUS
      <3> HIDE DEF g
      <3>4. g[k + 1] = IF k + 1 = 1 THEN seqs[k + 1] ELSE g[(k + 1) - 1] \o seqs[k + 1]
        BY <3>2, <3>3
      <3>5. \A i \in 1..(k + 1) : i <= k \/ i = k + 1
        OBVIOUS
      <3>6. QED
        BY <3>1, <3>4, <3>5
    <2>4. IsFlatten(g, seqs, k + 1)
      BY <2>3 DEF IsFlatten
    <2>5. QED
      BY <2>4
  <1>3. N = Nat
    <2> HIDE DEF N
    <2>1. N \in SUBSET Nat
      BY DEF N
    <2>2. QED
      BY <1>1, <1>2, <2>1, InductiveSet
  <1>4. QED
    BY <1>3

\* Two of them agree on the sequences that they have in common.
LEMMA FlattensAgree ==
    ASSUME NEW b, NEW c, NEW n \in Nat, NEW m \in Nat, n <= m,
           \A i \in 1..n : b[i] = c[i],
           NEW f, IsFlatten(f, b, n), NEW g, IsFlatten(g, c, m), n # 0
    PROVE  f[n] = g[n]
  <1> DEFINE N == {i \in Nat : i + 1 <= n => f[i + 1] = g[i + 1]}
  <1>1. /\ \A i \in 1..n : f[i] = IF i = 1 THEN b[i] ELSE f[i - 1] \o b[i]
        /\ \A i \in 1..m : g[i] = IF i = 1 THEN c[i] ELSE g[i - 1] \o c[i]
    BY DEF IsFlatten
  <1>2. 0 \in N
    BY <1>1
  <1>3. ASSUME NEW k \in N PROVE k + 1 \in N
    <2>1. SUFFICES ASSUME k + 2 <= n PROVE f[k + 2] = g[k + 2]
      OBVIOUS
    <2>2. f[k + 1] = g[k + 1] /\ b[k + 2] = c[k + 2] /\ (k + 2) - 1 = k + 1 /\ k + 2 # 1
      BY <2>1
    <2>3. k + 2 \in 1..n /\ k + 2 \in 1..m
      BY <2>1
    <2>5. f[k + 2] = IF k + 2 = 1 THEN b[k + 2] ELSE f[(k + 2) - 1] \o b[k + 2]
      BY <1>1, <2>3
    <2>6. g[k + 2] = IF k + 2 = 1 THEN c[k + 2] ELSE g[(k + 2) - 1] \o c[k + 2]
      BY <1>1, <2>3
    <2>4. QED
      BY <2>2, <2>5, <2>6
  <1>4. N = Nat
    <2> HIDE DEF N
    <2>1. N \in SUBSET Nat
      BY DEF N
    <2>2. QED
      BY <1>2, <1>3, <2>1, InductiveSet
  <1>5. n - 1 \in Nat /\ (n - 1) + 1 = n /\ n <= n
    OBVIOUS
  <1>6. \A k \in Nat : k + 1 <= n => f[k + 1] = g[k + 1]
    BY <1>4
  <1>7. (n - 1) + 1 <= n => f[(n - 1) + 1] = g[(n - 1) + 1]
    BY <1>5, <1>6
  <1>8. QED
    BY <1>5, <1>7

LEMMA FlattenIsFlatten ==
    ASSUME NEW seqs, Len(seqs) \in Nat, Len(seqs) # 0
    PROVE  \E f : IsFlatten(f, seqs, Len(seqs)) /\ FlattenSeq(seqs) = f[Len(seqs)]
  <1>1. FlattenSeq(seqs) = (CHOOSE f : IsFlatten(f, seqs, Len(seqs)))[Len(seqs)]
    BY DEF FlattenSeq, IsFlatten
  <1>2. QED
    BY <1>1, FlattenExists

LEMMA FlattenEmpty == FlattenSeq(<<>>) = <<>>
  BY DEF FlattenSeq

LEMMA FlattenAppend ==
    ASSUME NEW S, NEW seqs \in Seq(Seq(S)), NEW e \in Seq(S)
    PROVE  FlattenSeq(Append(seqs, e)) = FlattenSeq(seqs) \o e
  <1> DEFINE n == Len(seqs)
             more == Append(seqs, e)
  <1>1. /\ n \in Nat /\ Len(more) = n + 1 /\ more[n + 1] = e
        /\ \A i \in 1..n : seqs[i] = more[i]
    OBVIOUS
  <1>2. n = 0 => seqs = <<>>
    OBVIOUS
  <1> HIDE DEF n, more
  <1>3. PICK g : IsFlatten(g, more, n + 1) /\ FlattenSeq(more) = g[n + 1]
    BY <1>1, FlattenIsFlatten
  <1>4. g[n + 1] = IF n + 1 = 1 THEN more[n + 1] ELSE g[(n + 1) - 1] \o more[n + 1]
    <2>1. \A i \in 1..(n + 1) : g[i] = IF i = 1 THEN more[i] ELSE g[i - 1] \o more[i]
      BY <1>3 DEF IsFlatten
    <2>2. n + 1 \in 1..(n + 1)
      BY <1>1
    <2>3. QED
      BY <2>1, <2>2
  <1>5. CASE n = 0
    <2>1. FlattenSeq(seqs) = <<>>
      BY <1>2, <1>5, FlattenEmpty
    <2>2. FlattenSeq(more) = e
      BY <1>1, <1>3, <1>4, <1>5
    <2>3. QED
      BY <2>1, <2>2 DEF more
  <1>6. CASE n # 0
    <2>1. PICK f : IsFlatten(f, seqs, n) /\ FlattenSeq(seqs) = f[n]
      BY <1>1, <1>6, FlattenIsFlatten DEF n
    <2>2. f[n] = g[n]
      BY <1>1, <1>3, <1>6, <2>1, FlattensAgree, SMTT(30)
    <2>3. (n + 1) - 1 = n /\ n + 1 # 1
      BY <1>1, <1>6
    <2>4. QED
      BY <1>1, <1>3, <1>4, <2>1, <2>2, <2>3 DEF more
  <1>7. QED
    BY <1>5, <1>6

LEMMA FlattenType ==
    ASSUME NEW S, NEW seqs \in Seq(Seq(S))
    PROVE  FlattenSeq(seqs) \in Seq(S)
  <1> DEFINE T == {q \in Seq(Seq(S)) : FlattenSeq(q) \in Seq(S)}
  <1>1. <<>> \in T
    <2>1. <<>> \in Seq(Seq(S)) /\ <<>> \in Seq(S)
      BY EmptySeq
    <2>2. QED
      BY <2>1, FlattenEmpty
  <1>2. ASSUME NEW q \in Seq(Seq(S)), NEW e \in Seq(S), q \in T PROVE Append(q, e) \in T
    <2>1. Append(q, e) \in Seq(Seq(S))
      BY AppendProperties
    <2>2. FlattenSeq(q) \o e \in Seq(S)
      BY <1>2, ConcatProperties
    <2>3. QED
      BY <2>1, <2>2, FlattenAppend
  <1>3. Seq(Seq(S)) \subseteq T
    <2> HIDE DEF T
    <2>1. QED
      BY <1>1, <1>2, SeqInduction
  <1>4. QED
    BY <1>3

-----------------------------------------------------------------------------
(***************************************************************************)
(* Positions in a stream.  Of two streams one may be the other from some   *)
(* line on: d is the number of bytes before that line.                     *)
(***************************************************************************)
\* The line of position i begins after the last line end before i.
LEMMA LineStartFacts ==
    ASSUME NEW s, NEW i \in Nat \ {0}
    PROVE  /\ LineStart(s, i) \in 1..i
           /\ LineStart(s, i) = 1 \/ s[LineStart(s, i) - 1] = "nl"
           /\ \A j \in LineStart(s, i)..(i - 1) : s[j] # "nl"
  <1> DEFINE Ends == {0} \cup {j \in 1..(i - 1) : s[j] = "nl"}
  <1>1. Ends \in SUBSET (0..(i - 1)) /\ Ends # {}
    OBVIOUS
  <1>2. Max(Ends) \in Ends /\ \A y \in Ends : Max(Ends) >= y
    BY <1>1, MaxOfBounded, i - 1 \in Nat
  <1>3. LineStart(s, i) = Max(Ends) + 1
    BY DEF LineStart
  <1> DEFINE m == Max(Ends)
  <1>4. /\ m \in 0..(i - 1)
        /\ m = 0 \/ s[m] = "nl"
        /\ \A j \in 1..(i - 1) : s[j] = "nl" => m >= j
    BY <1>2
  <1>5. LineStart(s, i) = m + 1
    BY <1>3
  <1> HIDE DEF m
  <1>6. QED
    BY <1>4, <1>5

\* And the line of i begins nowhere else.
LEMMA LineStartIs ==
    ASSUME NEW s, NEW i \in Nat \ {0}, NEW l \in 1..i,
           l = 1 \/ s[l - 1] = "nl",
           \A j \in l..(i - 1) : s[j] # "nl"
    PROVE  LineStart(s, i) = l
  <1> DEFINE k == LineStart(s, i)
  <1>1. /\ k \in 1..i
        /\ k = 1 \/ s[k - 1] = "nl"
        /\ \A j \in k..(i - 1) : s[j] # "nl"
    BY LineStartFacts
  <1> HIDE DEF k
  <1>2. ~(k < l)
    <2>1. k < l => l - 1 \in k..(i - 1) /\ l # 1
      BY <1>1
    <2>2. QED
      BY <1>1, <2>1
  <1>3. ~(l < k)
    <2>1. l < k => k - 1 \in l..(i - 1) /\ k # 1
      BY <1>1
    <2>2. QED
      BY <1>1, <2>1
  <1>4. QED
    BY <1>1, <1>2, <1>3 DEF k

\* The line of the next byte.
LEMMA LineStartNext ==
    ASSUME NEW s, NEW i \in Nat \ {0}
    PROVE  LineStart(s, i + 1) = IF s[i] = "nl" THEN i + 1 ELSE LineStart(s, i)
  <1> DEFINE k == LineStart(s, i)
  <1>1. /\ k \in 1..i
        /\ k = 1 \/ s[k - 1] = "nl"
        /\ \A j \in k..(i - 1) : s[j] # "nl"
    BY LineStartFacts
  <1>2. CASE s[i] = "nl"
    <2>1. i + 1 \in Nat \ {0} /\ i + 1 \in 1..(i + 1) /\ (i + 1) - 1 = i
      OBVIOUS
    <2>2. \A j \in (i + 1)..((i + 1) - 1) : s[j] # "nl"
      OBVIOUS
    <2>3. QED
      BY <1>2, <2>1, <2>2, LineStartIs
  <1>3. CASE s[i] # "nl"
    <2> HIDE DEF k
    <2>1. i + 1 \in Nat \ {0} /\ k \in 1..(i + 1)
      BY <1>1
    <2>2. \A j \in k..((i + 1) - 1) : s[j] # "nl"
      BY <1>1, <1>3
    <2>3. LineStart(s, i + 1) = k
      BY <1>1, <2>1, <2>2, LineStartIs
    <2>4. QED
      BY <1>3, <2>3 DEF k
  <1>4. QED
    BY <1>2, <1>3

\* Before position i, s has the bytes that r has d places later, from a line of
\* r on; p is the place of i in r.
Shifted(s, r, i, d, p) ==
    /\ d \in Nat /\ p = i + d
    /\ d = 0 \/ r[d] = "nl"
    /\ \A j \in 1..(i - 1) : s[j] \in Bytes /\ s[j] = r[j + d]

LEMMA AppendShifted ==
    ASSUME NEW s \in Seq(Bytes), NEW b, NEW i \in 1..(Len(s) + 1)
    PROVE  i \in Nat \ {0} /\ Shifted(s, Append(s, b), i, 0, i)
  <1> DEFINE n == Len(s)
             t == Append(s, b)
  <1>1. n \in Nat /\ \A j \in 1..n : t[j] = s[j] /\ s[j] \in Bytes
    OBVIOUS
  <1> HIDE DEF n, t
  <1>2. i \in Nat \ {0} /\ i = i + 0 /\ \A j \in 1..(i - 1) : j \in 1..n /\ j + 0 = j
    BY <1>1 DEF n
  <1>3. \A j \in 1..(i - 1) : s[j] \in Bytes /\ s[j] = t[j + 0]
    BY <1>1, <1>2
  <1>4. QED
    BY <1>2, <1>3 DEF Shifted, t

\* The lines of the rest of a stream are those of the stream.
LEMMA LineStartShifted ==
    ASSUME NEW s, NEW r, NEW i \in Nat \ {0}, NEW d, NEW p, Shifted(s, r, i, d, p)
    PROVE  LineStart(r, p) = LineStart(s, i) + d
  <1> DEFINE k == LineStart(s, i)
  <1>0. /\ d \in Nat /\ p = i + d
        /\ d = 0 \/ r[d] = "nl"
        /\ \A j \in 1..(i - 1) : s[j] = r[j + d]
    BY DEF Shifted
  <1>1. /\ k \in 1..i
        /\ k = 1 \/ s[k - 1] = "nl"
        /\ \A j \in k..(i - 1) : s[j] # "nl"
    BY LineStartFacts
  <1> HIDE DEF k
  <1>2. p \in Nat \ {0} /\ k + d \in 1..p
    BY <1>0, <1>1
  <1>3. k + d = 1 \/ r[(k + d) - 1] = "nl"
    <2>1. CASE k = 1
      <3>1. (k + d) - 1 = d
        BY <1>0, <2>1
      <3>2. QED
        BY <1>0, <2>1, <3>1
    <2>2. CASE k # 1
      <3>1. k - 1 \in 1..(i - 1) /\ (k - 1) + d = (k + d) - 1
        BY <1>0, <1>1, <2>2
      <3>2. QED
        BY <1>0, <1>1, <2>2, <3>1
    <2>3. QED
      BY <2>1, <2>2
  <1>4. ASSUME NEW j \in (k + d)..(p - 1) PROVE r[j] # "nl"
    <2>1. j - d \in k..(i - 1) /\ j - d \in 1..(i - 1) /\ (j - d) + d = j
      BY <1>0, <1>1
    <2>2. QED
      BY <1>0, <1>1, <2>1
  <1> DEFINE l == k + d
  <1>5. l \in 1..p /\ (l = 1 \/ r[l - 1] = "nl") /\ \A j \in l..(p - 1) : r[j] # "nl"
    BY <1>2, <1>3, <1>4
  <1> HIDE DEF l
  <1>6. LineStart(r, p) = l
    BY <1>2, <1>5, LineStartIs
  <1>7. QED
    BY <1>6 DEF k, l

\* So are its prompts, and its texts and events (below).
LEMMA PromptShifted ==
    ASSUME NEW s, NEW r, NEW i \in Nat \ {0}, NEW d, NEW p, Shifted(s, r, i, d, p),
           s[i] = r[p]
    PROVE  IsPromptAt(r, p) <=> IsPromptAt(s, i)
  <1> DEFINE k == LineStart(s, i)
             l == LineStart(r, p)
  <1>1. k \in 1..i /\ l = k + d
    BY LineStartFacts, LineStartShifted
  <1>2. d \in Nat /\ p = i + d /\ \A j \in 1..i : s[j] = r[j + d]
    <2>1. d \in Nat /\ p = i + d /\ \A j \in 1..(i - 1) : s[j] = r[j + d]
      BY DEF Shifted
    <2>2. QED
      BY <2>1
  <1> HIDE DEF k, l
  <1>3. s[k] = r[l]
    BY <1>1, <1>2
  <1>4. (\A j \in k..i : s[j] \in {"gt", "sp"}) <=> \A j \in l..p : r[j] \in {"gt", "sp"}
    <2>1. ASSUME NEW j \in l..p PROVE j - d \in k..i /\ s[j - d] = r[j]
      <3>1. j - d \in k..i /\ j - d \in 1..i /\ (j - d) + d = j
        BY <1>1, <1>2
      <3>2. QED
        BY <1>2, <3>1
    <2>2. ASSUME NEW j \in k..i PROVE j + d \in l..p /\ s[j] = r[j + d]
      BY <1>1, <1>2
    <2>3. QED
      BY <2>1, <2>2
  <1>5. QED
    BY <1>3, <1>4 DEF IsPromptAt, k, l

\* The text that a line end at position i would close begins here.
TextStart(s, i) ==
    Max({LineStart(s, i) - 1} \cup {j \in LineStart(s, i)..(i - 1) : IsPromptAt(s, j)}) + 1

LEMMA TextStartFacts ==
    ASSUME NEW s, NEW i \in Nat \ {0}
    PROVE  /\ TextStart(s, i) \in LineStart(s, i)..i
           /\ TextStart(s, i) = LineStart(s, i) \/ IsPromptAt(s, TextStart(s, i) - 1)
           /\ \A j \in TextStart(s, i)..(i - 1) : ~IsPromptAt(s, j)
           /\ TextBefore(s, i) = SubSeq(s, TextStart(s, i), i - 1)
  <1> DEFINE k == LineStart(s, i)
             Prompts == {k - 1} \cup {j \in k..(i - 1) : IsPromptAt(s, j)}
             m == Max(Prompts)
  <1>1. k \in 1..i
    BY LineStartFacts
  <1>2. TextStart(s, i) = m + 1 /\ TextBefore(s, i) = SubSeq(s, m + 1, i - 1)
    BY DEF TextStart, TextBefore
  <1> HIDE DEF k
  <1>3. Prompts \in SUBSET (0..(i - 1)) /\ Prompts # {} /\ i - 1 \in Nat
    BY <1>1
  <1>4. m \in Prompts /\ \A y \in Prompts : m >= y
    BY <1>3, MaxOfBounded
  <1>5. /\ m = k - 1 \/ (m \in k..(i - 1) /\ IsPromptAt(s, m))
        /\ m >= k - 1
        /\ \A j \in k..(i - 1) : IsPromptAt(s, j) => m >= j
    BY <1>4
  <1> HIDE DEF m
  <1>6. m \in Nat /\ m + 1 \in k..i /\ (m + 1) - 1 = m
    BY <1>1, <1>5
  <1>7. \A j \in (m + 1)..(i - 1) : ~IsPromptAt(s, j)
    <2>1. \A j \in (m + 1)..(i - 1) : j \in k..(i - 1) /\ ~(m >= j)
      BY <1>1, <1>5
    <2>2. QED
      BY <1>5, <2>1
  <1>8. m + 1 = k \/ IsPromptAt(s, (m + 1) - 1)
    BY <1>1, <1>5, <1>6
  <1>9. QED
    BY <1>2, <1>6, <1>7, <1>8 DEF k

LEMMA TextStartIs ==
    ASSUME NEW s, NEW i \in Nat \ {0}, NEW l \in LineStart(s, i)..i,
           l = LineStart(s, i) \/ IsPromptAt(s, l - 1),
           \A j \in l..(i - 1) : ~IsPromptAt(s, j)
    PROVE  TextStart(s, i) = l
  <1> DEFINE k == TextStart(s, i)
             b == LineStart(s, i)
  <1>1. /\ b \in 1..i
        /\ k \in b..i
        /\ k = b \/ IsPromptAt(s, k - 1)
        /\ \A j \in k..(i - 1) : ~IsPromptAt(s, j)
    BY TextStartFacts, LineStartFacts
  <1>2. l \in b..i /\ (l = b \/ IsPromptAt(s, l - 1))
    OBVIOUS
  <1> HIDE DEF k, b
  <1>3. ~(k < l)
    <2>1. k < l => l - 1 \in k..(i - 1) /\ l # b
      BY <1>1, <1>2
    <2>2. QED
      BY <1>1, <1>2, <2>1
  <1>4. ~(l < k)
    <2>1. l < k => k - 1 \in l..(i - 1) /\ k # b
      BY <1>1, <1>2
    <2>2. QED
      BY <1>1, <1>2, <2>1
  <1>5. QED
    BY <1>1, <1>2, <1>3, <1>4 DEF k

-----------------------------------------------------------------------------
(***************************************************************************)
(* The texts of a stream and its events.                                   *)
(***************************************************************************)
LineBytes == Bytes \ {"nl"}
Events == {Prompt} \cup [type : {"Line"}, content : Seq(LineBytes)]

\* From m to n, s has the elements of S that r has from first to last.
Same(S, s, r, m, n, first, last) ==
    /\ m \in Int /\ n \in Int
    /\ \E d \in Nat : /\ first = m + d /\ last = n + d
                      /\ \A j \in m..n : s[j] \in S /\ s[j] = r[j + d]

Cut(s, m, n) == SubSeq(s, m, n)

LEMMA SubSeqShifted ==
    ASSUME NEW S, NEW s, NEW r, NEW m, NEW n, NEW first, NEW last,
           Same(S, s, r, m, n, first, last)
    PROVE  Cut(r, first, last) = Cut(s, m, n)
  <1> m \in Int /\ n \in Int
    BY DEF Same
  <1>0. PICK d \in Nat : /\ first = m + d /\ last = n + d
                         /\ \A j \in m..n : s[j] \in S /\ s[j] = r[j + d]
    BY DEF Same
  <1> DEFINE a == SubSeq(s, m, n)
             b == SubSeq(r, m + d, n + d)
  <1>1. /\ a \in Seq(S)
        /\ Len(a) = IF m <= n THEN n - m + 1 ELSE 0
        /\ \A i \in 1..(n - m + 1) : a[i] = s[m + i - 1]
    BY <1>0, SubSeqProperties
  <1>2. \A j \in (m + d)..(n + d) : r[j] \in S
    <2>1. \A j \in (m + d)..(n + d) : j - d \in m..n /\ (j - d) + d = j
      OBVIOUS
    <2>2. QED
      BY <1>0, <2>1
  <1>3. m + d \in Int /\ n + d \in Int /\ (n + d) - (m + d) + 1 = n - m + 1
        /\ (m + d <= n + d <=> m <= n)
    OBVIOUS
  <1>4. /\ b \in Seq(S)
        /\ Len(b) = IF m + d <= n + d THEN (n + d) - (m + d) + 1 ELSE 0
        /\ \A i \in 1..((n + d) - (m + d) + 1) : b[i] = r[(m + d) + i - 1]
    BY <1>2, <1>3, SubSeqProperties
  <1> HIDE DEF a, b
  <1>5. Len(a) = Len(b)
    BY <1>1, <1>3, <1>4
  <1>6. ASSUME NEW i \in 1..Len(a) PROVE a[i] = b[i]
    <2>1. i \in 1..(n - m + 1) /\ i \in 1..((n + d) - (m + d) + 1)
      BY <1>1, <1>3
    <2>2. m + i - 1 \in m..n /\ (m + d) + i - 1 = (m + i - 1) + d
      BY <2>1
    <2>3. QED
      BY <1>0, <1>1, <1>4, <2>1, <2>2
  <1>7. a = b
    BY <1>1, <1>4, <1>5, <1>6, SeqEqual
  <1>8. QED
    BY <1>0, <1>7 DEF Cut, a, b

LEMMA TextShifted ==
    ASSUME NEW s, NEW r, NEW i \in Nat \ {0}, NEW d, NEW p, Shifted(s, r, i, d, p)
    PROVE  TextBefore(r, p) = TextBefore(s, i)
  <1> DEFINE k == TextStart(s, i)
             b == LineStart(s, i)
             l == k + d
  <1>0. /\ d \in Nat /\ p = i + d
        /\ \A j \in 1..(i - 1) : s[j] \in Bytes /\ s[j] = r[j + d]
    BY DEF Shifted
  <1>1. /\ b \in 1..i
        /\ k \in b..i
        /\ k = b \/ IsPromptAt(s, k - 1)
        /\ \A j \in k..(i - 1) : ~IsPromptAt(s, j)
        /\ TextBefore(s, i) = SubSeq(s, k, i - 1)
    BY TextStartFacts, LineStartFacts
  <1>2. LineStart(r, p) = b + d
    BY LineStartShifted
  <1> HIDE DEF k, b
  <1>3. ASSUME NEW j \in 1..(i - 1) PROVE IsPromptAt(r, j + d) <=> IsPromptAt(s, j)
    <2> DEFINE q == j + d
    <2>1. j \in Nat \ {0} /\ \A h \in 1..(j - 1) : h \in 1..(i - 1)
      OBVIOUS
    <2>2. Shifted(s, r, j, d, q) /\ s[j] = r[q]
      BY <1>0, <2>1 DEF Shifted
    <2> HIDE DEF q
    <2>3. IsPromptAt(r, q) <=> IsPromptAt(s, j)
      BY <2>1, <2>2, PromptShifted
    <2>4. QED
      BY <2>3 DEF q
  <1>4. p \in Nat \ {0} /\ l \in LineStart(r, p)..p
    BY <1>0, <1>1, <1>2
  <1>5. l = LineStart(r, p) \/ IsPromptAt(r, l - 1)
    <2>1. CASE k = b
      BY <1>2, <2>1
    <2>2. CASE k # b
      <3>1. k - 1 \in 1..(i - 1) /\ (k - 1) + d = l - 1
        BY <1>0, <1>1, <2>2
      <3>2. QED
        BY <1>1, <1>3, <2>2, <3>1
    <2>3. QED
      BY <2>1, <2>2
  <1>6. ASSUME NEW j \in l..(p - 1) PROVE ~IsPromptAt(r, j)
    <2>1. j - d \in k..(i - 1) /\ j - d \in 1..(i - 1) /\ (j - d) + d = j
      BY <1>0, <1>1
    <2>2. QED
      BY <1>1, <1>3, <2>1
  <1>7. SubSeq(r, l, p - 1) = SubSeq(s, k, i - 1)
    <2> DEFINE m == i - 1
               n == p - 1
    <2>1. /\ k \in Int /\ m \in Int /\ n = m + d
          /\ \A j \in k..m : j \in 1..(i - 1)
      BY <1>0, <1>1
    <2>2. Same(Bytes, s, r, k, m, l, n)
      BY <1>0, <2>1 DEF Same
    <2> HIDE DEF l, m, n
    <2>3. Cut(r, l, n) = Cut(s, k, m)
      BY <2>2, SubSeqShifted
    <2>4. QED
      BY <2>3 DEF Cut, m, n
  <1> HIDE DEF l
  <1>8. TextStart(r, p) = l
    BY <1>4, <1>5, <1>6, TextStartIs
  <1>9. TextBefore(r, p) = SubSeq(r, l, p - 1)
    BY <1>4, <1>8, TextStartFacts
  <1>10. QED
    BY <1>1, <1>7, <1>9

\* A text holds no line end, and is no longer than its line.
LEMMA TextType ==
    ASSUME NEW s, NEW i \in Nat \ {0}, \A j \in 1..(i - 1) : s[j] \in Bytes
    PROVE  /\ TextBefore(s, i) \in Seq(LineBytes)
           /\ Len(TextBefore(s, i)) <= i - LineStart(s, i)
  <1> DEFINE k == TextStart(s, i)
             b == LineStart(s, i)
  <1>1. /\ b \in 1..i
        /\ \A j \in b..(i - 1) : s[j] # "nl"
        /\ k \in b..i
        /\ TextBefore(s, i) = SubSeq(s, k, i - 1)
    BY TextStartFacts, LineStartFacts
  <1> HIDE DEF k, b
  <1>2. \A j \in k..(i - 1) : s[j] \in LineBytes
    BY <1>1 DEF LineBytes
  <1>3. k \in Int /\ i - 1 \in Int
    BY <1>1
  <1>4. /\ SubSeq(s, k, i - 1) \in Seq(LineBytes)
        /\ Len(SubSeq(s, k, i - 1)) = IF k <= i - 1 THEN (i - 1) - k + 1 ELSE 0
    BY <1>2, <1>3, SubSeqProperties
  <1>5. QED
    BY <1>1, <1>4 DEF b

\* What the next byte makes of the text before it.
LEMMA TextNext ==
    ASSUME NEW s, NEW i \in Nat \ {0}, \A j \in 1..i : s[j] \in Bytes
    PROVE  TextBefore(s, i + 1) = IF s[i] = "nl" \/ IsPromptAt(s, i) THEN <<>>
                                  ELSE Append(TextBefore(s, i), s[i])
  <1> DEFINE k == TextStart(s, i)
             b == LineStart(s, i)
  <1>1. /\ b \in 1..i
        /\ k \in b..i
        /\ k = b \/ IsPromptAt(s, k - 1)
        /\ \A j \in k..(i - 1) : ~IsPromptAt(s, j)
        /\ TextBefore(s, i) = SubSeq(s, k, i - 1)
    BY TextStartFacts, LineStartFacts
  <1>2. LineStart(s, i + 1) = IF s[i] = "nl" THEN i + 1 ELSE b
    BY LineStartNext
  <1> HIDE DEF k, b
  <1>3. i + 1 \in Nat \ {0} /\ (i + 1) - 1 = i
    OBVIOUS
  <1>4. CASE s[i] = "nl" \/ IsPromptAt(s, i)
    <2>1. i + 1 \in LineStart(s, i + 1)..(i + 1)
      BY <1>1, <1>2
    <2>2. i + 1 = LineStart(s, i + 1) \/ IsPromptAt(s, (i + 1) - 1)
      BY <1>2, <1>3, <1>4
    <2>3. \A j \in (i + 1)..((i + 1) - 1) : ~IsPromptAt(s, j)
      OBVIOUS
    <2>4. TextStart(s, i + 1) = i + 1
      BY <1>3, <2>1, <2>2, <2>3, TextStartIs
    <2>5. TextBefore(s, i + 1) = SubSeq(s, i + 1, i)
      BY <1>3, <2>4, TextStartFacts
    <2>6. SubSeq(s, i + 1, i) = <<>>
      BY SubSeqEmpty
    <2>7. QED
      BY <1>4, <2>5, <2>6
  <1>5. CASE s[i] # "nl" /\ ~IsPromptAt(s, i)
    <2>1. LineStart(s, i + 1) = b
      BY <1>2, <1>5
    <2>2. k \in LineStart(s, i + 1)..(i + 1)
      BY <1>1, <2>1
    <2>3. \A j \in k..((i + 1) - 1) : ~IsPromptAt(s, j)
      BY <1>1, <1>5
    <2>4. TextStart(s, i + 1) = k
      BY <1>1, <1>3, <2>1, <2>2, <2>3, TextStartIs
    <2>5. TextBefore(s, i + 1) = SubSeq(s, k, i)
      BY <1>3, <2>4, TextStartFacts
    <2>6. SubSeq(s, k, i) = Append(SubSeq(s, k, i - 1), s[i])
      <3>1. k \in Int /\ i \in Int /\ i - 1 \in Int /\ k <= i
        BY <1>1
      <3>2. /\ SubSeq(s, k, i) \in Seq(Bytes)
            /\ Len(SubSeq(s, k, i)) = i - k + 1
            /\ \A h \in 1..(i - k + 1) : SubSeq(s, k, i)[h] = s[k + h - 1]
        BY <1>1, <3>1, SubSeqProperties
      <3>3. /\ SubSeq(s, k, i - 1) \in Seq(Bytes)
            /\ Len(SubSeq(s, k, i - 1)) = i - k
            /\ \A h \in 1..(i - k) : SubSeq(s, k, i - 1)[h] = s[k + h - 1]
        <4>1. /\ SubSeq(s, k, i - 1) \in Seq(Bytes)
              /\ Len(SubSeq(s, k, i - 1)) = IF k <= i - 1 THEN (i - 1) - k + 1 ELSE 0
              /\ \A h \in 1..((i - 1) - k + 1) : SubSeq(s, k, i - 1)[h] = s[k + h - 1]
          BY <1>1, <3>1, SubSeqProperties
        <4>2. (i - 1) - k + 1 = i - k
          BY <1>1
        <4>3. QED
          BY <3>1, <4>1, <4>2
      <3> DEFINE u == SubSeq(s, k, i - 1)
                 v == SubSeq(s, k, i)
      <3>4. /\ Append(u, s[i]) \in Seq(Bytes)
            /\ Len(Append(u, s[i])) = Len(u) + 1
            /\ \A h \in 1..Len(u) : Append(u, s[i])[h] = u[h]
            /\ Append(u, s[i])[Len(u) + 1] = s[i]
        BY <3>3, AppendProperties
      <3> DEFINE w == Append(u, s[i])
      <3>5. \A h \in 1..Len(v) : v[h] = w[h]
        <4> HIDE DEF u, v, w
        <4>1. /\ Len(v) = i - k + 1 /\ Len(u) = i - k
              /\ \A h \in 1..(i - k + 1) : v[h] = s[k + h - 1]
              /\ \A h \in 1..(i - k) : u[h] = s[k + h - 1]
          BY <3>2, <3>3 DEF u, v
        <4>2. /\ \A h \in 1..Len(u) : w[h] = u[h]
              /\ w[Len(u) + 1] = s[i]
          BY <3>4 DEF w
        <4>3. k + (i - k + 1) - 1 = i
          BY <3>1
        <4>4. v[i - k + 1] = w[i - k + 1]
          BY <1>1, <4>1, <4>2, <4>3
        <4>5. \A h \in 1..(i - k) : v[h] = w[h]
          BY <1>1, <4>1, <4>2
        <4>6. \A h \in 1..(i - k + 1) : h \in 1..(i - k) \/ h = i - k + 1
          BY <3>1
        <4>7. QED
          BY <4>1, <4>4, <4>5, <4>6, SMTT(30)
      <3>6. Len(v) = Len(w)
        BY <3>1, <3>2, <3>3, <3>4
      <3>7. v = w
        <4> HIDE DEF v
        <4>1. v \in Seq(Bytes) /\ w \in Seq(Bytes)
          BY <3>2, <3>4 DEF v
        <4> HIDE DEF w
        <4>2. QED
          BY <3>5, <3>6, <4>1, SeqEqual
      <3>8. QED
        BY <3>7
    <2>7. QED
      BY <1>1, <1>5, <2>5, <2>6
  <1>6. QED
    BY <1>4, <1>5

\* A line's event does not depend on blanks in front of it.
LEMMA LineEventsTrimmed ==
    ASSUME NEW q \in Seq({"sp"}), NEW l \in Seq(LineBytes)
    PROVE  LineEvents(q \o l) = LineEvents(l)
  <1> DEFINE n == Len(q)
             t == q \o l
  <1>1. /\ n \in Nat /\ Len(l) \in Nat /\ Len(t) = n + Len(l)
        /\ \A i \in 1..n : t[i] = "sp"
        /\ \A i \in 1..Len(l) : t[i + n] = l[i]
    <2>1. q \in Seq(Bytes) /\ l \in Seq(Bytes)
      <3>1. {"sp"} \subseteq Bytes /\ LineBytes \subseteq Bytes
        BY DEF Bytes, LineBytes
      <3>2. QED
        BY <3>1, SeqMonotonic
    <2>2. \A i \in 1..n : q[i] = "sp"
      BY ElementOfSeq
    <2>3. QED
      BY <2>1, <2>2
  <1> HIDE DEF n, t
  <1>2. \A i \in Int : i \in Solid(t) <=> i - n \in Solid(l)
    <2>1. ASSUME NEW i \in Solid(t) PROVE i - n \in Solid(l)
      <3>1. i \in 1..Len(t) /\ t[i] # "sp"
        BY DEF Solid
      <3>2. ~(i <= n)
        BY <1>1, <3>1
      <3>3. i - n \in 1..Len(l) /\ (i - n) + n = i
        BY <1>1, <3>1, <3>2
      <3>4. QED
        BY <1>1, <3>1, <3>3 DEF Solid
    <2>2. ASSUME NEW i \in Int, i - n \in Solid(l) PROVE i \in Solid(t)
      <3>1. i - n \in 1..Len(l) /\ l[i - n] # "sp"
        BY <2>2 DEF Solid
      <3>2. i \in 1..Len(t) /\ (i - n) + n = i
        BY <1>1, <3>1
      <3>3. QED
        BY <1>1, <3>1, <3>2 DEF Solid
    <2>3. QED
      BY <2>1, <2>2
  <1>3. CASE Solid(l) = {}
    <2>1. Solid(t) = {}
      <3>1. \A i \in Solid(t) : i \in Int
        BY <1>1 DEF Solid
      <3>2. QED
        BY <1>2, <1>3, <3>1
    <2>2. QED
      BY <1>3, <2>1 DEF LineEvents, t
  <1>4. CASE Solid(l) # {}
    <2> DEFINE lo == Min(Solid(l))
               hi == Max(Solid(l))
    <2>1. /\ Solid(l) \in SUBSET (0..Len(l)) /\ Solid(t) \in SUBSET (0..Len(t))
          /\ Len(t) \in Nat
      BY <1>1 DEF Solid
    <2>2. /\ hi \in Solid(l) /\ \A i \in Solid(l) : hi >= i
          /\ lo \in Solid(l) /\ \A i \in Solid(l) : lo <= i
      BY <1>1, <1>4, <2>1, MaxOfBounded, MinOfBounded
    <2>3. hi \in Int /\ lo \in Int
      BY <2>1, <2>2
    <2>4. (hi + n) - n = hi /\ (lo + n) - n = lo /\ hi + n \in Int /\ lo + n \in Int
      BY <1>1, <2>3
    <2>5. hi + n \in Solid(t) /\ lo + n \in Solid(t)
      BY <1>2, <2>2, <2>4
    <2>6. /\ Max(Solid(t)) \in Solid(t) /\ \A i \in Solid(t) : Max(Solid(t)) >= i
          /\ Min(Solid(t)) \in Solid(t) /\ \A i \in Solid(t) : Min(Solid(t)) <= i
      BY <2>1, <2>5, MaxOfBounded, MinOfBounded
    <2> DEFINE HI == Max(Solid(t))
               LO == Min(Solid(t))
    <2>7. HI \in Int /\ LO \in Int /\ HI - n \in Solid(l) /\ LO - n \in Solid(l)
      BY <1>2, <2>1, <2>6
    <2>8. HI >= hi + n /\ LO <= lo + n /\ hi >= HI - n /\ lo <= LO - n
      BY <2>2, <2>5, <2>6, <2>7
    <2>9. HI = hi + n /\ LO = lo + n
      <3> HIDE DEF hi, lo, HI, LO
      <3>1. QED
        BY <1>1, <2>3, <2>7, <2>8
    <2>10. SubSeq(t, lo + n, hi + n) = SubSeq(l, lo, hi)
      <3>1. \A j \in lo..hi : l[j] \in LineBytes /\ l[j] = t[j + n]
        <4>1. \A j \in lo..hi : j \in 1..Len(l)
          BY <1>1, <2>2 DEF Solid
        <4>2. QED
          BY <1>1, <4>1, ElementOfSeq
      <3>2. n \in Nat /\ lo \in Int /\ hi \in Int
        BY <1>1, <2>3
      <3> HIDE DEF hi, lo, n, t
      <3> DEFINE first == lo + n
                 last == hi + n
      <3>3. Same(LineBytes, l, t, lo, hi, first, last)
        BY <3>1, <3>2 DEF Same
      <3> HIDE DEF first, last
      <3>4. Cut(t, first, last) = Cut(l, lo, hi)
        BY <3>3, SubSeqShifted
      <3>5. QED
        BY <3>4 DEF Cut, first, last
    <2>11. Solid(t) # {}
      BY <2>5
    <2>12. QED
      BY <1>4, <2>9, <2>10, <2>11 DEF LineEvents, t
  <1>5. QED
    BY <1>3, <1>4

LEMMA LineEventsType ==
    ASSUME NEW l \in Seq(LineBytes)
    PROVE  LineEvents(l) \in Seq(Events)
  <1>1. CASE Solid(l) = {}
    BY <1>1 DEF LineEvents
  <1>2. CASE Solid(l) # {}
    <2> DEFINE lo == Min(Solid(l))
               hi == Max(Solid(l))
    <2>1. Solid(l) \in SUBSET (0..Len(l)) /\ Len(l) \in Nat
      BY DEF Solid
    <2>2. hi \in Solid(l) /\ lo \in Solid(l)
      BY <1>2, <2>1, MaxOfBounded, MinOfBounded
    <2>3. hi \in 1..Len(l) /\ lo \in 1..Len(l)
      BY <2>2 DEF Solid
    <2> HIDE DEF hi, lo
    <2>4. \A j \in lo..hi : l[j] \in LineBytes
      <3>1. \A j \in lo..hi : j \in 1..Len(l)
        BY <2>1, <2>3
      <3>2. QED
        BY <3>1, ElementOfSeq
    <2>5. SubSeq(l, lo, hi) \in Seq(LineBytes)
      BY <2>3, <2>4, SubSeqProperties
    <2>6. Line(SubSeq(l, lo, hi)) \in Events
      BY <2>5 DEF Line, Events
    <2>7. LineEvents(l) = <<Line(SubSeq(l, lo, hi))>>
      BY <1>2 DEF LineEvents, hi, lo
    <2>8. QED
      BY <2>6, <2>7
  <1>3. QED
    BY <1>1, <1>2

LEMMA EventsAtShifted ==
    ASSUME NEW s, NEW r, NEW i \in Nat \ {0}, NEW d, NEW p, Shifted(s, r, i, d, p),
           s[i] = r[p]
    PROVE  EventsAt(r, p) = EventsAt(s, i)
  <1>1. IsPromptAt(r, p) <=> IsPromptAt(s, i)
    BY PromptShifted
  <1>2. TextBefore(r, p) = TextBefore(s, i)
    BY TextShifted
  <1>3. QED
    BY <1>1, <1>2 DEF EventsAt

\* A position has Lines without line ends and Prompts for its events.
LEMMA EventsAtType ==
    ASSUME NEW s \in Seq(Bytes), NEW i \in 1..Len(s)
    PROVE  EventsAt(s, i) \in Seq(Events)
  <1>1. TextBefore(s, i) \in Seq(LineBytes)
    <2>1. i \in Nat \ {0} /\ \A j \in 1..(i - 1) : s[j] \in Bytes
      BY ElementOfSeq
    <2>2. QED
      BY <2>1, TextType
  <1>2. <<Prompt>> \in Seq(Events) /\ <<>> \in Seq(Events)
    BY DEF Events
  <1>3. QED
    BY <1>1, <1>2, LineEventsType DEF EventsAt

LEMMA EventsOfEmpty == EventsOf(<<>>) = <<>>
  <1>1. [i \in 1..Len(<<>>) |-> EventsAt(<<>>, i)] = <<>>
    OBVIOUS
  <1>2. QED
    BY <1>1, FlattenEmpty DEF EventsOf

\* A byte more adds the events of its position.
LEMMA EventsOfAppend ==
    ASSUME NEW s \in Seq(Bytes), NEW b \in Bytes
    PROVE  /\ EventsOf(s) \in Seq(Events)
           /\ EventsOf(Append(s, b)) = EventsOf(s) \o EventsAt(Append(s, b), Len(s) + 1)
  <1> DEFINE n == Len(s)
             t == Append(s, b)
             was == [i \in 1..n |-> EventsAt(s, i)]
             now == [i \in 1..Len(t) |-> EventsAt(t, i)]
             new == EventsAt(t, n + 1)
  <1>1. /\ n \in Nat /\ t \in Seq(Bytes) /\ Len(t) = n + 1
        /\ \A i \in 1..n : t[i] = s[i]
    OBVIOUS
  <1>2. was \in Seq(Seq(Events)) /\ Len(was) = n
    <2>1. \A i \in 1..n : EventsAt(s, i) \in Seq(Events)
      BY EventsAtType
    <2> DEFINE E == Seq(Events)
    <2> HIDE DEF E
    <2>2. \A i \in 1..n : EventsAt(s, i) \in E
      BY <2>1 DEF E
    <2>3. was \in Seq(E) /\ Len(was) = n
      BY <1>1, <2>2
    <2>4. QED
      BY <2>3 DEF E
  <1>3. new \in Seq(Events)
    <2>1. n + 1 \in 1..Len(t)
      BY <1>1
    <2> HIDE DEF t
    <2>2. QED
      BY <1>1, <2>1, EventsAtType
  <1>4. \A i \in 1..n : EventsAt(t, i) = EventsAt(s, i)
    <2>1. SUFFICES ASSUME NEW i \in 1..n PROVE EventsAt(t, i) = EventsAt(s, i)
      OBVIOUS
    <2>2. i \in 1..(n + 1)
      BY <1>1
    <2>3. i \in Nat \ {0} /\ Shifted(s, t, i, 0, i) /\ s[i] = t[i]
      BY <1>1, <2>2, AppendShifted
    <2> HIDE DEF t, n
    <2>4. QED
      BY <2>3, EventsAtShifted
  <1>5. now = Append(was, new)
    <2>1. \A i \in 1..(n + 1) : i \in 1..n \/ i = n + 1
      BY <1>1
    <2> HIDE DEF t, n
    <2>2. /\ now = [i \in 1..(n + 1) |-> EventsAt(t, i)]
          /\ \A i \in 1..n : now[i] = was[i]
          /\ now[n + 1] = new
      BY <1>1, <1>4
    <2> DEFINE E == Seq(Events)
    <2>3. was \in Seq(E) /\ new \in E
      BY <1>2, <1>3
    <2>4. now \in Seq(E) /\ Len(now) = n + 1
      <3>1. \A i \in 1..(n + 1) : EventsAt(t, i) \in E
        BY <1>1, EventsAtType
      <3> HIDE DEF E
      <3>2. QED
        BY <1>1, <2>2, <3>1
    <2> HIDE DEF E, was, now, new
    <2>5. /\ Append(was, new) \in Seq(E)
          /\ Len(Append(was, new)) = n + 1
          /\ \A i \in 1..n : Append(was, new)[i] = was[i]
          /\ Append(was, new)[n + 1] = new
      BY <1>2, <2>3, AppendProperties
    <2>6. \A i \in 1..Len(now) : now[i] = Append(was, new)[i]
      BY <2>1, <2>2, <2>4, <2>5
    <2>7. QED
      BY <2>4, <2>5, <2>6, SeqEqual
  <1>6. FlattenSeq(now) = FlattenSeq(was) \o new /\ FlattenSeq(was) \in Seq(Events)
    <2> HIDE DEF now, was, new
    <2>1. QED
      BY <1>2, <1>3, <1>5, FlattenAppend, FlattenType
  <1>7. QED
    BY <1>6 DEF EventsOf

-----------------------------------------------------------------------------
(***************************************************************************)
(* The buffer and the stream.                                              *)
(***************************************************************************)
Starts(s) == {from \in 1..(Len(s) + 1) : from = 1 \/ s[from - 1] = "nl"}

\* A prompt sign as the next byte would be a prompt.
AtPrompt(s) ==
    LET l == LineStart(s, Len(s) + 1)
    IN  l = Len(s) + 1 \/ (s[l] = "gt" /\ \A j \in l..Len(s) : s[j] \in {"gt", "sp"})

\* The line that is kept is the text of the stream without blanks that followed
\* a prompt in the same read, and it knows whether a prompt may come: unless a
\* read ended in such a blank, which the next one takes for text.
Matches(s, line, prompted) ==
    /\ \E q \in Seq({"sp"}) : TextBefore(s, Len(s) + 1) = q \o line
    /\ line = <<>> => AtPrompt(s)
    /\ line # <<>> => line[1] # "gt" /\ (AtPrompt(s) => s[Len(s)] = "sp")
    /\ prompted => line = <<>> /\ LineStart(s, Len(s) + 1) <= Len(s)

\* From the beginning of a line on that nothing odd has followed, what was found
\* is right, and from the beginning of the stream on it is all there is.
Follows(s, found, line, prompted) ==
    \A from \in Starts(s) : PlainFrom(s, from) =>
        /\ Matches(s, line, prompted)
        /\ \E before \in Seq(Events) :
              /\ found = before \o EventsOf(SubSeq(s, from, Len(s)))
              /\ from = 1 => before = <<>>

\* A byte more leaves the lines and prompts of the stream as they are.
LEMMA AppendedByte ==
    ASSUME NEW s \in Seq(Bytes), NEW b \in Bytes
    PROVE  LET t == Append(s, b)
               n == Len(s)
           IN  /\ n \in Nat /\ n + 1 \in Nat \ {0}
               /\ t \in Seq(Bytes) /\ Len(t) = n + 1 /\ t[n + 1] = b
               /\ \A i \in 1..n : t[i] = s[i] /\ s[i] \in Bytes
               /\ \A i \in 1..(n + 1) : t[i] \in Bytes
               /\ \A i \in 1..(n + 1) : LineStart(t, i) = LineStart(s, i)
               /\ \A i \in 1..n : IsPromptAt(t, i) <=> IsPromptAt(s, i)
  <1> DEFINE t == Append(s, b)
             n == Len(s)
  <1>1. /\ n \in Nat /\ n + 1 \in Nat \ {0}
        /\ t \in Seq(Bytes) /\ Len(t) = n + 1 /\ t[n + 1] = b
        /\ \A i \in 1..n : t[i] = s[i]
    OBVIOUS
  <1>2. \A i \in 1..n : s[i] \in Bytes
    BY ElementOfSeq
  <1>3. \A i \in 1..(n + 1) : t[i] \in Bytes
    BY <1>1, ElementOfSeq
  <1> HIDE DEF n, t
  <1>4. ASSUME NEW i \in 1..(n + 1) PROVE LineStart(t, i) = LineStart(s, i)
    <2>1. i \in Nat \ {0} /\ Shifted(s, t, i, 0, i)
      BY AppendShifted DEF n, t
    <2>2. LineStart(t, i) = LineStart(s, i) + 0
      BY <2>1, LineStartShifted
    <2>3. LineStart(s, i) \in Nat
      BY <2>1, LineStartFacts
    <2>4. QED
      BY <2>1, <2>2, <2>3
  <1>5. ASSUME NEW i \in 1..n PROVE IsPromptAt(t, i) <=> IsPromptAt(s, i)
    <2>1. i \in 1..(n + 1)
      BY <1>1
    <2>2. i \in Nat \ {0} /\ Shifted(s, t, i, 0, i)
      BY <2>1, AppendShifted DEF n, t
    <2>3. QED
      BY <1>1, <2>2, PromptShifted
  <1>6. QED
    BY <1>1, <1>2, <1>3, <1>4, <1>5 DEF n, t

\* Where a prompt may come after one byte more.
LEMMA PromptNext ==
    ASSUME NEW s \in Seq(Bytes), NEW b \in Bytes
    PROVE  LET t == Append(s, b)
               n == Len(s)
           IN  /\ IsPromptAt(t, n + 1) <=> b = "gt" /\ AtPrompt(s)
               /\ AtPrompt(t) <=> \/ b = "nl"
                                  \/ b = "gt" /\ AtPrompt(s)
                                  \/ b = "sp" /\ AtPrompt(s) /\ LineStart(s, n + 1) <= n
  <1> DEFINE t == Append(s, b)
             n == Len(s)
             k == LineStart(s, n + 1)
  <1>1. /\ n \in Nat /\ n + 1 \in Nat \ {0}
        /\ Len(t) = n + 1 /\ t[n + 1] = b
        /\ \A i \in 1..n : t[i] = s[i]
        /\ LineStart(t, n + 1) = k
    BY AppendedByte
  <1>2. k \in 1..(n + 1)
    BY <1>1, LineStartFacts
  <1>3. LineStart(t, (n + 1) + 1) = IF b = "nl" THEN (n + 1) + 1 ELSE k
    BY <1>1, LineStartNext
  <1>4. AtPrompt(s) <=> k = n + 1 \/ (s[k] = "gt" /\ \A j \in k..n : s[j] \in {"gt", "sp"})
    BY DEF AtPrompt
  <1>5. IsPromptAt(t, n + 1) <=> /\ b = "gt" /\ t[k] = "gt"
                                 /\ \A j \in k..(n + 1) : t[j] \in {"gt", "sp"}
    BY <1>1 DEF IsPromptAt
  <1>6. AtPrompt(t) <=> \/ b = "nl"
                        \/ /\ b # "nl" /\ t[k] = "gt"
                           /\ \A j \in k..(n + 1) : t[j] \in {"gt", "sp"}
    <2>1. AtPrompt(t) <=> LET l == LineStart(t, (n + 1) + 1)
                          IN  \/ l = (n + 1) + 1
                              \/ t[l] = "gt" /\ \A j \in l..(n + 1) : t[j] \in {"gt", "sp"}
      BY <1>1 DEF AtPrompt
    <2>2. k # (n + 1) + 1
      BY <1>1, <1>2
    <2> HIDE DEF t, n, k
    <2>3. QED
      BY <1>3, <2>1, <2>2
  <1> HIDE DEF t, n, k
  <1>7. (t[k] = "gt" /\ \A j \in k..(n + 1) : t[j] \in {"gt", "sp"})
            <=> /\ b \in {"gt", "sp"} /\ AtPrompt(s)
                /\ k = n + 1 => b = "gt"
    <2>1. CASE k = n + 1
      BY <1>1, <1>4, <2>1
    <2>2. CASE k # n + 1
      <3>1. k \in 1..n /\ t[k] = s[k]
        BY <1>1, <1>2, <2>2
      <3>2. \A j \in k..(n + 1) : j \in k..n \/ j = n + 1
        BY <1>1, <1>2
      <3>3. \A j \in k..n : j \in k..(n + 1) /\ t[j] = s[j]
        BY <1>1, <1>2
      <3>4. n + 1 \in k..(n + 1)
        BY <1>1, <1>2
      <3>5. QED
        BY <1>1, <1>4, <2>2, <3>1, <3>2, <3>3, <3>4
    <2>3. QED
      BY <2>1, <2>2
  <1>8. k <= n <=> k # n + 1
    BY <1>1, <1>2
  <1>9. QED
    BY <1>5, <1>6, <1>7, <1>8 DEF t, n, k

\* A stream that is plain has been so all along.
LEMMA PlainFromShorter ==
    ASSUME NEW s \in Seq(Bytes), NEW b \in Bytes, NEW from \in Nat,
           1 <= from, PlainFrom(Append(s, b), from)
    PROVE  PlainFrom(s, from)
  <1> DEFINE t == Append(s, b)
             n == Len(s)
  <1>1. /\ n \in Nat /\ Len(t) = n + 1
        /\ \A i \in 1..n : t[i] = s[i]
        /\ \A i \in 1..(n + 1) : LineStart(t, i) = LineStart(s, i)
        /\ \A i \in 1..n : IsPromptAt(t, i) <=> IsPromptAt(s, i)
    BY AppendedByte
  <1>2. \A i \in from..((n + 1) + 1) :
           /\ i - LineStart(t, i) <= MaxBufferSize
           /\ i > from + 1 /\ i <= n + 1 /\ IsPromptAt(t, i) => t[i - 1] # "sp"
    BY <1>1 DEF PlainFrom
  <1> HIDE DEF t, n
  <1>3. ASSUME NEW i \in from..(n + 1)
        PROVE  /\ i - LineStart(s, i) <= MaxBufferSize
               /\ i > from + 1 /\ i <= n /\ IsPromptAt(s, i) => s[i - 1] # "sp"
    <2>1. i \in from..((n + 1) + 1) /\ i \in 1..(n + 1)
      BY <1>1
    <2>2. i - LineStart(s, i) <= MaxBufferSize
      BY <1>1, <1>2, <2>1
    <2>3. ASSUME i > from + 1, i <= n, IsPromptAt(s, i) PROVE s[i - 1] # "sp"
      <3>1. i \in 1..n /\ i - 1 \in 1..n /\ i <= n + 1
        BY <1>1, <2>1, <2>3
      <3>2. QED
        BY <1>1, <1>2, <2>1, <2>3, <3>1, SMTT(30)
    <2>4. QED
      BY <2>2, <2>3
  <1>4. QED
    BY <1>3 DEF PlainFrom, n

\* In a plain stream no blank stands before a prompt.
LEMMA NoBlankBeforePrompt ==
    ASSUME NEW s \in Seq(Bytes), NEW from \in Starts(s), PlainFrom(Append(s, "gt"), from),
           AtPrompt(s), Len(s) # 0
    PROVE  s[Len(s)] # "sp"
  <1> DEFINE t == Append(s, "gt")
             n == Len(s)
             k == LineStart(s, n + 1)
  <1> SUFFICES ASSUME s[n] = "sp" PROVE FALSE
    OBVIOUS
  <1>0. "gt" \in Bytes
    BY DEF Bytes
  <1>1. /\ n \in Nat /\ n + 1 \in Nat \ {0}
        /\ Len(t) = n + 1
        /\ \A i \in 1..n : t[i] = s[i]
    BY <1>0, AppendedByte
  <1>2. IsPromptAt(t, n + 1)
    BY <1>0, PromptNext
  <1>3. /\ k \in 1..(n + 1)
        /\ \A j \in k..n : s[j] # "nl"
    <2>1. (n + 1) - 1 = n
      BY <1>1
    <2>2. QED
      BY <1>1, <2>1, LineStartFacts
  <1>4. k # n + 1
    <2>1. n \in Nat \ {0}
      BY <1>1
    <2>2. k = LineStart(s, n)
      BY <2>1, LineStartNext
    <2>3. LineStart(s, n) \in 1..n
      BY <2>1, LineStartFacts
    <2>4. QED
      BY <2>1, <2>2, <2>3
  <1>5. s[k] = "gt"
    BY <1>4 DEF AtPrompt
  <1>6. from \in 1..(n + 1) /\ (from = 1 \/ s[from - 1] = "nl")
    BY DEF Starts
  <1> HIDE DEF k
  <1>7. k < n
    BY <1>1, <1>3, <1>4, <1>5
  <1>8. from <= k
    <2>1. SUFFICES ASSUME from > k PROVE FALSE
      BY <1>3, <1>6
    <2>2. from - 1 \in k..n /\ from # 1
      BY <1>3, <1>6, <2>1
    <2>3. QED
      BY <1>3, <1>6, <2>2
  <1>9. n + 1 \in from..((n + 1) + 1) /\ n + 1 > from + 1 /\ n + 1 <= n + 1 /\ (n + 1) - 1 = n
    BY <1>1, <1>3, <1>6, <1>7, <1>8
  <1>10. t[(n + 1) - 1] # "sp"
    <2>1. \A i \in from..(Len(t) + 1) :
             i > from + 1 /\ i <= Len(t) /\ IsPromptAt(t, i) => t[i - 1] # "sp"
      BY DEF PlainFrom
    <2> HIDE DEF t, n
    <2>2. QED
      BY <1>1, <1>2, <1>9, <2>1
  <1>11. t[n] = s[n]
    BY <1>1
  <1>12. QED
    BY <1>9, <1>10, <1>11

\* A line of a plain stream is within the limit.
LEMMA LineFits ==
    ASSUME NEW s \in Seq(Bytes), NEW from \in Starts(s), PlainFrom(s, from),
           NEW line \in Seq(LineBytes), NEW prompted, Matches(s, line, prompted)
    PROVE  Keep(line) = line
  <1> DEFINE n == Len(s)
             text == TextBefore(s, n + 1)
  <1>1. n \in Nat /\ n + 1 \in Nat \ {0}
    OBVIOUS
  <1>2. text \in Seq(LineBytes) /\ Len(text) <= (n + 1) - LineStart(s, n + 1)
    <2>1. \A j \in 1..((n + 1) - 1) : s[j] \in Bytes
      BY <1>1, ElementOfSeq
    <2> HIDE DEF n
    <2>2. QED
      BY <1>1, <2>1, TextType
  <1>3. (n + 1) - LineStart(s, n + 1) <= MaxBufferSize
    <2>1. n + 1 \in from..(n + 1)
      BY <1>1 DEF Starts
    <2>2. QED
      BY <2>1 DEF PlainFrom
  <1>4. PICK q \in Seq({"sp"}) : text = q \o line
    BY DEF Matches
  <1>5. /\ Len(q) \in Nat /\ Len(line) \in Nat /\ Len(text) = Len(q) + Len(line)
        /\ LineStart(s, n + 1) \in Nat
    <2>1. Len(q \o line) = Len(q) + Len(line)
      OBVIOUS
    <2>2. LineStart(s, n + 1) \in Nat
      BY <1>1, LineStartFacts
    <2>3. QED
      BY <1>4, <2>1, <2>2
  <1>6. ~(Len(line) > MaxBufferSize)
    <2> HIDE DEF text, n
    <2>1. QED
      BY <1>1, <1>2, <1>3, <1>5, MaxBufferSizeAssumption
  <1>7. QED
    BY <1>6 DEF Keep

\* One byte: what the scan finds is what the stream has there.
LEMMA MatchesNext ==
    ASSUME NEW s \in Seq(Bytes), NEW b \in Bytes, NEW from \in Starts(s),
           PlainFrom(Append(s, b), from),
           NEW found \in Seq(Events), NEW line \in Seq(LineBytes), NEW prompted \in BOOLEAN,
           Matches(s, line, prompted)
    PROVE  LET t    == Append(s, b)
               next == Scan([events |-> found, line |-> line, prompted |-> prompted], b)
           IN  /\ next.events = found \o EventsAt(t, Len(s) + 1)
               /\ Matches(t, next.line, next.prompted)
  <1> DEFINE t == Append(s, b)
             n == Len(s)
             k == LineStart(s, n + 1)
             text == TextBefore(s, n + 1)
             next == Scan([events |-> found, line |-> line, prompted |-> prompted], b)
  <1>1. /\ n \in Nat /\ n + 1 \in Nat \ {0}
        /\ t \in Seq(Bytes) /\ Len(t) = n + 1 /\ t[n + 1] = b
        /\ \A i \in 1..n : t[i] = s[i] /\ s[i] \in Bytes
        /\ \A i \in 1..(n + 1) : t[i] \in Bytes
        /\ LineStart(t, n + 1) = k
    BY AppendedByte
  <1>2. /\ IsPromptAt(t, n + 1) <=> b = "gt" /\ AtPrompt(s)
        /\ AtPrompt(t) <=> \/ b = "nl"
                           \/ b = "gt" /\ AtPrompt(s)
                           \/ b = "sp" /\ AtPrompt(s) /\ k <= n
    BY PromptNext
  <1>3. TextBefore(t, n + 1) = text
    <2> DEFINE i == n + 1
    <2>1. i \in Nat \ {0} /\ Shifted(s, t, i, 0, i)
      BY <1>1, AppendShifted
    <2> HIDE DEF t, i
    <2>2. TextBefore(t, i) = TextBefore(s, i)
      BY <2>1, TextShifted
    <2>3. QED
      BY <2>2 DEF i
  <1>4. TextBefore(t, (n + 1) + 1) = IF b = "nl" \/ IsPromptAt(t, n + 1) THEN <<>>
                                     ELSE Append(text, b)
    <2> HIDE DEF t, n, text
    <2>1. QED
      BY <1>1, <1>3, TextNext
  <1>5. LineStart(t, (n + 1) + 1) = IF b = "nl" THEN (n + 1) + 1 ELSE k
    BY <1>1, LineStartNext
  <1>6. PICK q \in Seq({"sp"}) : text = q \o line
    BY DEF Matches
  <1>7. /\ line = <<>> => AtPrompt(s)
        /\ line # <<>> => line[1] # "gt" /\ (AtPrompt(s) => s[n] = "sp")
        /\ prompted => line = <<>> /\ k <= n
    BY DEF Matches
  <1>8. line # <<>> => n # 0
    <2>1. SUFFICES ASSUME n = 0 PROVE line = <<>>
      OBVIOUS
    <2>2. k = 1
      BY <1>1, <2>1, LineStartFacts
    <2>3. Len(text) <= (n + 1) - k
      <3>1. \A j \in 1..((n + 1) - 1) : s[j] \in Bytes
        BY <1>1
      <3> HIDE DEF n
      <3>2. QED
        BY <1>1, <3>1, TextType
    <2>4. Len(text) = Len(q) + Len(line)
      <3>1. Len(q \o line) = Len(q) + Len(line)
        OBVIOUS
      <3>2. QED
        BY <1>6, <3>1
    <2>5. Len(q) \in Nat /\ Len(line) \in Nat
      OBVIOUS
    <2>6. Len(line) = 0
      BY <2>1, <2>2, <2>3, <2>4, <2>5
    <2>7. QED
      BY <2>6
  <1>9. ~(b = "gt" /\ line # <<>> /\ AtPrompt(s))
    <2>1. SUFFICES ASSUME b = "gt", line # <<>>, AtPrompt(s) PROVE FALSE
      OBVIOUS
    <2>2. n # 0 /\ s[n] = "sp"
      BY <1>7, <1>8, <2>1
    <2>3. s[n] # "sp"
      BY <2>1, <2>2, NoBlankBeforePrompt
    <2>4. QED
      BY <2>2, <2>3
  <1>10. /\ EventsAt(t, n + 1) = IF b = "nl" THEN LineEvents(text)
                                 ELSE IF IsPromptAt(t, n + 1) THEN <<Prompt>> ELSE <<>>
         /\ LineEvents(text) = LineEvents(line)
    <2>1. LineEvents(text) = LineEvents(line)
      BY <1>6, LineEventsTrimmed
    <2> HIDE DEF t, n, text
    <2>2. QED
      BY <1>1, <1>3, <2>1 DEF EventsAt
  <1>11. Matches(t, next.line, next.prompted) <=>
            /\ \E p \in Seq({"sp"}) : TextBefore(t, (n + 1) + 1) = p \o next.line
            /\ next.line = <<>> => AtPrompt(t)
            /\ next.line # <<>> => next.line[1] # "gt" /\ (AtPrompt(t) => b = "sp")
            /\ next.prompted => next.line = <<>> /\ LineStart(t, (n + 1) + 1) <= n + 1
    <2> HIDE DEF t, n, next
    <2>1. QED
      BY <1>1 DEF Matches
  <1>12. <<>> \in Seq({"sp"}) /\ <<>> \o <<>> = <<>>
    <2>1. \A u \in Seq({"sp"}) : u \o <<>> = u
      OBVIOUS
    <2>2. <<>> \in Seq({"sp"})
      OBVIOUS
    <2>3. QED
      BY <2>1, <2>2
  <1>13. k \in 1..(n + 1)
    BY <1>1, LineStartFacts
  <1> HIDE DEF t, n, k, text
  <1>14. CASE b = "nl"
    <2>1. next = [events |-> found \o LineEvents(line), line |-> <<>>, prompted |-> FALSE]
      BY <1>14 DEF Scan
    <2> HIDE DEF next
    <2>2. /\ next.events = found \o EventsAt(t, n + 1)
          /\ next.line = <<>> /\ ~next.prompted
      BY <1>10, <1>14, <2>1
    <2>3. TextBefore(t, (n + 1) + 1) = <<>> \o next.line /\ AtPrompt(t)
      BY <1>2, <1>4, <1>12, <1>14, <2>2
    <2>4. QED
      BY <1>11, <1>12, <2>2, <2>3 DEF t, n, next
  <1>15. CASE b = "gt" /\ line = <<>>
    <2>1. next = [events |-> Append(found, Prompt), line |-> <<>>, prompted |-> TRUE]
      BY <1>15 DEF Scan
    <2>2. AtPrompt(s) /\ IsPromptAt(t, n + 1) /\ AtPrompt(t)
      BY <1>2, <1>7, <1>15
    <2>3. Append(found, Prompt) = found \o <<Prompt>>
      BY DEF Events
    <2> HIDE DEF next
    <2>4. /\ next.events = found \o EventsAt(t, n + 1)
          /\ next.line = <<>> /\ next.prompted
      BY <1>10, <1>15, <2>1, <2>2, <2>3
    <2>5. TextBefore(t, (n + 1) + 1) = <<>> \o next.line
      BY <1>4, <1>12, <2>2, <2>4
    <2>6. LineStart(t, (n + 1) + 1) <= n + 1
      BY <1>1, <1>5, <1>13, <1>15
    <2>7. QED
      BY <1>11, <1>12, <2>2, <2>4, <2>5, <2>6 DEF t, n, next
  <1>16. CASE b = "sp" /\ prompted
    <2>1. next = [events |-> found, line |-> line, prompted |-> prompted]
      BY <1>16 DEF Scan
    <2>2. line = <<>> /\ k <= n /\ AtPrompt(s)
      BY <1>7, <1>16
    <2>3. EventsAt(t, n + 1) = <<>> /\ found \o <<>> = found
      BY <1>2, <1>10, <1>16
    <2> HIDE DEF next
    <2>4. /\ next.events = found \o EventsAt(t, n + 1)
          /\ next.line = <<>> /\ next.prompted
      BY <1>16, <2>1, <2>2, <2>3
    <2>5. /\ Append(q, b) \in Seq({"sp"})
          /\ Append(q \o <<>>, b) = Append(q, b) \o <<>>
      BY <1>16
    <2>6. TextBefore(t, (n + 1) + 1) = Append(q, b) \o next.line
      BY <1>2, <1>4, <1>6, <1>16, <2>2, <2>4, <2>5
    <2>7. AtPrompt(t) /\ LineStart(t, (n + 1) + 1) <= n + 1
      BY <1>1, <1>2, <1>5, <1>13, <1>16, <2>2
    <2>8. QED
      BY <1>11, <2>4, <2>5, <2>6, <2>7 DEF t, n, next
  <1>17. CASE b # "nl" /\ ~(b = "gt" /\ line = <<>>) /\ ~(b = "sp" /\ prompted)
    <2>1. next = [events |-> found, line |-> Append(line, b), prompted |-> FALSE]
      BY <1>17 DEF Scan
    <2>2. ~IsPromptAt(t, n + 1)
      BY <1>2, <1>9, <1>17
    <2>3. EventsAt(t, n + 1) = <<>> /\ found \o <<>> = found
      BY <1>10, <1>17, <2>2
    <2> HIDE DEF next
    <2>4. /\ next.events = found \o EventsAt(t, n + 1)
          /\ next.line = Append(line, b) /\ ~next.prompted
      BY <2>1, <2>3
    <2>5. Append(q \o line, b) = q \o Append(line, b)
      <3>1. q \in Seq(Bytes) /\ line \in Seq(Bytes)
        <4>1. {"sp"} \subseteq Bytes /\ LineBytes \subseteq Bytes
          BY DEF Bytes, LineBytes
        <4>2. QED
          BY <4>1, SeqMonotonic
      <3>2. /\ Append(q \o line, b) = (q \o line) \o <<b>>
            /\ Append(line, b) = line \o <<b>> /\ <<b>> \in Seq(Bytes)
        BY <3>1, ConcatProperties, AppendIsConcat
      <3>3. QED
        BY <3>1, <3>2, ConcatAssociative, SMTT(30)
    <2>6. TextBefore(t, (n + 1) + 1) = q \o next.line
      BY <1>4, <1>6, <1>17, <2>2, <2>4, <2>5
    <2>7. next.line # <<>> /\ next.line[1] # "gt"
      <3>1. Append(line, b) # <<>> /\ Append(line, b)[1] = IF line = <<>> THEN b ELSE line[1]
        <4>1. line # <<>> => 1 \in 1..Len(line)
          BY EmptySeq
        <4>2. b \in LineBytes
          BY <1>17 DEF LineBytes
        <4>3. QED
          BY <4>1, <4>2, AppendProperties
      <3>2. QED
        BY <1>7, <1>17, <2>4, <3>1
    <2>8. AtPrompt(t) => b = "sp"
      BY <1>2, <1>9, <1>17
    <2>9. QED
      BY <1>11, <2>4, <2>6, <2>7, <2>8 DEF t, n, next
  <1>18. QED
    BY <1>14, <1>15, <1>16, <1>17

\* The events from a line on: the next byte adds its own.
LEMMA EventsFromAppend ==
    ASSUME NEW s \in Seq(Bytes), NEW b \in Bytes, NEW from \in Starts(s)
    PROVE  LET t == Append(s, b)
           IN  /\ EventsOf(SubSeq(s, from, Len(s))) \in Seq(Events)
               /\ EventsOf(SubSeq(t, from, Len(t)))
                    = EventsOf(SubSeq(s, from, Len(s))) \o EventsAt(t, Len(s) + 1)
  <1> DEFINE t == Append(s, b)
             n == Len(s)
             d == from - 1
             u == SubSeq(s, from, n)
             v == SubSeq(t, from, n + 1)
             i == (n - from) + 2
  <1>1. /\ n \in Nat
        /\ t \in Seq(Bytes) /\ Len(t) = n + 1 /\ t[n + 1] = b
        /\ \A j \in 1..n : t[j] = s[j]
    BY AppendedByte
  <1>2. /\ from \in 1..(n + 1)
        /\ from = 1 \/ t[from - 1] = "nl"
    <2>1. from \in 1..(n + 1) /\ (from = 1 \/ s[from - 1] = "nl")
      BY DEF Starts
    <2>2. from # 1 => from - 1 \in 1..n
      BY <1>1, <2>1
    <2>3. QED
      BY <1>1, <2>1, <2>2
  <1> HIDE DEF t, n
  <1>3. /\ d \in Nat /\ i \in Nat \ {0} /\ i - 1 \in Nat /\ i + d = n + 1
        /\ d = 0 \/ t[d] = "nl"
    BY <1>1, <1>2
  <1>4. \A j \in Int : /\ j \in 1..i <=> j + d \in from..(n + 1)
                       /\ j \in 1..(i - 1) <=> j + d \in from..n
                       /\ j + d = (from + j) - 1
    BY <1>1, <1>2
  <1>5. /\ u \in Seq(Bytes) /\ Len(u) = i - 1
        /\ \A j \in 1..(i - 1) : u[j] = s[j + d]
    <2>1. n = Len(s)
      BY DEF n
    <2>2. \A j \in from..n : s[j] \in Bytes
      BY <1>2, <2>1, ElementOfSeq
    <2>3. /\ u \in Seq(Bytes)
          /\ Len(u) = IF from <= n THEN (n - from) + 1 ELSE 0
          /\ \A j \in 1..((n - from) + 1) : u[j] = s[(from + j) - 1]
      BY <1>1, <1>2, <2>1, <2>2, SubSeqProperties
    <2>4. QED
      BY <1>1, <1>2, <1>4, <2>3
  <1>6. /\ v \in Seq(Bytes) /\ Len(v) = i
        /\ \A j \in 1..i : v[j] = t[j + d]
    <2>1. n + 1 = Len(t)
      BY <1>1
    <2>2. \A j \in from..(n + 1) : t[j] \in Bytes
      BY <1>1, <1>2, ElementOfSeq
    <2>3. /\ v \in Seq(Bytes)
          /\ Len(v) = IF from <= n + 1 THEN ((n + 1) - from) + 1 ELSE 0
          /\ \A j \in 1..(((n + 1) - from) + 1) : v[j] = t[(from + j) - 1]
      BY <1>1, <1>2, <2>1, <2>2, SubSeqProperties
    <2>4. QED
      BY <1>1, <1>2, <1>4, <2>3
  <1> HIDE DEF d, u, v, i
  <1>7. v = Append(u, b)
    <2>1. /\ Append(u, b) \in Seq(Bytes) /\ Len(Append(u, b)) = Len(u) + 1
          /\ \A j \in 1..Len(u) : Append(u, b)[j] = u[j]
          /\ Append(u, b)[Len(u) + 1] = b
      BY <1>5, AppendProperties
    <2>2. Len(Append(u, b)) = i
      BY <1>3, <1>5, <2>1
    <2>3. ASSUME NEW j \in 1..i PROVE v[j] = Append(u, b)[j]
      <3>1. CASE j = i
        <4>1. v[i] = t[i + d] /\ t[i + d] = b
          BY <1>1, <1>3, <1>6, <3>1
        <4>2. Len(u) + 1 = i
          BY <1>3, <1>5
        <4>3. QED
          BY <2>1, <3>1, <4>1, <4>2
      <3>2. CASE j # i
        <4>1. j \in 1..(i - 1) /\ j + d \in from..n /\ j + d \in 1..n
          BY <1>1, <1>2, <1>3, <1>4, <3>2
        <4>2. v[j] = s[j + d] /\ u[j] = s[j + d]
          BY <1>1, <1>5, <1>6, <2>3, <4>1
        <4>3. QED
          BY <1>5, <2>1, <4>1, <4>2
      <3>3. QED
        BY <3>1, <3>2
    <2>4. QED
      BY <1>6, <2>1, <2>2, <2>3, SeqEqual
  <1>8. /\ EventsOf(u) \in Seq(Events)
        /\ EventsOf(v) = EventsOf(u) \o EventsAt(v, i)
    <2>1. Len(u) + 1 = i
      BY <1>3, <1>5
    <2>2. QED
      BY <1>5, <1>7, <2>1, EventsOfAppend
  <1>9. EventsAt(t, n + 1) = EventsAt(v, i)
    <2>1. \A j \in 1..i : v[j] \in Bytes
      BY <1>6, ElementOfSeq
    <2>2. i \in 1..i /\ \A j \in 1..(i - 1) : j \in 1..i
      BY <1>3
    <2> DEFINE p == n + 1
    <2>3. Shifted(v, t, i, d, p) /\ v[i] = t[p]
      BY <1>3, <1>6, <2>1, <2>2 DEF Shifted
    <2> HIDE DEF p
    <2>4. EventsAt(t, p) = EventsAt(v, i)
      BY <1>3, <2>3, EventsAtShifted
    <2>5. QED
      BY <2>4 DEF p
  <1>10. QED
    BY <1>1, <1>3, <1>8, <1>9 DEF n, u, v, t

Scans == [events : Seq(Events), line : Seq(LineBytes), prompted : BOOLEAN]

\* The scan of a byte that is text.
LEMMA ScanText ==
    ASSUME NEW scan \in Scans, NEW b,
           b # "nl", ~(b = "gt" /\ scan.line = <<>>), ~(b = "sp" /\ scan.prompted)
    PROVE  Scan(scan, b)
             = [events |-> scan.events, line |-> Append(scan.line, b), prompted |-> FALSE]
  <1>1. scan = [events |-> scan.events, line |-> scan.line, prompted |-> scan.prompted]
    BY DEF Scans
  <1>2. Scan(scan, b) = [scan EXCEPT !.line = Append(@, b), !.prompted = FALSE]
    BY DEF Scan
  <1>3. QED
    BY <1>1, <1>2

LEMMA ScanType ==
    ASSUME NEW scan \in Scans, NEW b \in Bytes
    PROVE  Scan(scan, b) \in Scans
  <1>1. /\ scan.events \in Seq(Events) /\ scan.line \in Seq(LineBytes) /\ scan.prompted \in BOOLEAN
        /\ scan = [events |-> scan.events, line |-> scan.line, prompted |-> scan.prompted]
    BY DEF Scans
  <1>2. <<>> \in Seq(LineBytes) /\ Prompt \in Events
    BY DEF Events
  <1>3. CASE b = "nl"
    <2>1. LineEvents(scan.line) \in Seq(Events)
      BY <1>1, LineEventsType
    <2>2. scan.events \o LineEvents(scan.line) \in Seq(Events)
      BY <1>1, <2>1, ConcatProperties
    <2>3. QED
      BY <1>2, <1>3, <2>2 DEF Scan, Scans
  <1>4. CASE b = "gt" /\ scan.line = <<>>
    <2>1. Append(scan.events, Prompt) \in Seq(Events)
      BY <1>1, <1>2, AppendProperties
    <2>2. QED
      BY <1>2, <1>4, <2>1 DEF Scan, Scans
  <1>5. CASE b = "sp" /\ scan.prompted
    BY <1>5 DEF Scan
  <1>6. CASE b # "nl" /\ ~(b = "gt" /\ scan.line = <<>>) /\ ~(b = "sp" /\ scan.prompted)
    <2>1. Scan(scan, b)
            = [events |-> scan.events, line |-> Append(scan.line, b), prompted |-> FALSE]
      BY <1>6, ScanText
    <2>2. b \in LineBytes
      BY <1>6 DEF LineBytes
    <2>3. Append(scan.line, b) \in Seq(LineBytes)
      BY <1>1, <2>2, AppendProperties
    <2>4. QED
      BY <1>1, <2>1, <2>3 DEF Scans
  <1>7. QED
    BY <1>3, <1>4, <1>5, <1>6

\* A line that has just begun: nothing has been read of it.
LEMMA NewLineMatches ==
    ASSUME NEW t \in Seq(Bytes), LineStart(t, Len(t) + 1) = Len(t) + 1
    PROVE  Matches(t, <<>>, FALSE)
  <1> DEFINE n == Len(t)
  <1>1. n \in Nat /\ n + 1 \in Nat \ {0}
    OBVIOUS
  <1>2. /\ TextBefore(t, n + 1) \in Seq(LineBytes)
        /\ Len(TextBefore(t, n + 1)) <= (n + 1) - LineStart(t, n + 1)
    <2>1. \A j \in 1..((n + 1) - 1) : j \in 1..n
      BY <1>1
    <2>2. \A j \in 1..((n + 1) - 1) : t[j] \in Bytes
      BY <2>1, ElementOfSeq
    <2> HIDE DEF n
    <2>3. QED
      BY <1>1, <2>2, TextType
  <1>3. TextBefore(t, n + 1) = <<>>
    <2>1. Len(TextBefore(t, n + 1)) = 0
      BY <1>1, <1>2
    <2>2. QED
      BY <1>2, <2>1, EmptySeq
  <1>4. <<>> \in Seq({"sp"}) /\ <<>> \o <<>> = <<>>
    BY EmptySeq, ConcatEmptySeq
  <1>5. AtPrompt(t)
    BY DEF AtPrompt
  <1>6. QED
    BY <1>3, <1>4, <1>5 DEF Matches

Join(u, v) == u \o v

LEMMA JoinAssociative ==
    ASSUME NEW S, NEW u \in Seq(S), NEW v \in Seq(S), NEW w \in Seq(S)
    PROVE  Join(Join(u, v), w) = Join(u, Join(v, w))
  BY ConcatAssociative, SMTT(30) DEF Join

LEMMA AddedToBoth ==
    ASSUME NEW S, NEW a \in Seq(S), NEW b \in Seq(S), NEW c \in Seq(S), NEW d \in Seq(S),
           NEW e \in Seq(S), Join(a, b) = Join(c, d)
    PROVE  Join(a, Join(b, e)) = Join(c, Join(d, e))
  <1>1. Join(Join(a, b), e) = Join(a, Join(b, e))
    BY JoinAssociative
  <1>2. Join(Join(c, d), e) = Join(c, Join(d, e))
    BY JoinAssociative
  <1>3. QED
    BY <1>1, <1>2

\* One byte more: the scan goes on following the stream.
LEMMA FollowsNext ==
    ASSUME NEW s \in Seq(Bytes), NEW b \in Bytes, NEW done \in Seq(Events), NEW scan \in Scans,
           Follows(s, done \o scan.events, scan.line, scan.prompted)
    PROVE  LET next == Scan(scan, b)
           IN  Follows(Append(s, b), done \o next.events, next.line, next.prompted)
  <1> DEFINE t == Append(s, b)
             n == Len(s)
             next == Scan(scan, b)
             new == EventsAt(t, n + 1)
  <1>1. /\ n \in Nat /\ n + 1 \in Nat \ {0}
        /\ t \in Seq(Bytes) /\ Len(t) = n + 1 /\ t[n + 1] = b
        /\ \A i \in 1..n : t[i] = s[i]
    BY AppendedByte
  <1>2. /\ scan.events \in Seq(Events) /\ scan.line \in Seq(LineBytes) /\ scan.prompted \in BOOLEAN
        /\ scan = [events |-> scan.events, line |-> scan.line, prompted |-> scan.prompted]
    BY DEF Scans
  <1>3. next.events \in Seq(Events)
    <2>1. next \in Scans
      BY ScanType
    <2>2. QED
      BY <2>1 DEF Scans
  <1>4. new \in Seq(Events)
    <2>1. n + 1 \in 1..Len(t)
      BY <1>1
    <2> HIDE DEF t, n
    <2>2. QED
      BY <1>1, <2>1, EventsAtType
  <1>5. SUFFICES ASSUME NEW from \in Starts(t), PlainFrom(t, from)
                 PROVE  /\ Matches(t, next.line, next.prompted)
                        /\ \E before \in Seq(Events) :
                              /\ done \o next.events
                                   = before \o EventsOf(SubSeq(t, from, Len(t)))
                              /\ from = 1 => before = <<>>
    BY DEF Follows
  <1>6. CASE from \in Starts(s)
    <2>1. PlainFrom(s, from)
      <3>1. from \in Nat /\ 1 <= from
        BY <1>6 DEF Starts
      <3>2. QED
        BY <1>5, <3>1, PlainFromShorter
    <2> DEFINE old == EventsOf(SubSeq(s, from, n))
    <2>2. /\ Matches(s, scan.line, scan.prompted)
          /\ \E before \in Seq(Events) : /\ done \o scan.events = before \o old
                                         /\ from = 1 => before = <<>>
      BY <1>6, <2>1 DEF Follows
    <2>3. PICK before \in Seq(Events) : /\ done \o scan.events = before \o old
                                        /\ from = 1 => before = <<>>
      BY <2>2
    <2>4. next.events = scan.events \o new /\ Matches(t, next.line, next.prompted)
      BY <1>2, <1>5, <1>6, <2>2, MatchesNext
    <2>5. old \in Seq(Events) /\ EventsOf(SubSeq(t, from, Len(t))) = old \o new
      BY <1>6, EventsFromAppend
    <2> HIDE DEF t, n, next, new, old
    <2>6. done \o next.events = before \o (old \o new)
      <3> DEFINE seen == scan.events
      <3>1. seen \in Seq(Events)
        BY <1>2
      <3> HIDE DEF seen
      <3>2. Join(done, seen) = Join(before, old)
        BY <2>3 DEF Join, seen
      <3>3. Join(done, Join(seen, new)) = Join(before, Join(old, new))
        BY <1>4, <2>5, <3>1, <3>2, AddedToBoth
      <3>4. QED
        BY <2>4, <3>3 DEF Join, seen
    <2>7. QED
      BY <2>3, <2>4, <2>5, <2>6
  <1>7. CASE from \notin Starts(s)
    <2>1. from = (n + 1) + 1 /\ b = "nl"
      <3>1. from \in 1..((n + 1) + 1) /\ (from = 1 \/ t[from - 1] = "nl")
        BY <1>1 DEF Starts
      <3>2. from \notin 1..(n + 1) \/ (from # 1 /\ s[from - 1] # "nl")
        BY <1>7 DEF Starts
      <3>3. from \in 1..(n + 1) /\ from # 1 => from - 1 \in 1..n
        BY <1>1
      <3>4. from \notin 1..(n + 1)
        BY <1>1, <3>1, <3>2, <3>3
      <3> HIDE DEF t, n
      <3>5. from = (n + 1) + 1
        BY <1>1, <3>1, <3>4
      <3>6. from - 1 = n + 1 /\ from # 1
        BY <1>1, <3>5
      <3>7. QED
        BY <1>1, <3>1, <3>5, <3>6
    <2>2. LineStart(t, Len(t) + 1) = Len(t) + 1
      BY <1>1, <2>1, LineStartNext
    <2>3. next.line = <<>> /\ next.prompted = FALSE
      BY <2>1 DEF Scan
    <2>4. EventsOf(SubSeq(t, from, Len(t))) = <<>>
      <3>1. Len(t) < from /\ from \in Int /\ Len(t) \in Int
        BY <1>1, <2>1
      <3>2. SubSeq(t, from, Len(t)) = <<>>
        BY <3>1, SubSeqEmpty
      <3>3. QED
        BY <3>2, EventsOfEmpty
    <2>5. from # 1
      BY <1>1, <2>1
    <2>6. Matches(t, <<>>, FALSE)
      BY <1>1, <2>2, NewLineMatches
    <2> HIDE DEF t, n, next
    <2>7. /\ done \o next.events \in Seq(Events)
          /\ (done \o next.events) \o <<>> = done \o next.events
      BY <1>3, ConcatProperties, ConcatEmptySeq
    <2>8. QED
      BY <2>3, <2>4, <2>5, <2>6, <2>7
  <1>8. QED
    BY <1>6, <1>7

\* Whatever bytes it is given, a scan finds Lines and Prompts.
LEMMA ScannedType ==
    ASSUME NEW s \in Seq(Bytes)
    PROVE  Scanned(s) \in Scans
  <1> DEFINE T == {u \in Seq(Bytes) : Scanned(u) \in Scans}
  <1>1. <<>> \in T
    <2>1. Fresh \in Scans
      BY DEF Fresh, Scans
    <2>2. QED
      BY <2>1, ScannedEmpty, EmptySeq
  <1>2. ASSUME NEW u \in Seq(Bytes), NEW e \in Bytes, u \in T PROVE Append(u, e) \in T
    <2>1. Append(u, e) \in Seq(Bytes)
      BY AppendProperties
    <2>2. Scanned(Append(u, e)) \in Scans
      BY <1>2, ScannedAppend, ScanType
    <2>3. QED
      BY <2>1, <2>2
  <1>3. Seq(Bytes) \subseteq T
    <2> HIDE DEF T
    <2>1. QED
      BY <1>1, <1>2, SeqInduction
  <1>4. QED
    BY <1>3

\* A read of one byte more.
LEMMA AppendedTo ==
    ASSUME NEW u \in Seq(Bytes), NEW v \in Seq(Bytes), NEW b \in Bytes
    PROVE  u \o Append(v, b) = Append(u \o v, b)
  <1>1. /\ Append(u \o v, b) = (u \o v) \o <<b>>
        /\ Append(v, b) = v \o <<b>> /\ <<b>> \in Seq(Bytes)
    BY ConcatProperties, AppendIsConcat
  <1>2. QED
    BY <1>1, ConcatAssociative

\* Scanning the kept line again finds nothing in it.
LEMMA ScannedQuiet ==
    ASSUME NEW l \in Seq(LineBytes), l # <<>> => l[1] # "gt"
    PROVE  Scanned(l) = [events |-> <<>>, line |-> l, prompted |-> FALSE]
  <1> DEFINE Quiet(u) == (u # <<>> => u[1] # "gt") =>
                            Scanned(u) = [events |-> <<>>, line |-> u, prompted |-> FALSE]
             T == {u \in Seq(LineBytes) : Quiet(u)}
  <1>1. <<>> \in T
    BY ScannedEmpty, EmptySeq DEF Fresh
  <1>2. ASSUME NEW u \in Seq(LineBytes), NEW e \in LineBytes, u \in T PROVE Append(u, e) \in T
    <2> DEFINE v == Append(u, e)
    <2>1. /\ v \in Seq(LineBytes) /\ v # <<>>
          /\ v[1] = IF u = <<>> THEN e ELSE u[1]
      <3>1. u # <<>> => 1 \in 1..Len(u)
        BY EmptySeq
      <3>2. QED
        BY <3>1, AppendProperties
    <2>2. SUFFICES ASSUME v[1] # "gt"
                   PROVE  Scanned(v) = [events |-> <<>>, line |-> v, prompted |-> FALSE]
      BY <2>1
    <2>3. Scanned(u) = [events |-> <<>>, line |-> u, prompted |-> FALSE]
      BY <1>2, <2>1, <2>2
    <2>4. ~(e = "gt" /\ u = <<>>) /\ e # "nl"
      BY <2>1, <2>2 DEF LineBytes
    <2>5. Scan(Scanned(u), e) = [events |-> <<>>, line |-> v, prompted |-> FALSE]
      <3> DEFINE scan == [events |-> <<>>, line |-> u, prompted |-> FALSE]
      <3>1. scan.events = <<>> /\ scan.line = u /\ scan.prompted = FALSE
        OBVIOUS
      <3>2. scan \in Scans
        BY EmptySeq DEF Scans
      <3> HIDE DEF scan
      <3>3. Scan(scan, e) = [events |-> <<>>, line |-> Append(u, e), prompted |-> FALSE]
        BY <2>4, <3>1, <3>2, ScanText
      <3>4. QED
        BY <2>3, <3>3 DEF scan
    <2>6. QED
      BY <2>5, ScannedAppend
  <1>3. Seq(LineBytes) \subseteq T
    <2> HIDE DEF T
    <2>1. QED
      BY <1>1, <1>2, SeqInduction
  <1>4. QED
    BY <1>3

\* One read: the scan of the kept line and the new bytes follows the stream.
LEMMA ReadFollows ==
    ASSUME NEW s \in Seq(Bytes), NEW found \in Seq(Events), NEW line \in Seq(LineBytes),
           Follows(s, found, line, FALSE), NEW data \in Seq(Bytes)
    PROVE  LET scan == Scanned(line \o data)
           IN  Follows(s \o data, found \o scan.events, scan.line, scan.prompted)
  <1> DEFINE Good(d) == LET scan == Scanned(line \o d)
                        IN  Follows(s \o d, found \o scan.events, scan.line, scan.prompted)
             T == {d \in Seq(Bytes) : Good(d)}
  <1>1. line \in Seq(Bytes)
    BY SeqMonotonic DEF LineBytes
  <1>2. <<>> \in T
    <2>1. line \o <<>> = line /\ s \o <<>> = s /\ found \o <<>> = found /\ <<>> \in Seq(Bytes)
      BY <1>1, ConcatEmptySeq, EmptySeq
    <2>2. SUFFICES Follows(s, found \o Scanned(line).events, Scanned(line).line,
                           Scanned(line).prompted)
      BY <2>1
    <2>3. SUFFICES ASSUME NEW from \in Starts(s), PlainFrom(s, from)
                   PROVE  /\ Scanned(line).line = line
                          /\ Scanned(line).prompted = FALSE
                          /\ found \o Scanned(line).events = found
      BY DEF Follows
    <2>4. line # <<>> => line[1] # "gt"
      BY <2>3 DEF Follows, Matches
    <2>5. Scanned(line) = [events |-> <<>>, line |-> line, prompted |-> FALSE]
      BY <2>4, ScannedQuiet
    <2>6. QED
      BY <2>1, <2>5
  <1>3. ASSUME NEW d \in Seq(Bytes), NEW b \in Bytes, d \in T PROVE Append(d, b) \in T
    <2> DEFINE scan == Scanned(line \o d)
    <2>1. line \o d \in Seq(Bytes) /\ s \o d \in Seq(Bytes)
      BY <1>1, ConcatProperties
    <2>2. line \o Append(d, b) = Append(line \o d, b) /\ s \o Append(d, b) = Append(s \o d, b)
      BY <1>1, AppendedTo
    <2>3. scan \in Scans
      BY <2>1, ScannedType
    <2>4. Scanned(Append(line \o d, b)) = Scan(scan, b)
      BY <2>1, ScannedAppend
    <2>5. Follows(s \o d, found \o scan.events, scan.line, scan.prompted)
      BY <1>3
    <2>6. LET next == Scan(scan, b)
          IN  Follows(Append(s \o d, b), found \o next.events, next.line, next.prompted)
      <3> HIDE DEF scan
      <3>1. QED
        BY <2>1, <2>3, <2>5, FollowsNext
    <2>7. Append(d, b) \in Seq(Bytes)
      BY AppendProperties
    <2>8. QED
      BY <2>2, <2>4, <2>6, <2>7
  <1>4. Seq(Bytes) \subseteq T
    <2> HIDE DEF T
    <2>1. QED
      BY <1>2, <1>3, SeqInduction
  <1>5. QED
    BY <1>4

-----------------------------------------------------------------------------
(***************************************************************************)
(* The specification.  Whatever is cut off, the line that is kept has no   *)
(* line end in it and fits; and where the stream is plain nothing is cut   *)
(* off, and the scan follows it.                                           *)
(***************************************************************************)
\* What is kept of a line fits the buffer.
LEMMA KeepType ==
    ASSUME NEW line \in Seq(LineBytes)
    PROVE  Keep(line) \in Seq(LineBytes) /\ Len(Keep(line)) <= MaxBufferSize
  <1> DEFINE n == Len(line)
             low == (n - MaxBufferSize) + 1
  <1>1. n \in Nat /\ MaxBufferSize \in Nat /\ MaxBufferSize # 0
    BY MaxBufferSizeAssumption
  <1>2. CASE n > MaxBufferSize
    <2>1. Keep(line) = SubSeq(line, low, n)
      BY <1>2 DEF Keep
    <2>2. low \in Int /\ n \in Int /\ 1 <= low /\ low <= n /\ (n - low) + 1 = MaxBufferSize
      BY <1>1, <1>2
    <2>3. \A i \in low..n : line[i] \in LineBytes
      <3>1. \A i \in low..n : i \in 1..n
        BY <2>2
      <3>2. QED
        BY <3>1, ElementOfSeq
    <2> HIDE DEF low, n
    <2>4. /\ SubSeq(line, low, n) \in Seq(LineBytes)
          /\ Len(SubSeq(line, low, n)) = IF low <= n THEN (n - low) + 1 ELSE 0
      BY <2>2, <2>3, SubSeqProperties
    <2>5. QED
      BY <1>1, <2>1, <2>2, <2>4
  <1>3. CASE ~(n > MaxBufferSize)
    BY <1>1, <1>3 DEF Keep
  <1>4. QED
    BY <1>2, <1>3

\* Nothing of a plain stream is cut off.
LEMMA KeptFollows ==
    ASSUME NEW s \in Seq(Bytes), NEW found, NEW line \in Seq(LineBytes), NEW prompted \in BOOLEAN,
           Follows(s, found, line, prompted)
    PROVE  Follows(s, found, Keep(line), FALSE)
  <1>1. SUFFICES ASSUME NEW from \in Starts(s), PlainFrom(s, from)
                 PROVE  /\ Matches(s, Keep(line), FALSE)
                        /\ \E before \in Seq(Events) :
                              /\ found = before \o EventsOf(SubSeq(s, from, Len(s)))
                              /\ from = 1 => before = <<>>
    BY DEF Follows
  <1>2. /\ Matches(s, line, prompted)
        /\ \E before \in Seq(Events) : /\ found = before \o EventsOf(SubSeq(s, from, Len(s)))
                                       /\ from = 1 => before = <<>>
    BY <1>1 DEF Follows
  <1>3. Keep(line) = line
    BY <1>1, <1>2, LineFits
  <1>4. Matches(s, line, FALSE)
    BY <1>2 DEF Matches
  <1>5. QED
    BY <1>2, <1>3, <1>4

\* The inductive invariant.  EventsOfStream says nothing of the unfinished line,
\* from which the next read starts; Follows says what it is, for every line that
\* the stream has been plain from.
StreamInv == TypeOK /\ Follows(received, out, buffer, FALSE)

\* Nothing received, nothing found: what the program starts with and clear leaves.
LEMMA NothingReceived ==
    /\ <<>> \in Seq(LineBytes) /\ <<>> \in Seq(Bytes) /\ <<>> \in Seq(Events) /\ Len(<<>>) = 0
    /\ 0 <= MaxBufferSize /\ 0 <= MaxReceived
    /\ Follows(<<>>, <<>>, <<>>, FALSE)
  <1>1. /\ <<>> \in Seq(LineBytes) /\ <<>> \in Seq(Bytes) /\ <<>> \in Seq(Events)
        /\ Len(<<>>) = 0
    BY EmptySeq
  <1>2. 0 <= MaxBufferSize /\ 0 <= MaxReceived
    BY MaxBufferSizeAssumption, MaxReceivedAssumption
  <1>3. LineStart(<<>>, Len(<<>>) + 1) = Len(<<>>) + 1
    <2>1. Len(<<>>) + 1 = 1
      BY <1>1
    <2>2. LineStart(<<>>, 1) \in 1..1
      BY LineStartFacts
    <2>3. QED
      BY <2>1, <2>2
  <1>4. Matches(<<>>, <<>>, FALSE)
    BY <1>1, <1>3, NewLineMatches
  <1>5. ASSUME NEW from \in Starts(<<>>)
        PROVE  <<>> = <<>> \o EventsOf(SubSeq(<<>>, from, Len(<<>>)))
    <2>1. from = 1
      BY <1>1, <1>5 DEF Starts
    <2>2. SubSeq(<<>>, from, Len(<<>>)) = <<>>
      BY <1>1, <2>1, SubSeqEmpty
    <2>3. QED
      BY <1>1, <2>2, EventsOfEmpty, ConcatEmptySeq
  <1>6. QED
    BY <1>1, <1>2, <1>4, <1>5 DEF Follows

LEMMA InitStream == Init => StreamInv
  <1> SUFFICES ASSUME Init PROVE StreamInv
    OBVIOUS
  <1>1. buffer = <<>> /\ received = <<>> /\ out = <<>>
    BY DEF Init
  <1>2. QED
    BY <1>1, NothingReceived DEF StreamInv, TypeOK, LineBytes, Events

LEMMA NextStream == StreamInv /\ [Next]_vars => StreamInv'
  <1> SUFFICES ASSUME StreamInv, [Next]_vars PROVE StreamInv'
    OBVIOUS
  <1>1. /\ buffer \in Seq(LineBytes) /\ received \in Seq(Bytes) /\ out \in Seq(Events)
        /\ Len(received) <= MaxReceived /\ MaxReceived \in Nat
        /\ Follows(received, out, buffer, FALSE)
    BY MaxReceivedAssumption DEF StreamInv, TypeOK, LineBytes, Events
  <1>2. ASSUME NEW n \in 1..(MaxReceived - Len(received)), NEW data \in [1..n -> Bytes],
               ProcessData(data)
        PROVE  StreamInv'
    <2> DEFINE scan == Scanned(buffer \o data)
    <2>1. data \in Seq(Bytes) /\ Len(data) = n
      OBVIOUS
    <2>2. /\ buffer' = Keep(scan.line) /\ out' = out \o scan.events
          /\ received' = received \o data
      BY <1>2 DEF ProcessData
    <2>3. scan \in Scans
      <3>1. buffer \in Seq(Bytes)
        BY <1>1, SeqMonotonic DEF LineBytes
      <3>2. buffer \o data \in Seq(Bytes)
        BY <2>1, <3>1, ConcatProperties
      <3>3. QED
        BY <3>2, ScannedType
    <2>4. Follows(received \o data, out \o scan.events, scan.line, scan.prompted)
      BY <1>1, <2>1, ReadFollows
    <2> HIDE DEF scan
    <2>5. /\ scan.events \in Seq(Events) /\ scan.line \in Seq(LineBytes)
          /\ scan.prompted \in BOOLEAN
      BY <2>3 DEF Scans
    <2>6. buffer' \in Seq(LineBytes) /\ Len(buffer') <= MaxBufferSize
      BY <2>2, <2>5, KeepType
    <2>7. out' \in Seq(Events)
      BY <1>1, <2>2, <2>5, ConcatProperties
    <2>8. received' \in Seq(Bytes) /\ Len(received') <= MaxReceived
      <3>1. /\ received \o data \in Seq(Bytes)
            /\ Len(received \o data) = Len(received) + n
        BY <1>1, <2>1, ConcatProperties
      <3>2. Len(received) + n <= MaxReceived
        BY <1>1
      <3>3. QED
        BY <2>2, <3>1, <3>2
    <2>9. Follows(received', out', buffer', FALSE)
      <3>1. received \o data \in Seq(Bytes)
        BY <2>2, <2>8
      <3>2. QED
        BY <2>2, <2>4, <2>5, <3>1, KeptFollows
    <2>10. QED
      BY <2>6, <2>7, <2>8, <2>9 DEF StreamInv, TypeOK, LineBytes, Events
  <1>3. CASE Read
    BY <1>2, <1>3 DEF Read
  <1>4. CASE Clear
    <2>1. buffer' = <<>> /\ received' = <<>> /\ out' = <<>>
      BY <1>4 DEF Clear
    <2>2. QED
      BY <2>1, NothingReceived DEF StreamInv, TypeOK, LineBytes, Events
  <1>5. CASE UNCHANGED vars
    BY <1>5 DEF vars, StreamInv, TypeOK
  <1>6. QED
    BY <1>3, <1>4, <1>5 DEF Next

LEMMA StreamIsFollowed == Spec => []StreamInv
  BY InitStream, NextStream, PTL DEF Spec

\* IsSuffix of the community modules, which compares the reversed sequences.
LEMMA SuffixOfConcat ==
    ASSUME NEW S, NEW u \in Seq(S), NEW v \in Seq(S)
    PROVE  IsSuffix(v, u \o v)
  <1> DEFINE w == u \o v
             m == Len(v)
             n == Len(w)
             back(x) == Reverse(x)
  <1>1. /\ m \in Nat /\ n \in Nat /\ Len(u) \in Nat /\ n = Len(u) + m
        /\ w \in Seq(S)
        /\ \A i \in 1..n : w[i] = IF i <= Len(u) THEN u[i] ELSE v[i - Len(u)]
    BY ConcatProperties, LenProperties
  <1> HIDE DEF w
  <1>2. /\ back(v) \in Seq(S) /\ Len(back(v)) = m
        /\ \A i \in 1..m : back(v)[i] = v[(m - i) + 1]
    <2>1. \A i \in 1..m : v[(m - i) + 1] \in S
      <3>1. \A i \in 1..m : (m - i) + 1 \in 1..m
        BY <1>1
      <3>2. QED
        BY <3>1, ElementOfSeq
    <2>2. back(v) = [i \in 1..m |-> v[(m - i) + 1]]
      BY DEF Reverse
    <2> HIDE DEF m, back
    <2>3. QED
      BY <1>1, <2>1, <2>2
  <1>3. /\ back(w) \in Seq(S) /\ Len(back(w)) = n
        /\ \A i \in 1..n : back(w)[i] = w[(n - i) + 1]
    <2>1. \A i \in 1..n : w[(n - i) + 1] \in S
      <3>1. \A i \in 1..n : (n - i) + 1 \in 1..n
        BY <1>1
      <3>2. QED
        BY <1>1, <3>1, ElementOfSeq
    <2>2. back(w) = [i \in 1..n |-> w[(n - i) + 1]]
      BY DEF Reverse
    <2> HIDE DEF n, back
    <2>3. QED
      BY <1>1, <2>1, <2>2
  <1> HIDE DEF m, n, back
  <1>4. m <= n
    BY <1>1
  <1>5. ASSUME NEW i \in 1..m PROVE back(v)[i] = back(w)[i]
    <2>1. i \in 1..n /\ (n - i) + 1 \in 1..n
      BY <1>1
    <2>2. ~((n - i) + 1 <= Len(u)) /\ ((n - i) + 1) - Len(u) = (m - i) + 1
      BY <1>1
    <2>3. w[(n - i) + 1] = v[(m - i) + 1]
      BY <1>1, <2>1, <2>2
    <2>4. QED
      BY <1>2, <1>3, <2>1, <2>3
  <1>6. SubSeq(back(v), 1, m) = SubSeq(back(w), 1, m)
    <2> DEFINE x == SubSeq(back(v), 1, m)
               y == SubSeq(back(w), 1, m)
    <2>1. /\ \A i \in 1..m : back(v)[i] \in S
          /\ \A i \in 1..m : back(w)[i] \in S
      BY <1>1, <1>2, <1>3, <1>4, ElementOfSeq
    <2>2. /\ 1 \in Int /\ m \in Int /\ (m - 1) + 1 = m /\ (1 <= m \/ m = 0)
          /\ \A i \in 1..m : (1 + i) - 1 = i
      BY <1>1
    <2>3. /\ x \in Seq(S) /\ Len(x) = IF 1 <= m THEN (m - 1) + 1 ELSE 0
          /\ \A i \in 1..((m - 1) + 1) : x[i] = back(v)[(1 + i) - 1]
      BY <2>1, <2>2, SubSeqProperties
    <2>4. /\ y \in Seq(S) /\ Len(y) = IF 1 <= m THEN (m - 1) + 1 ELSE 0
          /\ \A i \in 1..((m - 1) + 1) : y[i] = back(w)[(1 + i) - 1]
      BY <2>1, <2>2, SubSeqProperties
    <2> HIDE DEF x, y
    <2>5. Len(x) = m /\ Len(y) = m /\ \A i \in 1..m : x[i] = y[i]
      BY <1>5, <2>2, <2>3, <2>4
    <2>6. x = y
      BY <2>3, <2>4, <2>5, SeqEqual
    <2>7. QED
      BY <2>6 DEF x, y
  <1>7. QED
    BY <1>2, <1>3, <1>4, <1>6 DEF IsSuffix, IsPrefix, back, m, n, w

\* The line that is kept between two reads has no line end in it and fits the
\* buffer: the truncation of process_data (buffer.rs) leaves nothing to search.
THEOREM LineBufferTypeCorrect == Spec => []TypeOK
  <1>1. StreamInv => TypeOK
    BY DEF StreamInv
  <1>2. QED
    BY <1>1, StreamIsFollowed, PTL

\* The lines and prompts reported for a plain stream are those of the stream,
\* whatever reads it came in and for every size of the buffer: process_data
\* finds each one once, complete and in order.
THEOREM FindsEventsOfStream == Spec => []EventsOfStream
  <1>1. StreamInv => EventsOfStream
    <2>1. SUFFICES ASSUME StreamInv, PlainFrom(received, 1) PROVE out = EventsOf(received)
      BY DEF EventsOfStream
    <2>2. received \in Seq(Bytes) /\ Follows(received, out, buffer, FALSE)
      BY <2>1 DEF StreamInv, TypeOK
    <2>3. 1 \in Starts(received) /\ SubSeq(received, 1, Len(received)) = received
      <3>1. Len(received) \in Nat
        BY <2>2, LenProperties
      <3>2. 1 \in Starts(received)
        BY <3>1 DEF Starts
      <3>3. QED
        BY <2>2, <3>2, SubSeqFull
    <2>4. out = <<>> \o EventsOf(received)
      BY <2>1, <2>2, <2>3 DEF Follows
    <2>5. EventsOf(received) \in Seq(Events)
      BY <2>2, EventsOfAppend DEF Bytes
    <2>6. QED
      BY <2>4, <2>5, ConcatEmptySeq
  <1>2. QED
    BY <1>1, StreamIsFollowed, PTL

\* An overlong line, or one with a blank between its prompts, spoils only its
\* own events: those of the last line are right whatever came before it, since
\* process_data truncates what is left after the scan and never before.
THEOREM ConfinesDamage == Spec => []DamageConfined
  <1>1. StreamInv => DamageConfined
    <2> DEFINE n == Len(received)
               from == IF n > 0 /\ received[n] = "nl" THEN LineStart(received, n)
                       ELSE LineStart(received, n + 1)
               last == SubSeq(received, from, n)
    <2>1. SUFFICES ASSUME StreamInv, PlainFrom(received, from)
                   PROVE  IsSuffix(EventsOf(last), out)
      BY DEF DamageConfined
    <2>2. received \in Seq(Bytes) /\ Follows(received, out, buffer, FALSE) /\ n \in Nat
      BY <2>1, LenProperties DEF StreamInv, TypeOK
    <2>3. from \in Starts(received)
      <3>1. CASE n > 0 /\ received[n] = "nl"
        <4>1. n \in Nat \ {0}
          BY <2>2, <3>1
        <4>2. from = LineStart(received, n)
          BY <3>1
        <4> HIDE DEF from
        <4>3. from \in 1..n /\ (from = 1 \/ received[from - 1] = "nl")
          BY <4>1, <4>2, LineStartFacts
        <4>4. QED
          BY <2>2, <4>3 DEF Starts
      <3>2. CASE ~(n > 0 /\ received[n] = "nl")
        <4>1. n + 1 \in Nat \ {0}
          BY <2>2
        <4>2. from = LineStart(received, n + 1)
          BY <3>2
        <4> HIDE DEF from
        <4>3. from \in 1..(n + 1) /\ (from = 1 \/ received[from - 1] = "nl")
          BY <4>1, <4>2, LineStartFacts
        <4>4. QED
          BY <4>3 DEF Starts
      <3>3. QED
        BY <3>1, <3>2
    <2> HIDE DEF from
    <2>4. PICK before \in Seq(Events) : out = before \o EventsOf(last)
      BY <2>1, <2>2, <2>3 DEF Follows
    <2>5. EventsOf(last) \in Seq(Events)
      BY <2>2, <2>3, EventsFromAppend DEF Bytes
    <2>6. QED
      BY <2>4, <2>5, SuffixOfConcat
  <1>2. QED
    BY <1>1, StreamIsFollowed, PTL
=============================================================================
