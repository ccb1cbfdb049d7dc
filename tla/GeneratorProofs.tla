--------------------------- MODULE GeneratorProofs ---------------------------
(***************************************************************************)
(* Proofs about the self-play generator, for every number of workers and   *)
(* games, every order of seats, every batch size and every interleaving of *)
(* workers and inference threads: a search always stands at the position   *)
(* it decides, a batch gives every request its own results back, and a     *)
(* shard reported as written holds every game once, whole and in order,    *)
(* with the mixed games that were asked for.                               *)
(***************************************************************************)
EXTENDS GameGenerator, SequenceTheorems, FiniteSetTheorems, WellFoundedInduction, TLAPS

-----------------------------------------------------------------------------
(* Natural numbers. *)

\* A set of naturals that is not empty has a least element, and Min picks it.
LEMMA LeastNatural ==
    ASSUME NEW S \in SUBSET Nat, S # {}
    PROVE  Min(S) \in S /\ \A y \in S : Min(S) <= y
  <1>1. PICK x \in S : \A y \in S : ~ (<<y, x>> \in OpToRel(<, Nat))
    BY NatLessThanWellFounded, WFMin, Zenon
  <1>2. ASSUME NEW y \in S
        PROVE  ~ (y < x)
    <2>1. <<y, x>> \in Nat \X Nat /\ <<y, x>>[1] = y /\ <<y, x>>[2] = x
      OBVIOUS
    <2> QED
      BY <1>1, <2>1, Zenon DEF OpToRel
  <1>3. \E m \in S : \A y \in S : m =< y
    BY <1>2
  <1> QED
    BY <1>3 DEF Min

\* Induction, for a set of naturals.
LEMMA SetInduction ==
    ASSUME NEW S, 0 \in S, \A n \in Nat : n \in S => n + 1 \in S
    PROVE  \A n \in Nat : n \in S
  <1> SUFFICES ASSUME Nat \ S # {} PROVE FALSE
    OBVIOUS
  <1> DEFINE x == Min(Nat \ S)
  <1>1. x \in Nat \ S /\ \A y \in Nat \ S : x <= y
    BY LeastNatural
  <1> HIDE DEF x
  <1>2. x # 0 /\ x - 1 \in Nat /\ x = (x - 1) + 1
    BY <1>1
  <1>3. x - 1 \in S
    BY <1>1, <1>2
  <1> QED
    BY <1>1, <1>2, <1>3

-----------------------------------------------------------------------------
(* A batch and its slices. *)

\* The running concatenation that FlattenSeq computes, up to request n.
IsFlattening(f, seqs, n) ==
    f = [i \in 1 .. n |-> IF i = 1 THEN seqs[i] ELSE f[i - 1] \o seqs[i]]

\* The defining equation of the concatenation, at one index.
LEMMA FlatteningAt ==
    ASSUME NEW seqs, NEW n, NEW f, IsFlattening(f, seqs, n), NEW i \in 1 .. n
    PROVE  f[i] = IF i = 1 THEN seqs[i] ELSE f[i - 1] \o seqs[i]
  <1> DEFINE h == [j \in 1 .. n |-> IF j = 1 THEN seqs[j] ELSE f[j - 1] \o seqs[j]]
  <1>1. f = h
    BY DEF IsFlattening
  <1>2. h[i] = IF i = 1 THEN seqs[i] ELSE f[i - 1] \o seqs[i]
    OBVIOUS
  <1> HIDE DEF h
  <1> QED
    BY <1>1, <1>2, Zenon

\* It exists, ...
LEMMA FlatteningExists ==
    ASSUME NEW seqs
    PROVE  \A n \in Nat : \E f : IsFlattening(f, seqs, n)
  <1> DEFINE S == {n \in Nat : \E f : IsFlattening(f, seqs, n)}
  <1>1. 0 \in S
    <2> DEFINE f == [i \in {} |-> 0]
    <2>1. 1 .. 0 = {}
      OBVIOUS
    <2>2. IsFlattening(f, seqs, 0)
      BY <2>1 DEF IsFlattening
    <2> QED
      BY <2>2
  <1>2. ASSUME NEW n \in Nat, n \in S
        PROVE  n + 1 \in S
    <2>1. PICK f : IsFlattening(f, seqs, n)
      BY <1>2
    <2> DEFINE g == [i \in 1 .. n + 1 |->
                        IF i = 1 THEN seqs[i] ELSE f[i - 1] \o seqs[i]]
    <2>2. \A i \in 1 .. n : g[i] = f[i]
      <3> SUFFICES ASSUME NEW i \in 1 .. n PROVE g[i] = f[i]
        OBVIOUS
      <3>1. f[i] = IF i = 1 THEN seqs[i] ELSE f[i - 1] \o seqs[i]
        BY <2>1, FlatteningAt
      <3>2. g[i] = IF i = 1 THEN seqs[i] ELSE f[i - 1] \o seqs[i]
        OBVIOUS
      <3> HIDE DEF g
      <3> QED
        BY <3>1, <3>2
    <2>3. \A i \in 1 .. n + 1 : g[i] = IF i = 1 THEN seqs[i] ELSE g[i - 1] \o seqs[i]
      <3> SUFFICES ASSUME NEW i \in 1 .. n + 1
                   PROVE  g[i] = IF i = 1 THEN seqs[i] ELSE g[i - 1] \o seqs[i]
        OBVIOUS
      <3>1. g[i] = IF i = 1 THEN seqs[i] ELSE f[i - 1] \o seqs[i]
        OBVIOUS
      <3>2. i # 1 => i - 1 \in 1 .. n
        OBVIOUS
      <3> HIDE DEF g
      <3> QED
        BY <2>2, <3>1, <3>2
    <2>4. g = [i \in 1 .. n + 1 |-> g[i]]
      OBVIOUS
    <2> HIDE DEF g
    <2>5. IsFlattening(g, seqs, n + 1)
      BY <2>3, <2>4 DEF IsFlattening
    <2> QED
      BY <2>5
  <1> HIDE DEF S
  <1>3. \A n \in Nat : n \in S
    BY <1>1, <1>2, SetInduction
  <1> QED
    BY <1>3 DEF S

Agree(g, f, n) == \A i \in 1 .. n : g[i] = f[i]

\* ... it is unique, ...
LEMMA FlatteningUnique ==
    ASSUME NEW seqs, NEW tail, NEW n \in Nat, NEW m \in Nat, NEW f, NEW g,
           IsFlattening(f, seqs, n), IsFlattening(g, tail, m), m <= n,
           Agree(tail, seqs, m)
    PROVE  Agree(g, f, m)
  <1> DEFINE S == {k \in Nat : k \in 1 .. m => g[k] = f[k]}
  <1>1. 0 \in S
    OBVIOUS
  <1>2. ASSUME NEW k \in Nat, k \in S
        PROVE  k + 1 \in S
    <2> SUFFICES ASSUME k + 1 \in 1 .. m PROVE g[k + 1] = f[k + 1]
      OBVIOUS
    <2> DEFINE j == k + 1
    <2>0. j \in 1 .. m /\ j \in 1 .. n /\ j - 1 = k /\ (j # 1 => k \in 1 .. m)
      OBVIOUS
    <2>1. g[j] = IF j = 1 THEN tail[j] ELSE g[j - 1] \o tail[j]
      BY <2>0, FlatteningAt
    <2>2. f[j] = IF j = 1 THEN seqs[j] ELSE f[j - 1] \o seqs[j]
      BY <2>0, FlatteningAt
    <2>3. j # 1 => g[k] = f[k]
      BY <1>2, <2>0
    <2>4. tail[j] = seqs[j]
      BY <2>0 DEF Agree
    <2> HIDE DEF j
    <2>5. g[j] = f[j]
      BY <2>0, <2>1, <2>2, <2>3, <2>4
    <2> QED
      BY <2>5 DEF j
  <1> HIDE DEF S
  <1>3. \A k \in Nat : k \in S
    BY <1>1, <1>2, SetInduction
  <1>4. \A k \in 1 .. m : k \in Nat
    OBVIOUS
  <1> QED
    BY <1>3, <1>4 DEF S, Agree

\* ... and it is what FlattenSeq returns.
LEMMA FlattenSeqIsFlattening ==
    ASSUME NEW seqs, Len(seqs) \in Nat \ {0}
    PROVE  \E f : IsFlattening(f, seqs, Len(seqs)) /\ FlattenSeq(seqs) = f[Len(seqs)]
  <1> DEFINE n == Len(seqs)
             F == CHOOSE f : f = [i \in 1 .. n |-> IF i = 1 THEN seqs[i] ELSE f[i - 1] \o seqs[i]]
  <1>1. \E f : f = [i \in 1 .. n |-> IF i = 1 THEN seqs[i] ELSE f[i - 1] \o seqs[i]]
    BY FlatteningExists, Zenon DEF IsFlattening
  <1>2. IsFlattening(F, seqs, n)
    BY <1>1, Zenon DEF IsFlattening
  <1>3. FlattenSeq(seqs) = F[n]
    BY Zenon DEF FlattenSeq
  <1> QED
    BY <1>2, <1>3, Zenon

\* Every prefix of it is a sequence, ...
LEMMA FlatteningType ==
    ASSUME NEW T, NEW seqs \in Seq(Seq(T)), NEW f, IsFlattening(f, seqs, Len(seqs))
    PROVE  \A i \in 1 .. Len(seqs) : f[i] \in Seq(T)
  <1> DEFINE n == Len(seqs)
             S == {k \in Nat : k \in 1 .. n => f[k] \in Seq(T)}
  <1>0. n \in Nat /\ \A i \in 1 .. n : seqs[i] \in Seq(T)
    BY LenProperties
  <1> HIDE DEF n
  <1>1. 0 \in S
    OBVIOUS
  <1>2. ASSUME NEW k \in Nat, k \in S
        PROVE  k + 1 \in S
    <2> DEFINE j == k + 1
    <2> SUFFICES ASSUME j \in 1 .. n PROVE f[j] \in Seq(T)
      BY DEF S
    <2>1. f[j] = IF j = 1 THEN seqs[j] ELSE f[j - 1] \o seqs[j]
      BY FlatteningAt DEF n
    <2>2. j - 1 = k /\ (j # 1 => k \in 1 .. n)
      BY <1>0
    <2>3. j # 1 => f[k] \in Seq(T)
      BY <1>2, <2>2
    <2>4. seqs[j] \in Seq(T)
      BY <1>0
    <2> HIDE DEF j
    <2>5. j # 1 => f[k] \o seqs[j] \in Seq(T)
      BY <2>3, <2>4, ConcatProperties
    <2> QED
      BY <2>1, <2>2, <2>4, <2>5
  <1> HIDE DEF S
  <1>3. \A k \in Nat : k \in S
    BY <1>1, <1>2, SetInduction
  <1>4. \A k \in 1 .. n : k \in Nat
    BY <1>0
  <1> QED
    BY <1>3, <1>4 DEF S, n

\* The next sequence is added at the end.
LEMMA FlatteningStep ==
    ASSUME NEW seqs, NEW n, NEW f, IsFlattening(f, seqs, n), NEW k \in Nat, k # 0, k + 1 \in 1 .. n
    PROVE  f[k + 1] = f[k] \o seqs[k + 1]
  <1>1. f[k + 1] = IF k + 1 = 1 THEN seqs[k + 1] ELSE f[(k + 1) - 1] \o seqs[k + 1]
    BY FlatteningAt
  <1>2. k + 1 # 1 /\ (k + 1) - 1 = k
    OBVIOUS
  <1> QED
    BY <1>1, <1>2

\* What begins a sequence begins its extensions.
LEMMA ConcatExtends ==
    ASSUME NEW T, NEW a \in Seq(T), NEW b \in Seq(T), NEW c \in Seq(T),
           Len(a) <= Len(b), \A p \in 1 .. Len(a) : b[p] = a[p]
    PROVE  Len(a) <= Len(b \o c) /\ \A p \in 1 .. Len(a) : (b \o c)[p] = a[p]
  <1>1. Len(a) \in Nat /\ Len(b) \in Nat /\ Len(c) \in Nat
    BY LenProperties
  <1>2. /\ Len(b \o c) = Len(b) + Len(c)
        /\ \A p \in 1 .. Len(b) + Len(c) : (b \o c)[p] = IF p <= Len(b) THEN b[p] ELSE c[p - Len(b)]
    BY ConcatProperties
  <1> QED
    BY <1>1, <1>2

\* ... and a prefix of those that follow.
LEMMA FlatteningGrows ==
    ASSUME NEW T, NEW seqs \in Seq(Seq(T)), NEW f, IsFlattening(f, seqs, Len(seqs)),
           NEW i \in 1 .. Len(seqs)
    PROVE  /\ Len(f[i]) <= Len(f[Len(seqs)])
           /\ \A p \in 1 .. Len(f[i]) : f[Len(seqs)][p] = f[i][p]
  <1> DEFINE n == Len(seqs)
             Extends(k) == Len(f[i]) <= Len(f[k]) /\ \A p \in 1 .. Len(f[i]) : f[k][p] = f[i][p]
             S == {k \in Nat : k \in i .. n => Extends(k)}
  <1>0. n \in Nat /\ i \in 1 .. n /\ \A k \in 1 .. n : seqs[k] \in Seq(T)
    BY LenProperties
  <1>t. \A k \in 1 .. n : f[k] \in Seq(T) /\ Len(f[k]) \in Nat
    BY FlatteningType, LenProperties
  <1>f. IsFlattening(f, seqs, n)
    OBVIOUS
  <1> HIDE DEF n
  <1>1. 0 \in S
    BY <1>0
  <1>2. ASSUME NEW k \in Nat, k \in S
        PROVE  k + 1 \in S
    <2> SUFFICES ASSUME k + 1 \in i .. n PROVE Extends(k + 1)
      BY DEF S
    <2>1. CASE k + 1 = i
      BY <1>0, <1>t, <2>1
    <2>2. CASE k + 1 # i
      <3>1. k + 1 \in 1 .. n /\ k \in i .. n /\ k \in 1 .. n /\ k # 0
        BY <1>0, <2>2
      <3>2. f[k + 1] = f[k] \o seqs[k + 1]
        BY <1>f, <3>1, FlatteningStep
      <3>3. Extends(k)
        BY <1>2, <3>1
      <3>4. f[i] \in Seq(T) /\ f[k] \in Seq(T) /\ seqs[k + 1] \in Seq(T)
        BY <1>0, <1>t, <3>1
      <3>5. Len(f[i]) <= Len(f[k] \o seqs[k + 1])
              /\ \A p \in 1 .. Len(f[i]) : (f[k] \o seqs[k + 1])[p] = f[i][p]
        <4>1. \A a, b, c \in Seq(T) :
                 Len(a) <= Len(b) /\ (\A p \in 1 .. Len(a) : b[p] = a[p]) =>
                    Len(a) <= Len(b \o c) /\ \A p \in 1 .. Len(a) : (b \o c)[p] = a[p]
          BY ConcatExtends
        <4> QED
          BY <3>3, <3>4, <4>1, Zenon
      <3> QED
        BY <3>2, <3>5
    <2> QED
      BY <2>1, <2>2
  <1> HIDE DEF S
  <1>3. n \in S
    BY <1>0, <1>1, <1>2, SetInduction
  <1>4. Extends(n)
    BY <1>0, <1>3 DEF S
  <1> QED
    BY <1>4 DEF n

\* The slice of the whole at the offset of a part is that part.
LEMMA SliceIsThePart ==
    ASSUME NEW T, NEW seqs \in Seq(Seq(T)), NEW f, IsFlattening(f, seqs, Len(seqs)),
           NEW i \in 1 .. Len(seqs), NEW off \in Nat,
           off = IF i = 1 THEN 0 ELSE Len(f[i - 1])
    PROVE  SubSeq(f[Len(seqs)], off + 1, off + Len(seqs[i])) = seqs[i]
  <1> DEFINE n == Len(seqs)
             whole == f[n]
             part == seqs[i]
             slice == SubSeq(whole, off + 1, off + Len(part))
  <1>0. n \in Nat /\ part \in Seq(T) /\ Len(part) \in Nat /\ n \in 1 .. n
    BY LenProperties
  <1>1. whole \in Seq(T) /\ f[i] \in Seq(T) /\ (i # 1 => f[i - 1] \in Seq(T))
    BY <1>0, FlatteningType
  <1>2. Len(whole) \in Nat /\ DOMAIN whole = 1 .. Len(whole)
          /\ \A k \in 1 .. Len(whole) : whole[k] \in T
    BY <1>1, LenProperties
  <1>3. f[i] = IF i = 1 THEN part ELSE f[i - 1] \o part
    BY FlatteningAt
  <1>4. Len(f[i]) <= Len(whole) /\ \A p \in 1 .. Len(f[i]) : whole[p] = f[i][p]
    BY FlatteningGrows
  <1> HIDE DEF n, whole, part
  <1>5. Len(f[i]) = off + Len(part) /\ \A k \in 1 .. Len(part) : f[i][off + k] = part[k]
    <2>1. CASE i = 1
      BY <1>0, <1>3, <2>1
    <2>2. CASE i # 1
      <3>1. f[i] = f[i - 1] \o part /\ f[i - 1] \in Seq(T) /\ off = Len(f[i - 1])
        BY <1>1, <1>3, <2>2
      <3> DEFINE g == f[i - 1]
      <3>2. /\ Len(g \o part) = Len(g) + Len(part)
            /\ \A p \in 1 .. Len(g) + Len(part) :
                  (g \o part)[p] = IF p <= Len(g) THEN g[p] ELSE part[p - Len(g)]
        BY <1>0, <3>1, ConcatProperties
      <3>3. Len(f[i]) = off + Len(part)
            /\ \A p \in 1 .. off + Len(part) : f[i][p] = IF p <= off THEN g[p] ELSE part[p - off]
        BY <3>1, <3>2
      <3> HIDE DEF g
      <3>4. ASSUME NEW k \in 1 .. Len(part)
            PROVE  f[i][off + k] = part[k]
        <4>1. off + k \in 1 .. off + Len(part) /\ ~(off + k <= off) /\ (off + k) - off = k
          BY <1>0
        <4> QED
          BY <3>3, <4>1
      <3> QED
        BY <3>3, <3>4
    <2> QED
      BY <2>1, <2>2
  <1>6. \A k \in off + 1 .. off + Len(part) : k \in 1 .. Len(whole)
    BY <1>0, <1>2, <1>4, <1>5
  <1>7. /\ slice \in Seq(T)
        /\ Len(slice) = IF off + 1 <= off + Len(part) THEN (off + Len(part)) - (off + 1) + 1 ELSE 0
        /\ \A k \in 1 .. (off + Len(part)) - (off + 1) + 1 : slice[k] = whole[(off + 1) + k - 1]
    <2>1. \A k \in off + 1 .. off + Len(part) : whole[k] \in T
      BY <1>2, <1>6
    <2>2. off + 1 \in Int /\ off + Len(part) \in Int
      BY <1>0
    <2> QED
      BY <2>1, <2>2, SubSeqProperties
  <1> HIDE DEF slice
  <1>8. Len(slice) = Len(part)
    BY <1>0, <1>7
  <1>9. ASSUME NEW k \in 1 .. Len(part)
        PROVE  slice[k] = part[k]
    <2>1. k \in 1 .. (off + Len(part)) - (off + 1) + 1 /\ (off + 1) + k - 1 = off + k
      BY <1>0
    <2>2. off + k \in 1 .. Len(f[i])
      BY <1>0, <1>5
    <2> QED
      BY <1>4, <1>5, <1>7, <2>1, <2>2
  <1> QED
    BY <1>0, <1>7, <1>8, <1>9, SeqEqual DEF slice, whole, part, n

\* The boards of a batch, as one sequence of sequences.
LEMMA BoardsOfBatch ==
    ASSUME NEW T, NEW batch \in Seq([worker : Nat, boards : Seq(T)])
    PROVE  LET seqs == [i \in DOMAIN batch |-> batch[i].boards]
           IN  /\ seqs \in Seq(Seq(T)) /\ Len(seqs) = Len(batch) /\ Len(batch) \in Nat
               /\ \A i \in 1 .. Len(batch) : seqs[i] = batch[i].boards
  <1> DEFINE seqs == [i \in DOMAIN batch |-> batch[i].boards]
  <1>1. /\ Len(batch) \in Nat /\ DOMAIN batch = 1 .. Len(batch)
        /\ \A i \in 1 .. Len(batch) : batch[i] \in [worker : Nat, boards : Seq(T)]
    BY LenProperties
  <1>2. \A i \in 1 .. Len(batch) : batch[i].boards \in Seq(T)
    BY <1>1
  <1>3. seqs = [i \in 1 .. Len(batch) |-> batch[i].boards]
    BY <1>1
  <1>4. seqs \in Seq(Seq(T)) /\ Len(seqs) = Len(batch)
    BY <1>1, <1>2, <1>3
  <1> QED
    BY <1>1, <1>3, <1>4

\* RunBatch gives every request the results of its own boards.
LEMMA ResultsAreOwn ==
    ASSUME NEW T, NEW batch \in Seq([worker : Nat, boards : Seq(T)]), NEW i \in 1 .. Len(batch)
    PROVE  RunBatch(batch)[i] = batch[i].boards
  <1> DEFINE n == Len(batch)
             seqs == [j \in DOMAIN batch |-> batch[j].boards]
             pre == SubSeq(batch, 1, i - 1)
             pres == [j \in DOMAIN pre |-> pre[j].boards]
             off == Offset(batch, i)
  <1>1. seqs \in Seq(Seq(T)) /\ Len(seqs) = n /\ n \in Nat /\ \A j \in 1 .. n : seqs[j] = batch[j].boards
    BY BoardsOfBatch
  <1>2. i \in 1 .. n /\ i - 1 \in Nat /\ i - 1 <= n /\ i \in Nat
    BY <1>1
  <1>3. /\ pre \in Seq([worker : Nat, boards : Seq(T)]) /\ Len(pre) = i - 1
        /\ \A j \in 1 .. i - 1 : pre[j] = batch[j]
    <2>0. /\ \A j \in 1 .. Len(batch) : batch[j] \in [worker : Nat, boards : Seq(T)]
          /\ Len(batch) \in Nat
      BY LenProperties
    <2>1. \A j \in 1 .. i - 1 : batch[j] \in [worker : Nat, boards : Seq(T)]
      BY <2>0
    <2>2. /\ pre \in Seq([worker : Nat, boards : Seq(T)])
          /\ Len(pre) = IF 1 <= i - 1 THEN (i - 1) - 1 + 1 ELSE 0
          /\ \A j \in 1 .. (i - 1) - 1 + 1 : pre[j] = batch[1 + j - 1]
      BY <1>2, <2>1, SubSeqProperties
    <2> HIDE DEF pre
    <2> QED
      BY <1>2, <2>2
  <1>4. pres \in Seq(Seq(T)) /\ Len(pres) = i - 1 /\ \A j \in 1 .. i - 1 : pres[j] = seqs[j]
    <2>1. pres \in Seq(Seq(T)) /\ Len(pres) = Len(pre) /\ \A j \in 1 .. Len(pre) : pres[j] = pre[j].boards
      BY <1>3, BoardsOfBatch
    <2> HIDE DEF pres, pre, seqs
    <2>2. ASSUME NEW j \in 1 .. i - 1
          PROVE  pres[j] = seqs[j]
      <3>1. j \in 1 .. n /\ j \in 1 .. Len(pre)
        BY <1>1, <1>2, <1>3
      <3>2. seqs[j] = batch[j].boards
        BY <1>1, <3>1
      <3>3. pres[j] = pre[j].boards
        BY <2>1, <3>1
      <3>4. pre[j] = batch[j]
        BY <1>3
      <3> QED
        BY <3>2, <3>3, <3>4
    <2>3. Len(pres) = i - 1
      BY <1>3, <2>1
    <2> QED
      BY <2>1, <2>2, <2>3
  <1>5. PICK f : IsFlattening(f, seqs, Len(seqs)) /\ FlattenSeq(seqs) = f[Len(seqs)]
    <2>1. Len(seqs) \in Nat \ {0}
      BY <1>1, <1>2
    <2> QED
      BY <2>1, FlattenSeqIsFlattening
  <1>6. off = IF i = 1 THEN 0 ELSE Len(f[i - 1])
    <2>0. off = Len(FlattenSeq(pres))
      BY DEF Offset, Concatenated
    <2> HIDE DEF pres, off, seqs
    <2>1. CASE i = 1
      <3>1. Len(pres) = 0
        BY <1>4, <2>1
      <3>2. FlattenSeq(pres) = pres
        BY <3>1, Zenon DEF FlattenSeq
      <3> QED
        BY <2>0, <2>1, <3>1, <3>2
    <2>2. CASE i # 1
      <3>1. Len(pres) \in Nat \ {0} /\ Len(pres) = i - 1 /\ i - 1 \in 1 .. i - 1
        BY <1>2, <1>4, <2>2
      <3>2. PICK g : IsFlattening(g, pres, Len(pres)) /\ FlattenSeq(pres) = g[Len(pres)]
        BY <3>1, FlattenSeqIsFlattening
      <3>3. g[i - 1] = f[i - 1]
        <4>1. Len(seqs) \in Nat /\ Len(pres) \in Nat /\ Len(pres) <= Len(seqs)
          BY <1>1, <1>2, <1>4
        <4>2. Agree(pres, seqs, Len(pres))
          BY <1>4 DEF Agree
        <4>3. Agree(g, f, Len(pres))
          BY <1>5, <3>2, <4>1, <4>2, FlatteningUnique
        <4> QED
          BY <3>1, <4>3 DEF Agree
      <3> QED
        BY <2>0, <2>2, <3>1, <3>2, <3>3
    <2> QED
      BY <2>1, <2>2
  <1>7. off \in Nat
    <2>1. i # 1 => f[i - 1] \in Seq(T)
      BY <1>1, <1>2, <1>5, FlatteningType
    <2>2. i # 1 => Len(f[i - 1]) \in Nat
      BY <2>1, LenProperties
    <2> HIDE DEF off
    <2> QED
      BY <1>6, <2>2
  <1>8. RunBatch(batch)[i] = SubSeq(FlattenSeq(seqs), off + 1, off + Len(batch[i].boards))
    <2>1. i \in DOMAIN batch
      BY LenProperties
    <2> QED
      BY <2>1, Zenon DEF RunBatch, Concatenated, Size
  <1>9. seqs[i] = batch[i].boards
    BY <1>1, <1>2
  <1> HIDE DEF off, seqs
  <1>10. SubSeq(f[Len(seqs)], off + 1, off + Len(seqs[i])) = seqs[i]
    <2>1. i \in 1 .. Len(seqs)
      BY <1>1, <1>2
    <2> QED
      BY <1>1, <1>5, <1>6, <1>7, <2>1, SliceIsThePart
  <1> QED
    BY <1>5, <1>8, <1>9, <1>10

-----------------------------------------------------------------------------
(* The search trees. *)

Fields == {"pc", "game", "ply", "searches", "answer", "todo"}
SearchRecord == [made : BOOLEAN, root : Int, noise : BOOLEAN]

\* What a worker's thread keeps.
IsWorker(k) == DOMAIN k = Fields /\ k.ply \in Nat /\ k.searches \in [Models -> SearchRecord]

\* Whether the search of a model has noise at a ply.
NoiseAt(ply) == NoisePlies = 0 \/ ply < NoisePlies

\* Every search's tree is at the worker's ply or empty, it has noise while the
\* opening lasts, and the search that waits for an answer has a tree.
Follows(k) ==
    /\ \A m \in Models : /\ k.searches[m].root \in {-1, k.ply}
                         /\ k.searches[m].made => (k.searches[m].noise <=> NoiseAt(k.ply))
                         /\ ~k.searches[m].made => k.searches[m].root = -1 /\ ~k.searches[m].noise
    /\ k.pc = "wait" => /\ k.searches[ModelFor(k.game, k.ply)].made
                        /\ k.searches[ModelFor(k.game, k.ply)].root = k.ply

TreeInv == /\ DOMAIN worker = Workers
           /\ \A w \in Workers : IsWorker(worker[w]) /\ Follows(worker[w])

\* Every ply of every game is some model's.
LEMMA ModelForIsAModel ==
    ASSUME NEW game, NEW ply
    PROVE  ModelFor(game, ply) \in Models
  BY DEF ModelFor, Models

\* A thread that only goes elsewhere keeps its trees.
LEMMA GoesKeeps ==
    ASSUME NEW k, IsWorker(k), Follows(k), NEW pc, pc # "wait"
    PROVE  LET j == [k EXCEPT !.pc = pc] IN IsWorker(j) /\ Follows(j)
  <1> DEFINE j == [k EXCEPT !.pc = pc]
  <1>1. /\ DOMAIN j = Fields /\ j.pc = pc /\ j.ply = k.ply /\ j.searches = k.searches
    BY DEF IsWorker, Fields
  <1> HIDE DEF j
  <1>2. IsWorker(j) /\ Follows(j)
    BY <1>1 DEF IsWorker, Follows
  <1> QED
    BY <1>2 DEF j

\* A worker without searches has no tree that could lag.
LEMMA FreshFollows ==
    ASSUME NEW k, DOMAIN k = Fields, k.ply = 0, k.searches = NoSearches, k.pc # "wait"
    PROVE  IsWorker(k) /\ Follows(k)
  <1>1. /\ NoSearches \in [Models -> SearchRecord]
        /\ \A m \in Models : /\ NoSearches[m].root = -1 /\ NoSearches[m].made = FALSE
                             /\ NoSearches[m].noise = FALSE
    BY DEF NoSearches, SearchRecord
  <1> QED
    BY <1>1 DEF IsWorker, Follows

\* The invariant holds of workers that have not begun.
LEMMA TreeInit == Init => TreeInv
  <1> SUFFICES ASSUME Init PROVE TreeInv
    OBVIOUS
  <1>1. worker = [w \in Workers |-> Fresh]
    BY DEF Init
  <1>2. DOMAIN Fresh = Fields /\ Fresh.ply = 0 /\ Fresh.searches = NoSearches /\ Fresh.pc # "wait"
    BY DEF Fresh, Fields
  <1>3. IsWorker(Fresh) /\ Follows(Fresh)
    BY <1>2, FreshFollows
  <1> QED
    BY <1>1, <1>3 DEF TreeInv

\* One worker's step keeps the invariant when its own record does.
LEMMA OneWorkerMoves ==
    ASSUME TreeInv, NEW w \in Workers, NEW k, worker' = [worker EXCEPT ![w] = k],
           IsWorker(k), Follows(k), workers_flag' = workers_flag
    PROVE  TreeInv'
  <1>1. Workers' = Workers
    BY DEF Workers
  <1>2. /\ DOMAIN worker' = Workers /\ worker'[w] = k
        /\ \A v \in Workers : v # w => worker'[v] = worker[v]
    BY DEF TreeInv
  <1>3. \A v \in Workers : IsWorker(worker'[v]) /\ Follows(worker'[v])
    BY <1>2 DEF TreeInv
  <1>4. ASSUME NEW v \in Workers
        PROVE  IsWorker(worker[v])' /\ Follows(worker[v])'
    BY <1>3 DEF IsWorker, Follows, ModelFor, IsMixed, MixedThrough, ChampionSeat, NoiseAt
  <1> QED
    BY <1>1, <1>2, <1>4 DEF TreeInv

\* The search of the model to act is made, and its tree does not lag.
LEMMA SearchIsThere ==
    ASSUME ParametersAreValid, TreeInv, NEW w \in Workers
    PROVE  /\ SearchOf(w) \in SearchRecord /\ SearchOf(w).made
           /\ SearchOf(w).root \in {-1, worker[w].ply}
           /\ SearchOf(w).noise <=> NoiseAt(worker[w].ply)
  <1> DEFINE ply == worker[w].ply
             m == ModelFor(worker[w].game, ply)
             s == worker[w].searches[m]
             b == ~(NoisePlies > 0 /\ ply >= NoisePlies)
             new == [made |-> TRUE, root |-> -1, noise |-> b]
  <1>1. ply \in Nat /\ s \in SearchRecord
    BY ModelForIsAModel DEF TreeInv, IsWorker
  <1>2. s.root \in {-1, ply} /\ (s.made => (s.noise <=> NoiseAt(ply)))
    BY ModelForIsAModel DEF TreeInv, Follows
  <1>3. new \in SearchRecord /\ new.made /\ new.root = -1 /\ (new.noise <=> NoiseAt(ply))
    <2>1. b \in BOOLEAN /\ (b <=> NoiseAt(ply))
      BY <1>1 DEF NoiseAt, ParametersAreValid
    <2> HIDE DEF b
    <2>2. new \in SearchRecord /\ new.made = TRUE /\ new.root = -1 /\ new.noise = b
      BY <2>1 DEF SearchRecord
    <2> HIDE DEF new
    <2> QED
      BY <2>1, <2>2
  <1>4. SearchOf(w) = IF s.made THEN s ELSE new
    BY Zenon DEF SearchOf
  <1> HIDE DEF new, s
  <1> QED
    BY <1>1, <1>2, <1>3, <1>4

\* The search that is asked stands at the ply to decide.
LEMMA SearchIsReady ==
    ASSUME ParametersAreValid, TreeInv, NEW w \in Workers
    PROVE  /\ Searching(w) \in SearchRecord /\ Searching(w).made
           /\ Searching(w).root = worker[w].ply
           /\ Searching(w).noise <=> NoiseAt(worker[w].ply)
  <1> DEFINE ply == worker[w].ply
             made == SearchOf(w)
             r == IF made.root = -1 THEN ply ELSE made.root
  <1>1. ply \in Nat
    BY DEF TreeInv, IsWorker
  <1>2. /\ made \in SearchRecord /\ made.made /\ made.root \in {-1, ply}
        /\ made.noise <=> NoiseAt(ply)
    BY SearchIsThere
  <1>3. Searching(w) = [made EXCEPT !.root = r]
    BY Zenon DEF Searching
  <1> HIDE DEF made, ply
  <1>4. r = ply /\ r \in Int
    BY <1>1, <1>2
  <1> HIDE DEF r
  <1>5. LET t == [made EXCEPT !.root = r]
        IN  t \in SearchRecord /\ t.made = made.made /\ t.root = r /\ t.noise = made.noise
    BY <1>2, <1>4 DEF SearchRecord
  <1> QED
    BY <1>2, <1>3, <1>4, <1>5 DEF ply

\* A submitted batch of leaves keeps it.
LEMMA SubmitKeepsTrees ==
    ASSUME ParametersAreValid, TreeInv, NEW w \in Workers, Submit(w)
    PROVE  TreeInv'
  <1> DEFINE k == worker[w]
             m == ModelFor(k.game, k.ply)
             a == IF Immediate THEN BoardsOf(w, k.ply) ELSE NoAnswer
             s == Searching(w)
             j == [k EXCEPT !.pc = "wait", !.searches[m] = s, !.answer = a]
  <1>1. worker' = [worker EXCEPT ![w] = j] /\ workers_flag' = workers_flag
    BY Zenon DEF Submit
  <1>2. s \in SearchRecord /\ s.made /\ s.root = k.ply /\ (s.noise <=> NoiseAt(k.ply))
    BY SearchIsReady
  <1>3. IsWorker(k) /\ Follows(k) /\ m \in Models
    BY ModelForIsAModel DEF TreeInv
  <1> HIDE DEF k, s, a
  <1>4. /\ DOMAIN j = Fields /\ j.pc = "wait" /\ j.ply = k.ply /\ j.game = k.game
        /\ j.searches = [k.searches EXCEPT ![m] = s]
    BY <1>3 DEF IsWorker, Fields
  <1> HIDE DEF j, m
  <1>5. /\ j.searches \in [Models -> SearchRecord] /\ j.searches[m] = s
        /\ \A n \in Models : n # m => j.searches[n] = k.searches[n]
    BY <1>2, <1>3, <1>4 DEF IsWorker
  <1>6. IsWorker(j)
    BY <1>3, <1>4, <1>5 DEF IsWorker
  <1>7. Follows(j)
    <2>1. m = ModelFor(j.game, j.ply)
      BY <1>4 DEF m
    <2>2. ASSUME NEW n \in Models
          PROVE  /\ j.searches[n].root \in {-1, j.ply}
                 /\ j.searches[n].made => (j.searches[n].noise <=> NoiseAt(j.ply))
                 /\ ~j.searches[n].made => j.searches[n].root = -1 /\ ~j.searches[n].noise
      <3>1. CASE n = m
        BY <1>2, <1>4, <1>5, <3>1
      <3>2. CASE n # m
        BY <1>3, <1>4, <1>5, <3>2 DEF Follows
      <3> QED
        BY <3>1, <3>2
    <2> QED
      BY <1>2, <1>4, <1>5, <2>1, <2>2 DEF Follows
  <1> QED
    BY <1>1, <1>6, <1>7, OneWorkerMoves

\* The trees of a worker that stands at a ply.
Trees(searches, ply) ==
    /\ searches \in [Models -> SearchRecord]
    /\ \A m \in Models : /\ searches[m].root \in {-1, ply}
                         /\ searches[m].made => (searches[m].noise <=> NoiseAt(ply))
                         /\ ~searches[m].made => searches[m].root = -1 /\ ~searches[m].noise

\* Every tree follows the action that is played, or is lost.
LEMMA TreesFollow ==
    ASSUME ParametersAreValid, NEW ply \in Nat, NEW searches, Trees(searches, ply), NEW lost, NEW m
    PROVE  Trees(SelectAction(searches, lost, m, ply), ply + 1)
  <1> DEFINE t == SelectAction(searches, lost, m, ply)
  <1>1. \A n \in Models : searches[n] \in SearchRecord
    BY DEF Trees
  <1>2. ASSUME NEW n \in Models
        PROVE  LET q == searches[n]
               IN  /\ t[n] \in SearchRecord /\ t[n].made = q.made
                   /\ t[n].root = IF q.root = -1 \/ n \in lost THEN -1 ELSE q.root + 1
                   /\ t[n].noise <=> q.noise /\ ~(NoisePlies > 0 /\ ply + 1 >= NoisePlies)
    <2> DEFINE q == searches[n]
               r == IF q.root = -1 \/ n \in lost THEN -1 ELSE q.root + 1
               b == q.noise /\ ~(NoisePlies > 0 /\ ply + 1 >= NoisePlies)
    <2>1. t[n] = [q EXCEPT !.root = r, !.noise = b]
      BY DEF SelectAction
    <2>2. q \in SearchRecord
      BY <1>1
    <2>3. r \in Int /\ b \in BOOLEAN
      BY <2>2 DEF SearchRecord
    <2> HIDE DEF r, b, q
    <2>4. /\ [q EXCEPT !.root = r, !.noise = b] \in SearchRecord
          /\ [q EXCEPT !.root = r, !.noise = b].made = q.made
          /\ [q EXCEPT !.root = r, !.noise = b].root = r
          /\ [q EXCEPT !.root = r, !.noise = b].noise = b
      BY <2>2, <2>3 DEF SearchRecord
    <2> QED
      BY <2>1, <2>4 DEF r, b, q
  <1>3. t \in [Models -> SearchRecord]
    <2>1. t = [n \in Models |-> t[n]]
      BY DEF SelectAction
    <2> QED
      BY <1>2, <2>1
  <1> HIDE DEF t
  <1>4. ASSUME NEW n \in Models
        PROVE  /\ t[n].root \in {-1, ply + 1}
               /\ t[n].made => (t[n].noise <=> NoiseAt(ply + 1))
               /\ ~t[n].made => t[n].root = -1 /\ ~t[n].noise
    <2> DEFINE q == searches[n]
    <2>1. /\ q.root \in {-1, ply} /\ (q.made => (q.noise <=> NoiseAt(ply)))
          /\ (~q.made => q.root = -1 /\ ~q.noise)
      BY DEF Trees
    <2>2. t[n].root \in {-1, ply + 1}
      BY <1>2, <2>1
    <2>3. ~t[n].made => t[n].root = -1
      BY <1>2, <2>1
    <2>4. ~t[n].made => ~t[n].noise
      BY <1>2, <2>1
    <2>5. t[n].made => (t[n].noise <=> NoiseAt(ply + 1))
      BY <1>2, <2>1 DEF NoiseAt, ParametersAreValid
    <2> QED
      BY <2>2, <2>3, <2>4, <2>5
  <1> QED
    BY <1>3, <1>4 DEF Trees, t

\* So an action chosen by a search of the tree keeps the invariant, ...
LEMMA PlayKeepsTrees ==
    ASSUME ParametersAreValid, TreeInv, NEW w \in Workers, PlayAction(w)
    PROVE  TreeInv'
  <1> DEFINE k == worker[w]
             m == ModelFor(k.game, k.ply)
             t(lost) == SelectAction(k.searches, lost, m, k.ply)
             j(lost) == [k EXCEPT !.pc = "decide", !.answer = NoAnswer, !.ply = k.ply + 1,
                                  !.searches = t(lost)]
  <1>1. workers_flag' = workers_flag /\ \E lost : worker' = [worker EXCEPT ![w] = j(lost)]
    BY Zenon DEF PlayAction
  <1>2. PICK lost : worker' = [worker EXCEPT ![w] = j(lost)]
    BY <1>1
  <1>3. IsWorker(k) /\ Follows(k)
    BY DEF TreeInv
  <1> HIDE DEF k
  <1>4. k.ply \in Nat /\ k.ply + 1 \in Nat /\ Trees(k.searches, k.ply)
    BY <1>3 DEF IsWorker, Follows, Trees
  <1>5. Trees(t(lost), k.ply + 1)
    BY <1>4, TreesFollow
  <1> HIDE DEF t, m
  <1>6. /\ DOMAIN j(lost) = Fields /\ j(lost).pc = "decide" /\ j(lost).ply = k.ply + 1
        /\ j(lost).searches = t(lost)
    BY <1>3 DEF IsWorker, Fields
  <1> HIDE DEF j
  <1>7. IsWorker(j(lost)) /\ Follows(j(lost))
    BY <1>4, <1>5, <1>6 DEF IsWorker, Follows, Trees
  <1> QED
    BY <1>1, <1>2, <1>7, OneWorkerMoves

\* ... and so does one the solver proved.
LEMMA SolvedKeepsTrees ==
    ASSUME ParametersAreValid, TreeInv, NEW w \in Workers, PlaySolved(w)
    PROVE  TreeInv'
  <1> DEFINE k == worker[w]
             m == ModelFor(k.game, k.ply)
             s == SearchOf(w)
             q == [k.searches EXCEPT ![m] = s]
             t(lost) == SelectAction(q, lost, m, k.ply)
             j(lost) == [k EXCEPT !.answer = NoAnswer, !.ply = k.ply + 1, !.searches = t(lost)]
  <1>1. /\ workers_flag' = workers_flag /\ k.pc = "decide"
        /\ \E lost : worker' = [worker EXCEPT ![w] = j(lost)]
    BY Zenon DEF PlaySolved, At
  <1>2. PICK lost : worker' = [worker EXCEPT ![w] = j(lost)]
    BY <1>1
  <1>3. IsWorker(k) /\ Follows(k) /\ m \in Models
    BY ModelForIsAModel DEF TreeInv
  <1>4. s \in SearchRecord /\ s.made /\ s.root \in {-1, k.ply} /\ (s.noise <=> NoiseAt(k.ply))
    BY SearchIsThere
  <1> HIDE DEF k, m, s
  <1>5. k.ply \in Nat /\ k.ply + 1 \in Nat /\ Trees(k.searches, k.ply)
    BY <1>3 DEF IsWorker, Follows, Trees
  <1>6. Trees(q, k.ply)
    <2>1. /\ q \in [Models -> SearchRecord] /\ q[m] = s
          /\ \A n \in Models : n # m => q[n] = k.searches[n]
      BY <1>3, <1>4, <1>5 DEF Trees
    <2> HIDE DEF q
    <2>2. ASSUME NEW n \in Models
          PROVE  /\ q[n].root \in {-1, k.ply}
                 /\ q[n].made => (q[n].noise <=> NoiseAt(k.ply))
                 /\ ~q[n].made => q[n].root = -1 /\ ~q[n].noise
      <3>1. CASE n = m
        BY <1>4, <2>1, <3>1
      <3>2. CASE n # m
        BY <1>5, <2>1, <3>2 DEF Trees
      <3> QED
        BY <3>1, <3>2
    <2> QED
      BY <2>1, <2>2 DEF Trees
  <1> HIDE DEF q
  <1>7. Trees(t(lost), k.ply + 1)
    BY <1>5, <1>6, TreesFollow
  <1> HIDE DEF t
  <1>8. /\ DOMAIN j(lost) = Fields /\ j(lost).pc = "decide" /\ j(lost).ply = k.ply + 1
        /\ j(lost).searches = t(lost)
    BY <1>1, <1>3 DEF IsWorker, Fields
  <1> HIDE DEF j
  <1>9. IsWorker(j(lost)) /\ Follows(j(lost))
    BY <1>5, <1>7, <1>8 DEF IsWorker, Follows, Trees
  <1> QED
    BY <1>1, <1>2, <1>9, OneWorkerMoves

\* The other steps change no tree.
LEMMA OtherWorkerStepsKeepTrees ==
    ASSUME TreeInv, NEW w \in Workers,
           \/ CheckStop(w) \/ Claim(w) \/ BeginWrite(w) \/ WriteExample(w) \/ EndWrite(w)
           \/ StoreStop(w) \/ Throw(w)
    PROVE  TreeInv'
  <1> DEFINE k == worker[w]
  <1>0. IsWorker(k) /\ Follows(k)
    BY DEF TreeInv
  <1>u. workers_flag' = workers_flag
    BY DEF CheckStop, Claim, BeginWrite, WriteExample, EndWrite, StoreStop, Throw
  <1>1. ASSUME NEW pc, pc # "wait", worker' = [worker EXCEPT ![w].pc = pc]
        PROVE  TreeInv'
    <2> DEFINE j == [k EXCEPT !.pc = pc]
    <2>1. worker' = [worker EXCEPT ![w] = j]
      BY <1>1, Zenon
    <2>2. IsWorker(j) /\ Follows(j)
      BY <1>0, <1>1, GoesKeeps
    <2> HIDE DEF j
    <2> QED
      BY <1>u, <2>1, <2>2, OneWorkerMoves
  <1>2. CASE CheckStop(w)
    <2> DEFINE pc == IF stop THEN "done" ELSE "claim"
    <2>1. worker' = [worker EXCEPT ![w].pc = pc]
      BY <1>2, Zenon DEF CheckStop, Goes
    <2>2. pc # "wait"
      OBVIOUS
    <2> HIDE DEF pc
    <2> QED
      BY <1>1, <2>1, <2>2
  <1>3. CASE EndWrite(w) \/ StoreStop(w) \/ Throw(w)
    <2>1. \E pc \in {"loop", "done", "throw"} : worker' = [worker EXCEPT ![w].pc = pc]
      BY <1>3, Zenon DEF EndWrite, StoreStop, Throw, Goes
    <2> QED
      BY <1>1, <2>1
  <1>4. CASE Claim(w)
    <2> DEFINE j == IF next_game >= Games THEN [Fresh EXCEPT !.pc = "done"]
                    ELSE [Fresh EXCEPT !.pc = "decide", !.game = next_game]
    <2>1. worker' = [worker EXCEPT ![w] = j]
      BY <1>4, Zenon DEF Claim
    <2>2. DOMAIN j = Fields /\ j.ply = 0 /\ j.searches = NoSearches /\ j.pc # "wait"
      BY DEF Fresh, Fields
    <2> HIDE DEF j
    <2>3. IsWorker(j) /\ Follows(j)
      BY <2>2, FreshFollows
    <2> QED
      BY <1>u, <2>1, <2>3, OneWorkerMoves
  <1>5. CASE BeginWrite(w)
    <2> DEFINE x == Examples(k.game)
               j == [k EXCEPT !.pc = "write", !.todo = x]
    <2>1. worker' = [worker EXCEPT ![w] = j]
      BY <1>5, Zenon DEF BeginWrite
    <2> HIDE DEF k, x
    <2>2. DOMAIN j = Fields /\ j.pc = "write" /\ j.ply = k.ply /\ j.searches = k.searches
      BY <1>0 DEF IsWorker, Fields
    <2> HIDE DEF j
    <2>3. IsWorker(j) /\ Follows(j)
      BY <1>0, <2>2 DEF IsWorker, Follows
    <2> QED
      BY <1>u, <2>1, <2>3, OneWorkerMoves
  <1>6. CASE WriteExample(w)
    <2> DEFINE x == k.todo \ {Min(k.todo)}
               j == [k EXCEPT !.todo = x]
    <2>1. worker' = [worker EXCEPT ![w] = j] /\ k.pc = "write"
      BY <1>6, Zenon DEF WriteExample, At
    <2> HIDE DEF k, x
    <2>2. DOMAIN j = Fields /\ j.pc = "write" /\ j.ply = k.ply /\ j.searches = k.searches
      BY <1>0, <2>1 DEF IsWorker, Fields
    <2> HIDE DEF j
    <2>3. IsWorker(j) /\ Follows(j)
      BY <1>0, <2>2 DEF IsWorker, Follows
    <2> QED
      BY <1>u, <2>1, <2>3, OneWorkerMoves
  <1> QED
    BY <1>2, <1>3, <1>4, <1>5, <1>6

\* So does a batch of answers.
LEMMA AnswersKeepTrees ==
    ASSUME TreeInv, NEW m \in Models, InferenceLoop(m)
    PROVE  TreeInv'
  <1> DEFINE batch == inference[m].batch
             mine(w) == {i \in DOMAIN batch : batch[i].worker = w}
             a(w) == RunBatch(batch)[Min(mine(w))]
  <1>1. Workers' = Workers
    BY DEF InferenceLoop, others, Workers
  <1>2. worker' = [w \in Workers |-> IF mine(w) = {} THEN worker[w]
                                     ELSE [worker[w] EXCEPT !.answer = a(w)]]
    BY Zenon DEF InferenceLoop
  <1> HIDE DEF mine, a
  <1>3. ASSUME NEW w \in Workers
        PROVE  IsWorker(worker'[w]) /\ Follows(worker'[w])
    <2> DEFINE k == worker[w]
               j == [k EXCEPT !.answer = a(w)]
    <2>0. IsWorker(k) /\ Follows(k)
      BY DEF TreeInv
    <2>1. worker'[w] = k \/ worker'[w] = j
      BY <1>2
    <2> HIDE DEF k
    <2>2. DOMAIN j = Fields /\ j.pc = k.pc /\ j.ply = k.ply /\ j.game = k.game /\ j.searches = k.searches
      BY <2>0 DEF IsWorker, Fields
    <2> HIDE DEF j
    <2>3. IsWorker(j) /\ Follows(j)
      BY <2>0, <2>2 DEF IsWorker, Follows
    <2> QED
      BY <2>0, <2>1, <2>3
  <1>4. DOMAIN worker' = Workers
    BY <1>2
  <1>5. ASSUME NEW v \in Workers
        PROVE  IsWorker(worker[v])' /\ Follows(worker[v])'
    BY <1>3 DEF IsWorker, Follows, ModelFor, IsMixed, MixedThrough, ChampionSeat, NoiseAt
  <1> QED
    BY <1>1, <1>4, <1>5 DEF TreeInv

\* So does every step.
LEMMA TreeNext == ParametersAreValid /\ TreeInv /\ [Next]_vars => TreeInv'
  <1> SUFFICES ASSUME ParametersAreValid, TreeInv, [Next]_vars PROVE TreeInv'
    OBVIOUS
  <1>1. ASSUME UNCHANGED <<worker, workers_flag>> PROVE TreeInv'
    BY <1>1 DEF TreeInv, Workers, IsWorker, Follows, ModelFor, IsMixed, MixedThrough,
                ChampionSeat, NoiseAt
  <1>2. ASSUME NEW w \in Workers, WorkerStep(w) \/ Throw(w) \/ WriteFails(w)
        PROVE  TreeInv'
    <2>1. CASE Submit(w)
      BY <2>1, SubmitKeepsTrees
    <2>2. CASE PlayAction(w) \/ PlaySolved(w)
      BY <2>2, PlayKeepsTrees, SolvedKeepsTrees
    <2>3. CASE \/ CheckStop(w) \/ Claim(w) \/ BeginWrite(w) \/ WriteExample(w) \/ EndWrite(w)
               \/ StoreStop(w) \/ Throw(w)
      BY <2>3, OtherWorkerStepsKeepTrees
    <2>4. CASE WriteFails(w)
      BY <1>1, <2>4 DEF WriteFails
    <2> QED
      BY <1>2, <2>1, <2>2, <2>3, <2>4 DEF WorkerStep
  <1>3. ASSUME NEW m \in Models, InferenceStep(m) \/ InferenceFails(m)
        PROVE  TreeInv'
    <2>1. CASE InferenceLoop(m)
      BY <2>1, AnswersKeepTrees
    <2>2. CASE Wake(m) \/ PopBatch(m) \/ ThreadExits(m) \/ InferenceFails(m)
      BY <1>1, <2>2 DEF Wake, PopBatch, ThreadExits, InferenceFails, others
    <2> QED
      BY <1>3, <2>1, <2>2 DEF InferenceStep
  <1>4. CASE JoinWorkers \/ CloseFails \/ Return \/ UNCHANGED vars
    <2>1. UNCHANGED <<worker, workers_flag>>
      BY <1>4, Zenon DEF JoinWorkers, CloseFails, Return, vars
    <2> QED
      BY <1>1, <2>1
  <1> QED
    BY <1>2, <1>3, <1>4 DEF Next

\* For every schedule of mixed games, every order of seats and every length of
\* the noisy opening: when a search runs, its root stands at the position to
\* decide, also when the other model decided the plies before, and it has root
\* noise in the opening only (self_play.cpp).
THEOREM TreesFollowTheGameAlways == Spec => []TreesFollowTheGame
  <1>1. TreeInv => TreesFollowTheGame
    BY ModelForIsAModel DEF TreeInv, Follows, TreesFollowTheGame, NoiseAt
  <1> QED
    BY <1>1, TreeInit, TreeNext, ParametersAreValid, PTL DEF Spec

-----------------------------------------------------------------------------
(* The requests in the pipes. *)

BoardId == Nat \X Nat \X Nat
Request == [worker : Nat, boards : Seq(BoardId)]

Batch(m) == inference[m].batch

PipeTypes ==
    /\ workers_flag \in Nat
    /\ queue \in [Models -> Seq(Request)]
    /\ DOMAIN inference = Models
    /\ \A m \in Models : DOMAIN inference[m] = {"pc", "batch"} /\ Batch(m) \in Seq(Request)

\* Where a worker is whose request may be in the pipes: it waits for the
\* answer, or an exception took it away from there.
Asked == {"wait", "throw", "done"}

\* Worker w may have a request in the pipes.
Waits(w) == worker[w].pc \in Asked /\ worker[w].answer = NoAnswer /\ workers_flag # 1

\* A request in the pipe of m is its worker's last one, about the position the
\* worker stands at.
IsPending(flag, threads, m, r) ==
    LET k == threads[r.worker]
    IN  /\ r.worker \in DOMAIN threads /\ k.pc \in Asked /\ k.answer = NoAnswer /\ flag # 1
        /\ r.boards = BoardsOf(r.worker, k.ply) /\ m = ModelFor(k.game, k.ply)

\* All requests are pending, ...
AllPending ==
    \A m \in Models :
        /\ \A i \in 1 .. Len(queue[m]) : IsPending(workers_flag, worker, m, queue[m][i])
        /\ \A i \in 1 .. Len(Batch(m)) : IsPending(workers_flag, worker, m, Batch(m)[i])

\* ... and a worker has one at most.
Distinct(items, batch) ==
    /\ \A i, j \in 1 .. Len(items) : items[i].worker = items[j].worker => i = j
    /\ \A i, j \in 1 .. Len(batch) : batch[i].worker = batch[j].worker => i = j
    /\ \A i \in 1 .. Len(items), j \in 1 .. Len(batch) : items[i].worker # batch[j].worker

OneEach == \A m \in Models : Distinct(queue[m], Batch(m))

AnswerInv == TreeInv /\ PipeTypes /\ AllPending /\ OneEach /\ AnswersAreOwn

\* The boards of a request are a sequence of names.
LEMMA BoardsType ==
    ASSUME NEW w \in Nat, NEW ply \in Nat
    PROVE  BoardsOf(w, ply) \in Seq(BoardId)
  <1>1. 1 + (ply % 2) \in Nat
    OBVIOUS
  <1>2. \A i \in 1 .. 1 + (ply % 2) : <<w, ply, i>> \in BoardId
    BY <1>1 DEF BoardId
  <1> QED
    BY <1>1, <1>2 DEF BoardsOf

\* Workers are numbered.
LEMMA WorkersAreNatural ==
    ASSUME ParametersAreValid, PipeTypes
    PROVE  Workers \subseteq Nat
  BY DEF ParametersAreValid, PipeTypes, Workers

\* The invariant holds before the first request.
LEMMA AnswerInit == ParametersAreValid /\ Init => AnswerInv
  <1> SUFFICES ASSUME ParametersAreValid, Init PROVE AnswerInv
    OBVIOUS
  <1>1. PipeTypes
    <2>1. <<>> \in Seq(Request)
      BY EmptySeq
    <2>2. workers_flag \in Nat
      BY DEF Init, ParametersAreValid
    <2>3. queue \in [Models -> Seq(Request)]
      BY <2>1 DEF Init
    <2>4. Idle.batch = <<>> /\ DOMAIN Idle = {"pc", "batch"}
      BY DEF Idle
    <2>5. DOMAIN inference = Models /\ \A m \in Models : inference[m] = Idle
      BY DEF Init
    <2> QED
      BY <2>1, <2>2, <2>3, <2>4, <2>5 DEF PipeTypes, Batch
  <1>2. \A m \in Models : Len(queue[m]) = 0 /\ Len(Batch(m)) = 0
    <2>1. Len(<<>>) = 0
      BY EmptySeq
    <2>2. \A m \in Models : queue[m] = <<>> /\ Batch(m) = <<>>
      BY DEF Init, Batch, Idle
    <2> QED
      BY <2>1, <2>2
  <1>3. AllPending /\ OneEach
    BY <1>2 DEF AllPending, OneEach, Distinct
  <1>4. AnswersAreOwn
    BY DEF Init, AnswersAreOwn, Fresh
  <1> QED
    BY <1>1, <1>3, <1>4, TreeInit DEF AnswerInv

\* A worker that waits for nothing has no request in the pipes.
LEMMA NothingPending ==
    ASSUME AnswerInv, NEW w \in Workers, ~Waits(w), NEW m \in Models
    PROVE  /\ \A i \in 1 .. Len(queue[m]) : queue[m][i].worker # w
           /\ \A i \in 1 .. Len(Batch(m)) : Batch(m)[i].worker # w
  BY DEF AnswerInv, AllPending, IsPending, Waits

\* A request stays pending while its worker's record stays.
LEMMA StillPending ==
    ASSUME NEW flag, NEW threads, NEW after, NEW m, NEW r, IsPending(flag, threads, m, r),
           DOMAIN after = DOMAIN threads, after[r.worker] = threads[r.worker]
    PROVE  IsPending(flag, after, m, r)
  BY DEF IsPending

\* A worker that waits for nothing may change its own record, as long as the
\* answer it has is about the position it is at; one that waits may go away.
LEMMA WorkerMoves ==
    ASSUME AnswerInv, TreeInv', NEW w \in Workers,
           \/ ~Waits(w)
           \/ /\ worker'[w].pc \in Asked /\ worker'[w].answer = worker[w].answer
              /\ worker'[w].ply = worker[w].ply /\ worker'[w].game = worker[w].game,
           \A v \in Workers : v # w => worker'[v] = worker[v],
           worker'[w].answer # NoAnswer => worker'[w].answer = BoardsOf(w, worker'[w].ply),
           UNCHANGED <<workers_flag, queue, inference>>
    PROVE  AnswerInv'
  <1>0. Workers' = Workers /\ DOMAIN worker = Workers /\ DOMAIN worker' = Workers
    BY DEF Workers, AnswerInv, TreeInv
  <1>1. PipeTypes'
    BY DEF AnswerInv, PipeTypes, Batch
  <1>2. OneEach'
    BY DEF AnswerInv, OneEach, Distinct, Batch
  <1>3. AllPending'
    <2>1. ASSUME NEW m \in Models, NEW r, IsPending(workers_flag, worker, m, r)
          PROVE  IsPending(workers_flag', worker', m, r)
      <3>0. r.worker \in Workers
        BY <1>0, <2>1 DEF IsPending
      <3>1. CASE r.worker # w
        <4>1. worker'[r.worker] = worker[r.worker]
          BY <3>0, <3>1
        <4>2. IsPending(workers_flag, worker', m, r)
          BY <1>0, <2>1, <4>1, StillPending
        <4> QED
          BY <4>2
      <3>2. CASE r.worker = w
        <4>1. Waits(w)
          BY <2>1, <3>2 DEF IsPending, Waits
        <4>2. /\ worker'[w].pc \in Asked /\ worker'[w].answer = worker[w].answer
              /\ worker'[w].ply = worker[w].ply /\ worker'[w].game = worker[w].game
          BY <4>1
        <4> QED
          BY <1>0, <2>1, <3>2, <4>2 DEF IsPending
      <3> QED
        BY <3>1, <3>2
    <2>2. \A m \in Models :
             /\ \A i \in 1 .. Len(queue[m]) : IsPending(workers_flag', worker', m, queue[m][i])
             /\ \A i \in 1 .. Len(Batch(m)) : IsPending(workers_flag', worker', m, Batch(m)[i])
      BY <2>1 DEF AnswerInv, AllPending
    <2> QED
      BY <2>2 DEF AllPending, Batch
  <1>4. AnswersAreOwn'
    <2>1. \A v \in Workers : worker'[v].answer # NoAnswer => worker'[v].answer = BoardsOf(v, worker'[v].ply)
      BY DEF AnswerInv, AnswersAreOwn
    <2> QED
      BY <1>0, <2>1 DEF AnswersAreOwn, BoardsOf, NoAnswer
  <1> QED
    BY <1>1, <1>2, <1>3, <1>4 DEF AnswerInv

\* The steps of a worker that is not in a decision, or is thrown out of one.
LEMMA BusyWorkerKeepsAnswers ==
    ASSUME AnswerInv, TreeInv', NEW w \in Workers,
           \/ CheckStop(w) \/ Claim(w) \/ BeginWrite(w) \/ WriteExample(w) \/ EndWrite(w)
           \/ StoreStop(w) \/ Throw(w)
    PROVE  AnswerInv'
  <1> DEFINE k == worker[w]
  <1>0. /\ DOMAIN worker = Workers /\ DOMAIN k = Fields
        /\ k.answer # NoAnswer => k.answer = BoardsOf(w, k.ply)
    BY DEF AnswerInv, TreeInv, IsWorker, AnswersAreOwn
  <1>u. UNCHANGED <<workers_flag, queue, inference>>
    BY DEF CheckStop, Claim, BeginWrite, WriteExample, EndWrite, StoreStop, Throw, pipes
  <1>2. ASSUME NEW j, worker' = [worker EXCEPT ![w] = j],
               \/ ~Waits(w)
               \/ j.pc \in Asked /\ j.answer = k.answer /\ j.ply = k.ply /\ j.game = k.game,
               j.answer # NoAnswer => j.answer = BoardsOf(w, j.ply)
        PROVE  AnswerInv'
    <2>1. worker'[w] = j /\ \A v \in Workers : v # w => worker'[v] = worker[v]
      BY <1>0, <1>2
    <2> QED
      BY <1>u, <1>2, <2>1, WorkerMoves
  <1>3. ASSUME NEW pc, worker' = [worker EXCEPT ![w].pc = pc], ~Waits(w) \/ pc \in Asked
        PROVE  AnswerInv'
    <2> DEFINE j == [k EXCEPT !.pc = pc]
    <2>1. worker' = [worker EXCEPT ![w] = j]
      BY <1>3, Zenon
    <2> HIDE DEF k
    <2>2. j.pc = pc /\ j.answer = k.answer /\ j.ply = k.ply /\ j.game = k.game
      BY <1>0 DEF Fields
    <2> HIDE DEF j
    <2> QED
      BY <1>0, <1>2, <1>3, <2>1, <2>2
  <1>4. CASE CheckStop(w)
    <2> DEFINE pc == IF stop THEN "done" ELSE "claim"
    <2>1. worker' = [worker EXCEPT ![w].pc = pc]
      BY <1>4, Zenon DEF CheckStop, Goes
    <2>2. ~Waits(w)
      BY <1>4 DEF CheckStop, At, Waits, Asked
    <2> HIDE DEF pc
    <2> QED
      BY <1>3, <2>1, <2>2
  <1>5. CASE EndWrite(w) \/ StoreStop(w) \/ Throw(w)
    <2>1. CASE EndWrite(w)
      <3>1. worker' = [worker EXCEPT ![w].pc = "loop"] /\ ~Waits(w)
        BY <2>1 DEF EndWrite, Goes, At, Waits, Asked
      <3> QED
        BY <1>3, <3>1
    <2>2. CASE StoreStop(w) \/ Throw(w)
      <3>1. \E pc \in {"done", "throw"} : worker' = [worker EXCEPT ![w].pc = pc]
        BY <2>2, Zenon DEF StoreStop, Throw, Goes
      <3> QED
        BY <1>3, <3>1 DEF Asked
    <2> QED
      BY <1>5, <2>1, <2>2
  <1>6. CASE Claim(w)
    <2> DEFINE j == IF next_game >= Games THEN [Fresh EXCEPT !.pc = "done"]
                    ELSE [Fresh EXCEPT !.pc = "decide", !.game = next_game]
    <2>0. ~Waits(w)
      BY <1>6 DEF Claim, At, Waits, Asked
    <2>1. worker' = [worker EXCEPT ![w] = j]
      BY <1>6, Zenon DEF Claim
    <2>2. j.answer = NoAnswer
      BY DEF Fresh
    <2> HIDE DEF j
    <2> QED
      BY <1>2, <2>0, <2>1, <2>2
  <1>7. CASE BeginWrite(w)
    <2> DEFINE x == Examples(k.game)
               j == [k EXCEPT !.pc = "write", !.todo = x]
    <2>0. ~Waits(w)
      BY <1>7 DEF BeginWrite, At, Waits, Asked
    <2>1. worker' = [worker EXCEPT ![w] = j]
      BY <1>7, Zenon DEF BeginWrite
    <2> HIDE DEF k, x
    <2>2. j.answer = k.answer /\ j.ply = k.ply
      BY <1>0 DEF Fields
    <2> HIDE DEF j
    <2> QED
      BY <1>0, <1>2, <2>0, <2>1, <2>2
  <1>8. CASE WriteExample(w)
    <2> DEFINE x == k.todo \ {Min(k.todo)}
               j == [k EXCEPT !.todo = x]
    <2>0. ~Waits(w)
      BY <1>8 DEF WriteExample, At, Waits, Asked
    <2>1. worker' = [worker EXCEPT ![w] = j]
      BY <1>8, Zenon DEF WriteExample
    <2> HIDE DEF k, x
    <2>2. j.answer = k.answer /\ j.ply = k.ply
      BY <1>0 DEF Fields
    <2> HIDE DEF j
    <2> QED
      BY <1>0, <1>2, <2>0, <2>1, <2>2
  <1> QED
    BY <1>4, <1>5, <1>6, <1>7, <1>8

\* An action played keeps it.
LEMMA PlayKeepsAnswers ==
    ASSUME AnswerInv, TreeInv', NEW w \in Workers, PlayAction(w)
    PROVE  AnswerInv'
  <1> DEFINE k == worker[w]
             t(lost) == SelectAction(k.searches, lost, ModelFor(k.game, k.ply), k.ply)
             p == k.ply + 1
             j(lost) == [k EXCEPT !.pc = "decide", !.answer = NoAnswer, !.ply = p, !.searches = t(lost)]
  <1>0. DOMAIN worker = Workers /\ DOMAIN k = Fields
    BY DEF AnswerInv, TreeInv, IsWorker
  <1>u. UNCHANGED <<workers_flag, queue, inference>>
    BY DEF PlayAction, pipes
  <1>1. ~Waits(w)
    BY DEF PlayAction, Waits
  <1>2. \E lost : worker' = [worker EXCEPT ![w] = j(lost)]
    BY Zenon DEF PlayAction
  <1> HIDE DEF k, t, p
  <1>3. \A lost : j(lost).answer = NoAnswer
    BY <1>0 DEF Fields
  <1> HIDE DEF j
  <1>4. worker'[w].answer = NoAnswer /\ \A v \in Workers : v # w => worker'[v] = worker[v]
    BY <1>0, <1>2, <1>3
  <1> QED
    BY <1>u, <1>1, <1>4, WorkerMoves

\* So does one the solver proved.
LEMMA SolvedKeepsAnswers ==
    ASSUME AnswerInv, TreeInv', NEW w \in Workers, PlaySolved(w)
    PROVE  AnswerInv'
  <1> DEFINE k == worker[w]
             m == ModelFor(k.game, k.ply)
             t(lost) == SelectAction([k.searches EXCEPT ![m] = SearchOf(w)], lost, m, k.ply)
             p == k.ply + 1
             j(lost) == [k EXCEPT !.answer = NoAnswer, !.ply = p, !.searches = t(lost)]
  <1>0. DOMAIN worker = Workers /\ DOMAIN k = Fields
    BY DEF AnswerInv, TreeInv, IsWorker
  <1>u. UNCHANGED <<workers_flag, queue, inference>>
    BY DEF PlaySolved, pipes
  <1>1. ~Waits(w)
    BY DEF PlaySolved, At, Waits, Asked
  <1>2. \E lost : worker' = [worker EXCEPT ![w] = j(lost)]
    BY Zenon DEF PlaySolved
  <1> HIDE DEF k, t, p
  <1>3. \A lost : j(lost).answer = NoAnswer
    BY <1>0 DEF Fields
  <1> HIDE DEF j
  <1>4. worker'[w].answer = NoAnswer /\ \A v \in Workers : v # w => worker'[v] = worker[v]
    BY <1>0, <1>2, <1>3
  <1> QED
    BY <1>u, <1>1, <1>4, WorkerMoves

\* A request is submitted: the immediate executor answers it, the batching one
\* queues it.
LEMMA SubmitKeepsAnswers ==
    ASSUME ParametersAreValid, AnswerInv, TreeInv', NEW w \in Workers, Submit(w)
    PROVE  AnswerInv'
  <1> DEFINE k == worker[w]
             m == ModelFor(k.game, k.ply)
             boards == BoardsOf(w, k.ply)
             a == IF Immediate THEN boards ELSE NoAnswer
             s == Searching(w)
             j == [k EXCEPT !.pc = "wait", !.searches[m] = s, !.answer = a]
             r == [worker |-> w, boards |-> boards]
  <1>0. /\ DOMAIN worker = Workers /\ DOMAIN k = Fields /\ k.ply \in Nat /\ m \in Models
        /\ PipeTypes /\ AllPending /\ OneEach
    BY ModelForIsAModel DEF AnswerInv, TreeInv, IsWorker
  <1>u. UNCHANGED <<workers_flag, inference>> /\ Workers' = Workers /\ DOMAIN worker' = Workers
    BY DEF Submit, TreeInv, Workers
  <1>1. ~Waits(w)
    BY DEF Submit, At, Waits, Asked
  <1>2. worker' = [worker EXCEPT ![w] = j]
    BY Zenon DEF Submit
  <1>3. queue' = IF Immediate THEN queue ELSE [queue EXCEPT ![m] = Append(queue[m], r)]
    BY Zenon DEF Submit
  <1>4. boards \in Seq(BoardId) /\ w \in Nat
    BY <1>0, WorkersAreNatural, BoardsType
  <1>5. r \in Request /\ r.worker = w /\ r.boards = boards
    BY <1>4 DEF Request
  <1> HIDE DEF k, s, a, r
  <1>6. j.answer = a /\ j.ply = k.ply /\ j.pc = "wait" /\ j.game = k.game
    BY <1>0 DEF Fields
  <1> HIDE DEF j
  <1>7. worker'[w] = j /\ \A v \in Workers : v # w => worker'[v] = worker[v]
    BY <1>0, <1>2
  <1>8. CASE Immediate
    <2>1. j.answer = BoardsOf(w, j.ply) /\ queue' = queue
      BY <1>3, <1>6, <1>8 DEF a
    <2> QED
      BY <1>u, <1>1, <1>7, <2>1, WorkerMoves
  <1>9. CASE ~Immediate
    <2> DEFINE q == queue[m]
    <2> HIDE DEF m, boards
    <2>1. queue' = [queue EXCEPT ![m] = Append(q, r)] /\ j.answer = NoAnswer /\ workers_flag # 1
      BY <1>3, <1>6, <1>9 DEF a, Immediate
    <2>2. q \in Seq(Request) /\ Len(q) \in Nat
      BY <1>0, LenProperties DEF PipeTypes
    <2>3. /\ Append(q, r) \in Seq(Request) /\ Len(Append(q, r)) = Len(q) + 1
          /\ \A i \in 1 .. Len(q) : Append(q, r)[i] = q[i]
          /\ Append(q, r)[Len(q) + 1] = r
      BY <1>5, <2>2, AppendProperties
    <2>4. queue' \in [Models -> Seq(Request)] /\ queue'[m] = Append(q, r)
            /\ \A n \in Models : n # m => queue'[n] = queue[n]
      BY <1>0, <2>1, <2>3 DEF PipeTypes
    <2>5. \A n \in Models : \A i \in 1 .. Len(queue'[n]) :
             \/ i \in 1 .. Len(queue[n]) /\ queue'[n][i] = queue[n][i]
             \/ n = m /\ i = Len(q) + 1 /\ queue'[n][i] = r
      <3> SUFFICES ASSUME NEW n \in Models, NEW i \in 1 .. Len(queue'[n])
                   PROVE  \/ i \in 1 .. Len(queue[n]) /\ queue'[n][i] = queue[n][i]
                          \/ n = m /\ i = Len(q) + 1 /\ queue'[n][i] = r
        OBVIOUS
      <3>1. CASE n # m
        BY <2>4, <3>1
      <3>2. CASE n = m
        <4>1. i \in 1 .. Len(q) + 1 /\ queue'[n] = Append(q, r)
          BY <2>3, <2>4, <3>2
        <4>2. i \in 1 .. Len(q) \/ i = Len(q) + 1
          BY <2>2, <4>1
        <4> QED
          BY <2>3, <3>2, <4>1, <4>2
      <3> QED
        BY <3>1, <3>2
    <2>6. \A n \in Models : /\ \A i \in 1 .. Len(queue[n]) : queue[n][i].worker # w
                            /\ \A i \in 1 .. Len(Batch(n)) : Batch(n)[i].worker # w
      BY <1>1, NothingPending
    <2>7. PipeTypes'
      BY <1>0, <1>u, <2>4 DEF PipeTypes, Batch
    <2>8. IsPending(workers_flag', worker', m, r)
      <3>1. BoardsOf(w, k.ply) = boards /\ ModelFor(k.game, k.ply) = m
        BY DEF boards, m
      <3> QED
        BY <1>u, <1>5, <1>6, <1>7, <2>1, <3>1 DEF IsPending, Asked
    <2>9. ASSUME NEW n \in Models, NEW x, IsPending(workers_flag, worker, n, x), x.worker # w
          PROVE  IsPending(workers_flag', worker', n, x)
      <3>1. x.worker \in Workers
        BY <1>0, <2>9 DEF IsPending
      <3>2. worker'[x.worker] = worker[x.worker]
        BY <1>7, <2>9, <3>1
      <3>3. IsPending(workers_flag, worker', n, x)
        BY <1>0, <1>u, <2>9, <3>2, StillPending
      <3> QED
        BY <1>u, <3>3
    <2>10. AllPending'
      <3>1. \A n \in Models : \A i \in 1 .. Len(queue'[n]) :
               IsPending(workers_flag', worker', n, queue'[n][i])
        <4> SUFFICES ASSUME NEW n \in Models, NEW i \in 1 .. Len(queue'[n])
                     PROVE  IsPending(workers_flag', worker', n, queue'[n][i])
          OBVIOUS
        <4>1. CASE i \in 1 .. Len(queue[n]) /\ queue'[n][i] = queue[n][i]
          <5>1. IsPending(workers_flag, worker, n, queue[n][i]) /\ queue[n][i].worker # w
            BY <1>0, <2>6, <4>1 DEF AllPending
          <5> QED
            BY <2>9, <4>1, <5>1
        <4>2. CASE n = m /\ queue'[n][i] = r
          BY <2>8, <4>2
        <4> QED
          BY <2>5, <4>1, <4>2
      <3>2. \A n \in Models : \A i \in 1 .. Len(Batch(n)) :
               IsPending(workers_flag', worker', n, Batch(n)[i])
        BY <1>0, <2>6, <2>9 DEF AllPending
      <3> QED
        BY <1>u, <3>1, <3>2 DEF AllPending, Batch
    <2>11. OneEach'
      <3>1. ASSUME NEW n \in Models, NEW i \in 1 .. Len(queue'[n]), NEW l \in 1 .. Len(queue'[n]),
                   queue'[n][i].worker = queue'[n][l].worker
            PROVE  i = l
        <4>1. \/ i \in 1 .. Len(queue[n]) /\ queue'[n][i] = queue[n][i]
              \/ n = m /\ i = Len(q) + 1 /\ queue'[n][i] = r
          BY <2>5
        <4>2. \/ l \in 1 .. Len(queue[n]) /\ queue'[n][l] = queue[n][l]
              \/ n = m /\ l = Len(q) + 1 /\ queue'[n][l] = r
          BY <2>5
        <4>3. CASE i \in 1 .. Len(queue[n]) /\ l \in 1 .. Len(queue[n])
          <5>1. queue'[n][i] = queue[n][i] /\ queue'[n][l] = queue[n][l]
            BY <2>2, <4>1, <4>2, <4>3
          <5> QED
            BY <1>0, <3>1, <4>3, <5>1 DEF OneEach, Distinct
        <4>4. CASE i \notin 1 .. Len(queue[n]) /\ l \notin 1 .. Len(queue[n])
          BY <4>1, <4>2, <4>4
        <4>5. CASE i \in 1 .. Len(queue[n]) /\ l \notin 1 .. Len(queue[n])
          <5>1. n = m /\ queue'[n][l] = r /\ queue'[n][i] = queue[n][i]
            BY <2>2, <4>1, <4>2, <4>5
          <5> QED
            BY <1>5, <2>6, <3>1, <4>5, <5>1
        <4>6. CASE i \notin 1 .. Len(queue[n]) /\ l \in 1 .. Len(queue[n])
          <5>1. n = m /\ queue'[n][i] = r /\ queue'[n][l] = queue[n][l]
            BY <2>2, <4>1, <4>2, <4>6
          <5> QED
            BY <1>5, <2>6, <3>1, <4>6, <5>1
        <4> QED
          BY <4>3, <4>4, <4>5, <4>6
      <3>2. ASSUME NEW n \in Models, NEW i \in 1 .. Len(queue'[n]), NEW l \in 1 .. Len(Batch(n))
            PROVE  queue'[n][i].worker # Batch(n)[l].worker
        <4>1. \/ i \in 1 .. Len(queue[n]) /\ queue'[n][i] = queue[n][i]
              \/ n = m /\ i = Len(q) + 1 /\ queue'[n][i] = r
          BY <2>5
        <4> QED
          BY <1>0, <1>5, <2>6, <4>1 DEF OneEach, Distinct
      <3> QED
        BY <1>0, <1>u, <3>1, <3>2 DEF OneEach, Distinct, Batch
    <2>12. AnswersAreOwn'
      <3>1. \A v \in Workers : worker'[v].answer # NoAnswer => worker'[v].answer = BoardsOf(v, worker'[v].ply)
        BY <1>7, <2>1 DEF AnswerInv, AnswersAreOwn
      <3> QED
        BY <1>u, <3>1 DEF AnswersAreOwn, BoardsOf, NoAnswer
    <2> QED
      BY <2>7, <2>10, <2>11, <2>12 DEF AnswerInv
  <1> QED
    BY <1>8, <1>9

\* The steps of an inference thread that answers nothing.
LEMMA PipeKeepsAnswers ==
    ASSUME AnswerInv, TreeInv', NEW m \in Models, UNCHANGED <<workers_flag, worker>>,
           queue' \in [Models -> Seq(Request)], DOMAIN inference' = Models,
           DOMAIN inference'[m] = {"pc", "batch"}, inference'[m].batch \in Seq(Request),
           \A n \in Models : n # m => queue'[n] = queue[n] /\ inference'[n] = inference[n],
           \/ queue'[m] = queue[m] /\ inference'[m].batch = inference[m].batch
           \/ \E d \in Nat : /\ d + Len(queue'[m]) = Len(queue[m])
                             /\ Len(inference'[m].batch) = d
                             /\ \A i \in 1 .. d : inference'[m].batch[i] = queue[m][i]
                             /\ \A i \in 1 .. Len(queue'[m]) : queue'[m][i] = queue[m][d + i]
    PROVE  AnswerInv'
  <1> DEFINE q == queue[m]
             qn == queue'[m]
             bn == inference'[m].batch
  <1>0. Workers' = Workers /\ PipeTypes /\ AllPending /\ OneEach /\ q \in Seq(Request) /\ qn \in Seq(Request)
    BY DEF Workers, AnswerInv, PipeTypes
  <1>l. Len(q) \in Nat /\ Len(qn) \in Nat /\ Len(bn) \in Nat
    BY <1>0, LenProperties
  <1>1. PipeTypes'
    <2>1. \A n \in Models : DOMAIN inference'[n] = {"pc", "batch"} /\ inference'[n].batch \in Seq(Request)
      BY <1>0 DEF PipeTypes, Batch
    <2> QED
      BY <1>0, <2>1 DEF PipeTypes, Batch
  <1>2. AnswersAreOwn'
    BY <1>0 DEF AnswerInv, AnswersAreOwn, BoardsOf, NoAnswer
  <1>3. CASE qn = q /\ bn = inference[m].batch
    <2>1. \A n \in Models : queue'[n] = queue[n] /\ inference'[n].batch = inference[n].batch
      BY <1>3
    <2>2. AllPending'
      BY <1>0, <2>1 DEF AllPending, Batch
    <2>3. OneEach'
      <3>1. \A n \in Models : queue[n]' = queue[n] /\ Batch(n)' = Batch(n)
        BY <2>1 DEF Batch
      <3> QED
        BY <1>0, <3>1 DEF OneEach
    <2> QED
      BY <1>1, <1>2, <2>2, <2>3 DEF AnswerInv
  <1>4. ASSUME NEW d \in Nat, d + Len(qn) = Len(q), Len(bn) = d,
               \A i \in 1 .. d : bn[i] = q[i],
               \A i \in 1 .. Len(qn) : qn[i] = q[d + i]
        PROVE  AnswerInv'
    <2>1. \A i \in 1 .. Len(bn) : i \in 1 .. Len(q) /\ bn[i] = q[i]
      BY <1>l, <1>4
    <2>2. \A i \in 1 .. Len(qn) : d + i \in 1 .. Len(q) /\ qn[i] = q[d + i]
      BY <1>l, <1>4
    <2>3. \A i \in 1 .. Len(q) : IsPending(workers_flag, worker, m, q[i])
      BY <1>0 DEF AllPending
    <2>4. \A i, j \in 1 .. Len(q) : q[i].worker = q[j].worker => i = j
      BY <1>0 DEF OneEach, Distinct
    <2> HIDE DEF q, qn, bn
    <2>5. /\ \A i \in 1 .. Len(qn) : IsPending(workers_flag, worker, m, qn[i])
          /\ \A i \in 1 .. Len(bn) : IsPending(workers_flag, worker, m, bn[i])
      BY <2>1, <2>2, <2>3
    <2>6. \A i, j \in 1 .. Len(bn) : bn[i].worker = bn[j].worker => i = j
      BY <2>1, <2>4
    <2>7. ASSUME NEW i \in 1 .. Len(qn), NEW j \in 1 .. Len(qn), qn[i].worker = qn[j].worker
          PROVE  i = j
      <3>1. d + i = d + j
        BY <2>2, <2>4, <2>7
      <3> QED
        BY <1>l, <3>1
    <2>8. ASSUME NEW i \in 1 .. Len(qn), NEW j \in 1 .. Len(bn), qn[i].worker = bn[j].worker
          PROVE  FALSE
      <3>1. d + i = j
        BY <2>1, <2>2, <2>4, <2>8
      <3> QED
        BY <1>l, <1>4, <3>1
    <2>9. AllPending'
      <3>1. ASSUME NEW n \in Models
            PROVE  /\ \A i \in 1 .. Len(queue'[n]) : IsPending(workers_flag, worker, n, queue'[n][i])
                   /\ \A i \in 1 .. Len(inference'[n].batch) :
                         IsPending(workers_flag, worker, n, inference'[n].batch[i])
        <4>1. CASE n = m
          BY <2>5, <4>1 DEF qn, bn
        <4>2. CASE n # m
          BY <1>0, <4>2 DEF AllPending, Batch
        <4> QED
          BY <4>1, <4>2
      <3> QED
        BY <3>1 DEF AllPending, Batch
    <2>10. OneEach'
      <3>1. ASSUME NEW n \in Models
            PROVE  Distinct(queue'[n], inference'[n].batch)
        <4>1. CASE n = m
          BY <2>6, <2>7, <2>8, <4>1 DEF qn, bn, Distinct
        <4>2. CASE n # m
          <5>1. queue'[n] = queue[n] /\ inference'[n].batch = Batch(n)
            BY <4>2 DEF Batch
          <5> QED
            BY <1>0, <5>1 DEF OneEach
        <4> QED
          BY <4>1, <4>2
      <3> QED
        BY <3>1 DEF OneEach, Batch
    <2> QED
      BY <1>1, <1>2, <2>9, <2>10 DEF AnswerInv
  <1> QED
    BY <1>3, <1>4

\* A batch takes a prefix of the queue and leaves the rest.
LEMMA DrainedSplits ==
    ASSUME ParametersAreValid, NEW q \in Seq(Request)
    PROVE  LET d == Drained(q)
               taken == SubSeq(q, 1, d)
               left == SubSeq(q, d + 1, Len(q))
           IN  /\ d \in Nat /\ taken \in Seq(Request) /\ left \in Seq(Request)
               /\ d + Len(left) = Len(q) /\ Len(taken) = d
               /\ \A i \in 1 .. d : taken[i] = q[i]
               /\ \A i \in 1 .. Len(left) : left[i] = q[d + i]
  <1> DEFINE d == Drained(q)
             taken == SubSeq(q, 1, d)
             left == SubSeq(q, d + 1, Len(q))
  <1>1. Len(q) \in Nat /\ \A i \in 1 .. Len(q) : q[i] \in Request
    BY LenProperties
  <1>2. d \in Nat /\ d <= Len(q)
    BY <1>1 DEF Drained, ParametersAreValid
  <1> HIDE DEF d
  <1>3. /\ taken \in Seq(Request) /\ Len(taken) = IF 1 <= d THEN d - 1 + 1 ELSE 0
        /\ \A i \in 1 .. d - 1 + 1 : taken[i] = q[1 + i - 1]
    <2>1. \A i \in 1 .. d : q[i] \in Request
      BY <1>1, <1>2
    <2>2. 1 \in Int /\ d \in Int
      BY <1>2
    <2> QED
      BY <2>1, <2>2, SubSeqProperties
  <1>4. /\ left \in Seq(Request) /\ Len(left) = IF d + 1 <= Len(q) THEN Len(q) - (d + 1) + 1 ELSE 0
        /\ \A i \in 1 .. Len(q) - (d + 1) + 1 : left[i] = q[d + 1 + i - 1]
    <2>1. \A i \in d + 1 .. Len(q) : q[i] \in Request
      BY <1>1, <1>2
    <2>2. d + 1 \in Int /\ Len(q) \in Int
      BY <1>1, <1>2
    <2> QED
      BY <2>1, <2>2, SubSeqProperties
  <1> HIDE DEF taken, left
  <1>5. Len(taken) = d /\ \A i \in 1 .. d : taken[i] = q[i]
    BY <1>2, <1>3
  <1>6. d + Len(left) = Len(q)
    BY <1>1, <1>2, <1>4
  <1>7. \A i \in 1 .. Len(left) : left[i] = q[d + i]
    BY <1>1, <1>2, <1>4, <1>6
  <1> QED
    BY <1>2, <1>3, <1>4, <1>5, <1>6, <1>7 DEF d, taken, left

\* So do the steps of the inference thread that answer nobody.
LEMMA ThreadKeepsAnswers ==
    ASSUME ParametersAreValid, AnswerInv, TreeInv', NEW m \in Models,
           Wake(m) \/ PopBatch(m) \/ ThreadExits(m)
    PROVE  AnswerInv'
  <1> DEFINE q == queue[m]
             f == inference[m]
  <1>0. /\ queue \in [Models -> Seq(Request)] /\ q \in Seq(Request) /\ DOMAIN inference = Models
        /\ DOMAIN f = {"pc", "batch"} /\ f.batch \in Seq(Request)
    BY DEF AnswerInv, PipeTypes, Batch
  <1>u. UNCHANGED <<workers_flag, worker>>
    BY DEF Wake, PopBatch, ThreadExits, others
  <1>1. ASSUME NEW pc, inference' = [inference EXCEPT ![m].pc = pc], queue' = queue
        PROVE  AnswerInv'
    <2> DEFINE g == [f EXCEPT !.pc = pc]
    <2>1. inference' = [inference EXCEPT ![m] = g]
      BY <1>1, Zenon
    <2> HIDE DEF f
    <2>2. DOMAIN g = {"pc", "batch"} /\ g.batch = f.batch
      BY <1>0
    <2> HIDE DEF g
    <2>3. inference'[m] = g /\ DOMAIN inference' = Models /\ \A n \in Models : n # m => inference'[n] = inference[n]
      BY <1>0, <2>1
    <2> USE DEF f
    <2> QED
      BY <1>0, <1>u, <1>1, <2>2, <2>3, PipeKeepsAnswers
  <1>2. CASE Wake(m) \/ ThreadExits(m)
    <2>1. \E pc \in {"coalesce", "exited"} : inference' = [inference EXCEPT ![m].pc = pc] /\ queue' = queue
      BY <1>2, Zenon DEF Wake, ThreadExits
    <2> QED
      BY <1>1, <2>1
  <1>3. CASE PopBatch(m)
    <2> DEFINE d == Drained(q)
               taken == SubSeq(q, 1, d)
               left == SubSeq(q, d + 1, Len(q))
               g == [pc |-> "run", batch |-> taken]
    <2>1. inference' = [inference EXCEPT ![m] = g] /\ queue' = [queue EXCEPT ![m] = left]
      BY <1>3, Zenon DEF PopBatch
    <2>2. /\ d \in Nat /\ taken \in Seq(Request) /\ left \in Seq(Request)
          /\ d + Len(left) = Len(q) /\ Len(taken) = d
          /\ \A i \in 1 .. d : taken[i] = q[i]
          /\ \A i \in 1 .. Len(left) : left[i] = q[d + i]
      BY <1>0, DrainedSplits
    <2> HIDE DEF taken, left, d
    <2>3. DOMAIN g = {"pc", "batch"} /\ g.batch = taken
      OBVIOUS
    <2> HIDE DEF g
    <2>4. /\ inference'[m] = g /\ DOMAIN inference' = Models /\ queue'[m] = left
          /\ \A n \in Models : n # m => queue'[n] = queue[n] /\ inference'[n] = inference[n]
      BY <1>0, <2>1
    <2>5. queue' \in [Models -> Seq(Request)]
      BY <1>0, <2>1, <2>2
    <2>6. \E e \in Nat : /\ e + Len(queue'[m]) = Len(queue[m])
                         /\ Len(inference'[m].batch) = e
                         /\ \A i \in 1 .. e : inference'[m].batch[i] = queue[m][i]
                         /\ \A i \in 1 .. Len(queue'[m]) : queue'[m][i] = queue[m][e + i]
      BY <2>2, <2>3, <2>4
    <2>7. DOMAIN inference'[m] = {"pc", "batch"} /\ inference'[m].batch \in Seq(Request)
      BY <2>2, <2>3, <2>4
    <2> QED
      BY <1>u, <2>4, <2>5, <2>6, <2>7, PipeKeepsAnswers
  <1> QED
    BY <1>2, <1>3

\* The promises of a batch are fulfilled: each worker in it gets the results of
\* its own request.
LEMMA LoopKeepsAnswers ==
    ASSUME ParametersAreValid, AnswerInv, TreeInv', NEW m \in Models, InferenceLoop(m)
    PROVE  AnswerInv'
  <1> DEFINE batch == Batch(m)
             mine(w) == {i \in DOMAIN batch : batch[i].worker = w}
             a(w) == RunBatch(batch)[Min(mine(w))]
  <1>0. /\ DOMAIN worker = Workers /\ \A w \in Workers : DOMAIN worker[w] = Fields
        /\ PipeTypes /\ AllPending /\ OneEach /\ batch \in Seq(Request)
    BY DEF AnswerInv, TreeInv, IsWorker, PipeTypes
  <1>u. UNCHANGED <<workers_flag, queue>> /\ Workers' = Workers /\ DOMAIN worker' = Workers
    BY DEF InferenceLoop, others, TreeInv, Workers
  <1>1. worker' = [w \in Workers |-> IF mine(w) = {} THEN worker[w]
                                     ELSE [worker[w] EXCEPT !.answer = a(w)]]
    BY Zenon DEF InferenceLoop, Batch
  <1>2. Len(batch) \in Nat /\ DOMAIN batch = 1 .. Len(batch)
    BY <1>0, LenProperties
  <1>3. /\ \A n \in Models : n # m => inference'[n] = inference[n]
        /\ inference'[m] = Idle /\ DOMAIN inference' = Models
    BY <1>0 DEF InferenceLoop, PipeTypes
  <1>4. Idle.batch = <<>> /\ DOMAIN Idle = {"pc", "batch"} /\ <<>> \in Seq(Request) /\ Len(<<>>) = 0
    BY EmptySeq DEF Idle
  <1>5. \A i \in 1 .. Len(batch) : IsPending(workers_flag, worker, m, batch[i])
    BY <1>0 DEF AllPending
  <1>6. ASSUME NEW w \in Workers, mine(w) # {}
        PROVE  a(w) = BoardsOf(w, worker[w].ply)
    <2> DEFINE i == Min(mine(w))
    <2>1. mine(w) \in SUBSET Nat
      BY <1>2
    <2>2. i \in mine(w)
      BY <1>6, <2>1, LeastNatural
    <2>3. i \in 1 .. Len(batch) /\ batch[i].worker = w
      BY <1>2, <2>2
    <2> HIDE DEF mine, i
    <2>4. RunBatch(batch)[i] = batch[i].boards
      BY <1>0, <2>3, ResultsAreOwn DEF Request
    <2>5. batch[i].boards = BoardsOf(w, worker[w].ply)
      BY <1>5, <2>3 DEF IsPending
    <2> QED
      BY <2>4, <2>5 DEF i
  <1>7. ASSUME NEW w \in Workers, \A i \in 1 .. Len(batch) : batch[i].worker # w
        PROVE  worker'[w] = worker[w]
    <2>1. mine(w) = {}
      BY <1>2, <1>7
    <2> HIDE DEF mine, a
    <2> QED
      BY <1>1, <2>1
  <1>8. PipeTypes'
    <2>1. \A n \in Models : DOMAIN inference'[n] = {"pc", "batch"} /\ inference'[n].batch \in Seq(Request)
      BY <1>0, <1>3, <1>4 DEF PipeTypes, Batch
    <2> QED
      BY <1>0, <1>u, <1>3, <2>1 DEF PipeTypes, Batch
  <1>9. AnswersAreOwn'
    <2>1. ASSUME NEW w \in Workers
          PROVE  worker'[w].answer # NoAnswer => worker'[w].answer = BoardsOf(w, worker'[w].ply)
      <3>1. CASE mine(w) = {}
        <4>1. worker'[w] = worker[w]
          BY <1>1, <3>1
        <4> QED
          BY <4>1 DEF AnswerInv, AnswersAreOwn
      <3>2. CASE mine(w) # {}
        <4> DEFINE k == worker[w]
                   b == a(w)
                   j == [k EXCEPT !.answer = b]
        <4>1. b = BoardsOf(w, k.ply)
          BY <1>6, <3>2
        <4> HIDE DEF mine, a, b
        <4>2. worker'[w] = j
          BY <1>1, <3>2 DEF b
        <4>3. DOMAIN k = Fields
          BY <1>0
        <4> HIDE DEF k
        <4>4. j.answer = b /\ j.ply = k.ply
          BY <4>3 DEF Fields
        <4> HIDE DEF j
        <4> QED
          BY <4>1, <4>2, <4>4
      <3> QED
        BY <3>1, <3>2
    <2> QED
      BY <1>u, <2>1 DEF AnswersAreOwn, BoardsOf, NoAnswer
  <1>10. ASSUME NEW n \in Models, NEW r, IsPending(workers_flag, worker, n, r),
                \A i \in 1 .. Len(batch) : batch[i].worker # r.worker
         PROVE  IsPending(workers_flag', worker', n, r)
    <2>1. r.worker \in Workers
      BY <1>0, <1>10 DEF IsPending
    <2>2. worker'[r.worker] = worker[r.worker]
      BY <1>7, <1>10, <2>1
    <2>3. IsPending(workers_flag, worker', n, r)
      BY <1>0, <1>u, <1>10, <2>2, StillPending
    <2> QED
      BY <1>u, <2>3
  \* A worker whose request is in the batch of m asked m, and no other model.
  <1>11. ASSUME NEW n \in Models, n # m, NEW r, IsPending(workers_flag, worker, n, r),
                NEW i \in 1 .. Len(batch), batch[i].worker = r.worker
         PROVE  FALSE
    <2>1. IsPending(workers_flag, worker, m, batch[i])
      BY <1>5
    <2>2. n = ModelFor(worker[r.worker].game, worker[r.worker].ply)
      BY <1>11 DEF IsPending
    <2>3. m = ModelFor(worker[r.worker].game, worker[r.worker].ply)
      BY <1>11, <2>1 DEF IsPending
    <2> QED
      BY <1>11, <2>2, <2>3
  <1>12. AllPending'
    <2>1. ASSUME NEW n \in Models, NEW i \in 1 .. Len(queue[n])
          PROVE  IsPending(workers_flag', worker', n, queue[n][i])
      <3>1. IsPending(workers_flag, worker, n, queue[n][i])
        BY <1>0 DEF AllPending
      <3>2. \A l \in 1 .. Len(batch) : batch[l].worker # queue[n][i].worker
        <4>1. CASE n = m
          BY <1>0, <4>1 DEF OneEach, Distinct
        <4>2. CASE n # m
          BY <1>11, <3>1, <4>2
        <4> QED
          BY <4>1, <4>2
      <3> QED
        BY <1>10, <3>1, <3>2
    <2>2. ASSUME NEW n \in Models, NEW i \in 1 .. Len(inference'[n].batch)
          PROVE  IsPending(workers_flag', worker', n, inference'[n].batch[i])
      <3>1. n # m
        BY <1>3, <1>4
      <3>2. inference'[n].batch = Batch(n) /\ i \in 1 .. Len(Batch(n))
        BY <1>3, <3>1 DEF Batch
      <3>3. IsPending(workers_flag, worker, n, Batch(n)[i])
        BY <1>0, <3>2 DEF AllPending
      <3>4. \A l \in 1 .. Len(batch) : batch[l].worker # Batch(n)[i].worker
        BY <1>11, <3>1, <3>3
      <3>5. IsPending(workers_flag', worker', n, Batch(n)[i])
        BY <1>10, <3>3, <3>4
      <3> QED
        BY <3>2, <3>5
    <2> QED
      BY <1>u, <2>1, <2>2 DEF AllPending, Batch
  <1>13. OneEach'
    <2>1. ASSUME NEW n \in Models
          PROVE  Distinct(queue[n], inference'[n].batch)
      <3>1. CASE n # m
        <4>1. inference'[n].batch = Batch(n)
          BY <1>3, <3>1 DEF Batch
        <4> QED
          BY <1>0, <4>1 DEF OneEach
      <3>2. CASE n = m
        <4>1. Len(inference'[n].batch) = 0
          BY <1>3, <1>4, <3>2
        <4> QED
          BY <1>0, <4>1 DEF OneEach, Distinct
      <3> QED
        BY <3>1, <3>2
    <2> QED
      BY <1>u, <2>1 DEF OneEach, Batch
  <1> QED
    BY <1>8, <1>9, <1>12, <1>13 DEF AnswerInv

\* So does every step.
LEMMA AnswerNext == ParametersAreValid /\ AnswerInv /\ [Next]_vars => AnswerInv'
  <1> SUFFICES ASSUME ParametersAreValid, AnswerInv, [Next]_vars PROVE AnswerInv'
    OBVIOUS
  <1>0. TreeInv'
    BY TreeNext DEF AnswerInv
  <1>1. ASSUME UNCHANGED <<worker, workers_flag, queue, inference>> PROVE AnswerInv'
    <2>1. Workers' = Workers
      BY <1>1 DEF Workers
    <2>2. PipeTypes'
      BY <1>1 DEF AnswerInv, PipeTypes, Batch
    <2>3. AllPending'
      BY <1>1 DEF AnswerInv, AllPending, Batch
    <2>4. OneEach'
      BY <1>1 DEF AnswerInv, OneEach, Batch
    <2>5. AnswersAreOwn'
      BY <1>1, <2>1 DEF AnswerInv, AnswersAreOwn, BoardsOf, NoAnswer
    <2> QED
      BY <1>0, <2>2, <2>3, <2>4, <2>5 DEF AnswerInv
  <1>2. ASSUME NEW w \in Workers, WorkerStep(w) \/ Throw(w) \/ WriteFails(w)
        PROVE  AnswerInv'
    <2>1. CASE Submit(w)
      BY <1>0, <2>1, SubmitKeepsAnswers
    <2>2. CASE PlayAction(w) \/ PlaySolved(w)
      BY <1>0, <2>2, PlayKeepsAnswers, SolvedKeepsAnswers
    <2>3. CASE \/ CheckStop(w) \/ Claim(w) \/ BeginWrite(w) \/ WriteExample(w) \/ EndWrite(w)
               \/ StoreStop(w) \/ Throw(w)
      BY <1>0, <2>3, BusyWorkerKeepsAnswers
    <2>4. CASE WriteFails(w)
      BY <1>1, <2>4 DEF WriteFails, pipes
    <2> QED
      BY <1>2, <2>1, <2>2, <2>3, <2>4 DEF WorkerStep
  <1>3. ASSUME NEW m \in Models, InferenceStep(m) \/ InferenceFails(m)
        PROVE  AnswerInv'
    <2>1. CASE InferenceLoop(m)
      BY <1>0, <2>1, LoopKeepsAnswers
    <2>2. CASE Wake(m) \/ PopBatch(m) \/ ThreadExits(m)
      BY <1>0, <2>2, ThreadKeepsAnswers
    <2>3. CASE InferenceFails(m)
      BY <1>1, <2>3 DEF InferenceFails, others
    <2> QED
      BY <1>3, <2>1, <2>2, <2>3 DEF InferenceStep
  <1>4. CASE JoinWorkers \/ CloseFails \/ Return \/ UNCHANGED vars
    <2>1. UNCHANGED <<worker, workers_flag, queue, inference>>
      BY <1>4, Zenon DEF JoinWorkers, CloseFails, Return, vars, pipes
    <2> QED
      BY <1>1, <2>1
  <1> QED
    BY <1>2, <1>3, <1>4 DEF Next

\* For every number of workers, size of batch and interleaving of the threads:
\* whatever batch a request was coalesced into, its future holds the outputs of
\* its own boards, in their order (batch_inference_executor.cpp).
THEOREM AnswersAreOwnAlways == Spec => []AnswersAreOwn
  <1>1. AnswerInv => AnswersAreOwn
    BY DEF AnswerInv
  <1> QED
    BY <1>1, AnswerInit, AnswerNext, ParametersAreValid, PTL DEF Spec

-----------------------------------------------------------------------------
(* The schedule of mixed games. *)

\* What integer division returns.
LEMMA Quotient ==
    ASSUME NEW a \in Nat, NEW n \in Nat, n > 0
    PROVE  /\ a \div n \in Nat
           /\ n * (a \div n) <= a /\ a < n * (a \div n) + n
  BY SMT

\* Only one number is the quotient.
LEMMA QuotientIs ==
    ASSUME NEW a \in Nat, NEW n \in Nat, n > 0, NEW q \in Nat, n * q <= a, a < n * q + n
    PROVE  a \div n = q
  BY Quotient, SMT

\* Raising the dividend by at most the divisor raises the quotient by at most one.
LEMMA QuotientSteps ==
    ASSUME NEW a \in Nat, NEW n \in Nat, n > 0, NEW m \in 0 .. n
    PROVE  (a + m) \div n \in {a \div n, (a \div n) + 1}
  <1> DEFINE q == a \div n
  <1>1. q \in Nat /\ n * q <= a /\ a < n * q + n /\ n * q \in Nat
    BY Quotient
  <1> HIDE DEF q
  <1>2. n * (q + 1) = n * q + n /\ a + m \in Nat
    BY <1>1
  <1>3. CASE a + m < n * q + n
    BY <1>1, <1>2, <1>3, QuotientIs DEF q
  <1>4. CASE ~(a + m < n * q + n)
    <2>1. n * (q + 1) <= a + m /\ a + m < n * (q + 1) + n /\ q + 1 \in Nat
      BY <1>1, <1>2, <1>4
    <2>2. (a + m) \div n = q + 1
      BY <1>2, <2>1, QuotientIs
    <2> QED
      BY <2>2 DEF q
  <1> QED
    BY <1>3, <1>4

\* The mixed games among the first k games, and those that seat the champion so.
MixedAmong(k) == {g \in 0 .. k - 1 : IsMixed(g)}
SeatedAmong(k, seat) == {g \in 0 .. k - 1 : IsMixed(g) /\ ChampionSeat(g) = seat}
Due(k) == (k * Mixed) \div Games

\* The schedule adds a mixed game where the number due rises, by one.
LEMMA DueSteps ==
    ASSUME ParametersAreValid, NEW k \in Nat
    PROVE  /\ Due(k) \in Nat /\ MixedThrough(k) = Due(k + 1)
           /\ Due(k + 1) = IF IsMixed(k) THEN Due(k) + 1 ELSE Due(k)
  <1>0. Games \in Nat /\ Games > 0 /\ Mixed \in 0 .. Games /\ Mixed \in Nat
    BY DEF ParametersAreValid
  <1>1. k * Mixed \in Nat /\ (k + 1) * Mixed = k * Mixed + Mixed
    BY <1>0
  <1> DEFINE a == k * Mixed
  <1>2. Due(k) = a \div Games /\ Due(k + 1) = (a + Mixed) \div Games /\ a \in Nat
    BY <1>1 DEF Due
  <1> HIDE DEF a
  <1>3. Due(k) \in Nat
    BY <1>0, <1>2, Quotient
  <1>4. Due(k + 1) \in {Due(k), Due(k) + 1}
    BY <1>0, <1>2, QuotientSteps
  <1>5. MixedThrough(k) = Due(k + 1) /\ (IsMixed(k) <=> Due(k + 1) > Due(k))
    BY DEF Due, IsMixed, MixedThrough
  <1> QED
    BY <1>3, <1>4, <1>5

\* Filtering one game more.
LEMMA OneMore ==
    ASSUME NEW k \in Nat, NEW S \in SUBSET Nat, IsFiniteSet({g \in 0 .. k - 1 : g \in S})
    PROVE  /\ IsFiniteSet({g \in 0 .. (k + 1) - 1 : g \in S})
           /\ Cardinality({g \in 0 .. (k + 1) - 1 : g \in S})
                = Cardinality({g \in 0 .. k - 1 : g \in S}) + (IF k \in S THEN 1 ELSE 0)
  <1> DEFINE X == {g \in 0 .. k - 1 : g \in S}
             Y == {g \in 0 .. (k + 1) - 1 : g \in S}
  <1>1. k \notin X /\ Y = IF k \in S THEN X \cup {k} ELSE X
    OBVIOUS
  <1> HIDE DEF Y
  <1>2. /\ IsFiniteSet(X \cup {k}) /\ Cardinality(X \cup {k}) = Cardinality(X) + 1
        /\ Cardinality(X) \in Nat
    BY <1>1, FS_AddElement, FS_CardinalityType
  <1> HIDE DEF X
  <1> QED
    BY <1>1, <1>2 DEF X, Y

\* Among the first k games as many are mixed as are due, and they seat the
\* champion in turn.
LEMMA ScheduleCounts ==
    ASSUME ParametersAreValid
    PROVE  \A k \in Nat : /\ Cardinality(MixedAmong(k)) = Due(k)
                          /\ Cardinality(SeatedAmong(k, "A")) - Cardinality(SeatedAmong(k, "B"))
                                = Due(k) % 2
  <1> DEFINE M == {g \in Nat : IsMixed(g)}
             T(seat) == {g \in Nat : IsMixed(g) /\ ChampionSeat(g) = seat}
             First(k, S) == {g \in 0 .. k - 1 : g \in S}
             P(k) == /\ IsFiniteSet(First(k, M)) /\ Cardinality(First(k, M)) = Due(k)
                     /\ IsFiniteSet(First(k, T("A"))) /\ IsFiniteSet(First(k, T("B")))
                     /\ Cardinality(First(k, T("A"))) - Cardinality(First(k, T("B"))) = Due(k) % 2
             K == {k \in Nat : P(k)}
  <1>1. P(0)
    <2>1. First(0, M) = {} /\ First(0, T("A")) = {} /\ First(0, T("B")) = {}
      OBVIOUS
    <2>2. Due(0) = 0
      BY Quotient, QuotientIs DEF Due, ParametersAreValid
    <2>3. IsFiniteSet({}) /\ Cardinality({}) = 0
      BY FS_EmptySet
    <2>4. Cardinality({}) - Cardinality({}) = 0 % 2
      BY <2>3
    <2> HIDE DEF First, M, T
    <2> QED
      BY <2>1, <2>2, <2>3, <2>4, Zenon
  <1>2. ASSUME NEW k \in Nat, P(k)
        PROVE  P(k + 1)
    <2> DEFINE c == Due(k)
    <2>1. /\ c \in Nat /\ MixedThrough(k) = Due(k + 1)
          /\ Due(k + 1) = IF IsMixed(k) THEN c + 1 ELSE c
      BY DueSteps
    <2>2. M \in SUBSET Nat /\ T("A") \in SUBSET Nat /\ T("B") \in SUBSET Nat
      OBVIOUS
    <2>3. /\ k \in M <=> IsMixed(k)
          /\ k \in T("A") <=> IsMixed(k) /\ c % 2 = 0
          /\ k \in T("B") <=> IsMixed(k) /\ c % 2 # 0
      BY <2>1 DEF ChampionSeat
    <2> HIDE DEF M, T
    <2>4. \A S \in SUBSET Nat : IsFiniteSet(First(k, S)) =>
            /\ IsFiniteSet(First(k + 1, S))
            /\ Cardinality(First(k + 1, S)) = Cardinality(First(k, S)) + (IF k \in S THEN 1 ELSE 0)
      BY OneMore
    <2>5. \A S : IsFiniteSet(First(k, S)) => Cardinality(First(k, S)) \in Nat
      BY FS_CardinalityType
    <2>6. (c + 1) % 2 = IF c % 2 = 0 THEN 1 ELSE 0
      BY <2>1
    <2>7. c % 2 \in {0, 1}
      BY <2>1
    <2> HIDE DEF First, c
    <2>8. /\ IsFiniteSet(First(k + 1, M)) /\ Cardinality(First(k + 1, M)) = Due(k + 1)
          /\ IsFiniteSet(First(k + 1, T("A"))) /\ IsFiniteSet(First(k + 1, T("B")))
      BY <1>2, <2>1, <2>2, <2>3, <2>4 DEF c
    <2>9. Cardinality(First(k + 1, T("A"))) - Cardinality(First(k + 1, T("B"))) = Due(k + 1) % 2
      <3> DEFINE a == Cardinality(First(k, T("A")))
                 b == Cardinality(First(k, T("B")))
      <3>1. a \in Nat /\ b \in Nat /\ a - b = c % 2
        BY <1>2, <2>5 DEF c
      <3>2. /\ Cardinality(First(k + 1, T("A"))) = a + (IF k \in T("A") THEN 1 ELSE 0)
            /\ Cardinality(First(k + 1, T("B"))) = b + (IF k \in T("B") THEN 1 ELSE 0)
        BY <1>2, <2>2, <2>4
      <3> HIDE DEF a, b
      <3>3. CASE ~IsMixed(k)
        BY <2>1, <2>3, <3>1, <3>2, <3>3
      <3>4. CASE IsMixed(k) /\ c % 2 = 0
        <4>1. (a + 1) - (b + 0) = 1
          BY <3>1, <3>4
        <4> QED
          BY <2>1, <2>3, <2>6, <3>2, <3>4, <4>1
      <3>5. CASE IsMixed(k) /\ c % 2 = 1
        <4>1. (a + 0) - (b + 1) = 0
          BY <3>1, <3>5
        <4> QED
          BY <2>1, <2>3, <2>6, <3>2, <3>5, <4>1
      <3> QED
        BY <2>7, <3>3, <3>4, <3>5
    <2> QED
      BY <2>8, <2>9
  <1> HIDE DEF P
  <1>3. \A k \in Nat : k \in K
    <2>1. 0 \in K /\ \A n \in Nat : n \in K => n + 1 \in K
      BY <1>1, <1>2
    <2> HIDE DEF K
    <2> QED
      BY <2>1, SetInduction
  <1>4. ASSUME NEW k \in Nat
        PROVE  MixedAmong(k) = First(k, M) /\ \A seat : SeatedAmong(k, seat) = First(k, T(seat))
    BY DEF MixedAmong, SeatedAmong
  <1> HIDE DEF M, T, First
  <1> QED
    BY <1>3, <1>4 DEF P

-----------------------------------------------------------------------------
(* The shard. *)

Entry == [game : 0 .. Games - 1, ply : Nat]
Busy == {"decide", "wait", "write"}

\* What the shard s has of game g: nothing, ...
Absent(s, g) == \A i \in 1 .. Len(s) : s[i].game # g

\* ... the plies S, ...
HasPlies(s, g, S) ==
    /\ \A i \in 1 .. Len(s) : s[i].game = g => s[i].ply \in S
    /\ \A ply \in S : \E i \in 1 .. Len(s) : s[i].game = g /\ s[i].ply = ply

\* ... in the order they were played, ...
InOrder(s, g) ==
    \A i, j \in 1 .. Len(s) : i < j /\ s[i].game = g /\ s[j].game = g => s[i].ply < s[j].ply

\* ... nothing of another game among them, or after them.
InOnePiece(s, g) ==
    \A i, j, k \in 1 .. Len(s) : i <= j /\ j <= k /\ s[i].game = g /\ s[k].game = g => s[j].game = g
AtTheEnd(s, g) == \A i, j \in 1 .. Len(s) : i <= j /\ s[i].game = g => s[j].game = g

\* A game whose examples are written, and one whose examples todo are yet to be.
IsComplete(s, g) == HasPlies(s, g, Examples(g)) /\ InOrder(s, g) /\ InOnePiece(s, g)
IsWriting(s, g, todo) ==
    /\ todo \in SUBSET Examples(g)
    /\ HasPlies(s, g, Examples(g) \ todo) /\ InOrder(s, g) /\ AtTheEnd(s, g)
    /\ \A i \in 1 .. Len(s), ply \in todo : s[i].game = g => s[i].ply < ply

\* What the shard s has of the game of worker w, when k is its thread, next the
\* game to be claimed and holder the holder of output_mutex.
WorkerInv(w, k, next, holder, s) ==
    /\ k.pc \in Busy => k.game \in 0 .. Games - 1 /\ k.game < next
    /\ k.pc \in {"decide", "wait"} => Absent(s, k.game)
    /\ k.pc = "write" => holder = w /\ IsWriting(s, k.game, k.todo)
    /\ k.pc = "done" => next >= Games
    /\ k.pc # "throw"

\* The games claimed are held by one worker each or complete.
GamesInv ==
    /\ next_game \in Nat /\ shard \in Seq(Entry) /\ ~stop
    /\ \A w \in Workers : WorkerInv(w, worker[w], next_game, output_mutex, shard)
    /\ \A v, w \in Workers :
          worker[v].pc \in Busy /\ worker[w].pc \in Busy /\ worker[v].game = worker[w].game => v = w
    /\ \A g \in 0 .. Games - 1 : g < next_game =>
          \/ \E w \in Workers : worker[w].pc \in Busy /\ worker[w].game = g
          \/ IsComplete(shard, g)
    /\ \A i \in 1 .. Len(shard) : shard[i].game < next_game

ShardInv ==
    /\ TreeInv /\ workers_flag \in 1 .. MaxWorkers
    /\ first_error \/ GamesInv
    /\ main \in {"closing", "returned 0"} => \A w \in Workers : worker[w].pc = "done"
    /\ main = "returned 0" => ~first_error

-----------------------------------------------------------------------------
(* What a complete shard holds. *)

\* The examples of a game: some of its plies, the champion's if it is mixed.
LEMMA ExamplesOfAGame ==
    ASSUME ParametersAreValid, NEW g
    PROVE  /\ Len(Turns) \in Nat /\ Examples(g) \in SUBSET (0 .. Len(Turns) - 1)
           /\ Examples(g) # {} /\ IsFiniteSet(Examples(g))
           /\ Cardinality(Examples(g)) < Len(Turns) <=> IsMixed(g)
           /\ IsMixed(g) => \A ply \in Examples(g) : Turns[ply + 1] = ChampionSeat(g)
  <1> DEFINE n == Len(Turns)
  <1>0. n \in Nat /\ DOMAIN Turns = 1 .. n
    BY LenProperties DEF ParametersAreValid
  <1>1. ChampionSeat(g) \in Seats
    BY DEF ChampionSeat, Seats
  <1>2. ASSUME NEW seat \in Seats
        PROVE  \E ply \in 0 .. n - 1 : Turns[ply + 1] = seat
    <2>1. PICK i \in 1 .. n : Turns[i] = seat
      BY <1>0 DEF ParametersAreValid
    <2>2. i - 1 \in 0 .. n - 1 /\ (i - 1) + 1 = i
      BY <1>0
    <2> QED
      BY <2>1, <2>2
  <1>3. IsFiniteSet(0 .. n - 1) /\ Cardinality(0 .. n - 1) = n
    <2> HIDE DEF n
    <2>1. 0 \in Int /\ n - 1 \in Int
      BY <1>0
    <2>2. /\ IsFiniteSet(0 .. n - 1)
          /\ Cardinality(0 .. n - 1) = IF 0 > n - 1 THEN 0 ELSE (n - 1) - 0 + 1
      BY <2>1, FS_Interval, Zenon
    <2>3. (IF 0 > n - 1 THEN 0 ELSE (n - 1) - 0 + 1) = n
      BY <1>0
    <2> QED
      BY <2>2, <2>3
  <1>4. Examples(g) \in SUBSET (0 .. n - 1)
    BY DEF Examples
  <1>5. /\ IsFiniteSet(Examples(g)) /\ Cardinality(Examples(g)) <= n
        /\ Cardinality(Examples(g)) = n => Examples(g) = 0 .. n - 1
    BY <1>3, <1>4, FS_Subset
  <1>6. Cardinality(Examples(g)) \in Nat
    BY <1>5, FS_CardinalityType
  <1>7. Examples(g) # {}
    BY <1>1, <1>2 DEF Examples
  <1>8. ASSUME IsMixed(g)
        PROVE  Cardinality(Examples(g)) # n
    <2>1. PICK seat \in Seats : seat # ChampionSeat(g)
      BY DEF Seats
    <2>2. PICK ply \in 0 .. n - 1 : Turns[ply + 1] = seat
      BY <1>2
    <2>3. ply \notin Examples(g)
      BY <1>8, <2>1, <2>2 DEF Examples
    <2> QED
      BY <1>5, <2>3
  <1>9. ~IsMixed(g) => Examples(g) = 0 .. n - 1
    BY DEF Examples
  <1>10. IsMixed(g) => \A ply \in Examples(g) : Turns[ply + 1] = ChampionSeat(g)
    BY DEF Examples
  <1>11. Cardinality(Examples(g)) < n <=> IsMixed(g)
    BY <1>0, <1>3, <1>5, <1>6, <1>8, <1>9
  <1> QED
    BY <1>0, <1>4, <1>5, <1>7, <1>10, <1>11

\* A set of naturals without gaps and with a bound is an interval.
LEMMA NoGaps ==
    ASSUME NEW n \in Nat, NEW S \in SUBSET (1 .. n), S # {},
           \A i, j, k \in 1 .. n : i <= j /\ j <= k /\ i \in S /\ k \in S => j \in S
    PROVE  S = Min(S) .. Min(S) + Cardinality(S) - 1
  <1> DEFINE a == Min(S)
             C == {n - i : i \in S}
             b == n - Min(C)
  <1>1. a \in S /\ \A i \in S : a <= i
    BY LeastNatural
  <1>2. C \in SUBSET Nat /\ C # {}
    OBVIOUS
  <1>3. Min(C) \in C /\ \A y \in C : Min(C) <= y
    BY <1>2, LeastNatural
  <1>4. b \in S /\ \A i \in S : i <= b
    <2> DEFINE m == Min(C)
    <2>1. m \in C /\ \A i \in S : m <= n - i
      BY <1>3
    <2> HIDE DEF m
    <2>2. PICK l \in S : m = n - l
      BY <2>1
    <2>3. l \in Nat /\ n - m = l /\ \A i \in S : i \in Nat
      BY <2>2
    <2>4. \A i \in S : i <= l
      BY <2>1, <2>2, <2>3
    <2> QED
      BY <2>3, <2>4 DEF m
  <1> HIDE DEF a, C, b
  <1>5. S = a .. b /\ a \in Nat /\ b \in Nat /\ a <= b
    <2>1. a \in 1 .. n /\ b \in 1 .. n /\ a <= b
      BY <1>1, <1>4
    <2>2. \A j \in a .. b : j \in S
      BY <1>1, <1>4, <2>1
    <2>3. \A i \in S : i \in a .. b
      BY <1>1, <1>4, <2>1
    <2>4. a \in Nat /\ b \in Nat
      BY <2>1
    <2>5. S = a .. b
      BY <2>2, <2>3, Zenon
    <2> QED
      BY <2>1, <2>4, <2>5, Zenon
  <1>6. Cardinality(S) = b - a + 1
    BY <1>5, FS_Interval
  <1>7. a + (b - a + 1) - 1 = b
    BY <1>5
  <1> QED
    BY <1>5, <1>6, <1>7 DEF a

\* The examples of a complete game are as many as its plies kept, one after
\* the other.
LEMMA CompleteGame ==
    ASSUME ParametersAreValid, shard \in Seq(Entry), NEW g, IsComplete(shard, g)
    PROVE  LET played == {i \in DOMAIN shard : shard[i].game = g}
           IN  /\ played # {} /\ Cardinality(played) = Cardinality(Examples(g))
               /\ played = Min(played) .. Min(played) + Cardinality(played) - 1
               /\ \A i, j \in played : i < j => shard[i].ply < shard[j].ply
               /\ \A i \in played : shard[i].ply \in Examples(g)
  <1> DEFINE played == {i \in DOMAIN shard : shard[i].game = g}
             n == Len(shard)
             f == [i \in played |-> shard[i].ply]
  <1>0. n \in Nat /\ DOMAIN shard = 1 .. n
    BY LenProperties
  <1>1. /\ \A i \in 1 .. n : shard[i].game = g => shard[i].ply \in Examples(g)
        /\ \A ply \in Examples(g) : \E i \in 1 .. n : shard[i].game = g /\ shard[i].ply = ply
    BY DEF IsComplete, HasPlies
  <1>2. \A i, j \in 1 .. n : i < j /\ shard[i].game = g /\ shard[j].game = g
                               => shard[i].ply < shard[j].ply
    BY DEF IsComplete, InOrder
  <1>3. \A i, j, k \in 1 .. n : i <= j /\ j <= k /\ i \in played /\ k \in played => j \in played
    BY <1>0 DEF IsComplete, InOnePiece
  <1>4. played \in SUBSET (1 .. n) /\ played # {}
    BY <1>0, <1>1, ExamplesOfAGame
  <1>5. \A i, j \in played : i < j => shard[i].ply < shard[j].ply
    BY <1>0, <1>2
  <1>6. \A i \in played : shard[i].ply \in Examples(g)
    BY <1>0, <1>1
  <1>7. \A ply \in Examples(g) : \E i \in played : shard[i].ply = ply
    BY <1>0, <1>1
  <1> HIDE DEF played, n
  <1>8. played = Min(played) .. Min(played) + Cardinality(played) - 1
    BY <1>0, <1>3, <1>4, NoGaps
  <1>9. Cardinality(played) = Cardinality(Examples(g))
    <2>1. f \in [played -> Examples(g)]
      BY <1>6
    <2>2. ASSUME NEW i \in played, NEW j \in played, f[i] = f[j]
          PROVE  i = j
      <3>1. i \in Nat /\ j \in Nat /\ shard[i].ply \in Nat /\ shard[j].ply \in Nat
        BY <1>0, <1>4, <1>6, ExamplesOfAGame
      <3>2. shard[i].ply = shard[j].ply
        BY <2>2
      <3> QED
        BY <1>5, <3>1, <3>2
    <2>3. \A ply \in Examples(g) : \E i \in played : f[i] = ply
      BY <1>7
    <2> HIDE DEF f
    <2>4. f \in Bijection(played, Examples(g))
      BY <2>1, <2>2, <2>3 DEF Bijection, Injection, Surjection, IsInjective
    <2>5. ExistsBijection(played, Examples(g))
      BY <2>4 DEF ExistsBijection
    <2>6. IsFiniteSet(1 .. n)
      BY <1>0, FS_Interval
    <2>7. IsFiniteSet(played)
      BY <1>4, <2>6, FS_Subset
    <2> QED
      BY <2>5, <2>7, FS_Bijection
  <1> QED
    BY <1>4, <1>5, <1>6, <1>8, <1>9 DEF played

\* A shard that holds every game complete is as ShardIsComplete says.
LEMMA CompleteShard ==
    ASSUME ParametersAreValid, shard \in Seq(Entry),
           \A g \in 0 .. Games - 1 : IsComplete(shard, g)
    PROVE  ShardIsComplete
  <1> DEFINE start(g) == Min({i \in DOMAIN shard : shard[i].game = g})
             played(g) == {i \in DOMAIN shard : shard[i].game = g}
             mixed == {g \in WrittenGames : Cardinality(played(g)) < Len(Turns)}
             as(seat) == {g \in mixed : \A i \in played(g) : Turns[shard[i].ply + 1] = seat}
  <1>0. Games \in Nat /\ DOMAIN shard = 1 .. Len(shard)
    BY LenProperties DEF ParametersAreValid
  <1>1. ASSUME NEW g \in 0 .. Games - 1
        PROVE  /\ played(g) # {} /\ Cardinality(played(g)) = Cardinality(Examples(g))
               /\ played(g) = start(g) .. start(g) + Cardinality(played(g)) - 1
               /\ \A i, j \in played(g) : i < j => shard[i].ply < shard[j].ply
               /\ \A i \in played(g) : shard[i].ply \in Examples(g)
    BY <1>1, CompleteGame
  <1>2. WrittenGames = 0 .. Games - 1
    <2>1. \A i \in DOMAIN shard : shard[i].game \in 0 .. Games - 1
      <3>1. \A i \in DOMAIN shard : shard[i] \in Entry
        OBVIOUS
      <3> QED
        BY <3>1 DEF Entry
    <2>2. WrittenGames = {shard[i].game : i \in DOMAIN shard}
      BY DEF WrittenGames, ToSet
    <2>3. \A g \in 0 .. Games - 1 : \E i \in DOMAIN shard : shard[i].game = g
      BY <1>1
    <2> QED
      BY <2>1, <2>2, <2>3
  <1>3. ASSUME NEW g \in 0 .. Games - 1
        PROVE  g \in mixed <=> IsMixed(g)
    BY <1>1, <1>2, ExamplesOfAGame
  <1>4. mixed = MixedAmong(Games)
    BY <1>2, <1>3 DEF MixedAmong
  <1>5. ASSUME NEW g \in 0 .. Games - 1, IsMixed(g)
        PROVE  \A i \in played(g) : Turns[shard[i].ply + 1] = ChampionSeat(g)
    BY <1>1, <1>5, ExamplesOfAGame
  <1>6. ASSUME NEW seat
        PROVE  as(seat) = SeatedAmong(Games, seat)
    <2>1. ASSUME NEW g \in 0 .. Games - 1, IsMixed(g)
          PROVE  g \in as(seat) <=> ChampionSeat(g) = seat
      <3>1. g \in mixed /\ \E i \in played(g) : TRUE
        BY <1>1, <1>3, <2>1
      <3> HIDE DEF mixed, played
      <3> QED
        BY <1>5, <2>1, <3>1
    <2>2. \A g \in as(seat) : g \in 0 .. Games - 1 /\ IsMixed(g)
      BY <1>4 DEF MixedAmong
    <2>3. SeatedAmong(Games, seat) = {g \in 0 .. Games - 1 : IsMixed(g) /\ ChampionSeat(g) = seat}
      BY DEF SeatedAmong
    <2> HIDE DEF as
    <2> QED
      BY <2>1, <2>2, <2>3
  <1>7. Due(Games) = Mixed
    <2>1. Games \in Nat /\ Games > 0 /\ Mixed \in Nat
      BY DEF ParametersAreValid
    <2>2. Games * Mixed \in Nat /\ Games * Mixed <= Games * Mixed /\ Games * Mixed < Games * Mixed + Games
      BY <2>1
    <2> QED
      BY <2>1, <2>2, QuotientIs DEF Due
  <1>8. Cardinality(mixed) = Mixed
    BY <1>0, <1>4, <1>7, ScheduleCounts
  <1>9. Cardinality(as("A")) - Cardinality(as("B")) \in {0, 1}
    <2>1. Cardinality(as("A")) - Cardinality(as("B")) = Mixed % 2
      BY <1>0, <1>6, <1>7, ScheduleCounts
    <2>2. Mixed % 2 \in {0, 1}
      BY DEF ParametersAreValid
    <2> QED
      BY <2>1, <2>2
  <1>10. mixed = as("A") \cup as("B")
    <2>1. \A g : ChampionSeat(g) \in {"A", "B"}
      BY DEF ChampionSeat
    <2> HIDE DEF mixed, as
    <2> QED
      BY <1>4, <1>6, <2>1 DEF MixedAmong, SeatedAmong
  <1>11. \A g \in WrittenGames :
            /\ played(g) = start(g) .. start(g) + Cardinality(played(g)) - 1
            /\ \A i, j \in played(g) : i < j => shard[i].ply < shard[j].ply
    BY <1>1, <1>2
  <1> QED
    BY <1>2, <1>8, <1>9, <1>10, <1>11, Zenon DEF ShardIsComplete

-----------------------------------------------------------------------------
(* Writing examples. *)

\* An example is added at the end.
LEMMA Appended ==
    ASSUME NEW s \in Seq(Entry), NEW e \in Entry
    PROVE  LET t == Append(s, e)
           IN  /\ t \in Seq(Entry) /\ Len(s) \in Nat /\ Len(t) = Len(s) + 1
               /\ t[Len(s) + 1] = e /\ \A i \in 1 .. Len(s) : t[i] = s[i]
  BY AppendProperties, LenProperties

\* The other games keep what they have: nothing, ...
LEMMA OthersStayAbsent ==
    ASSUME NEW s \in Seq(Entry), NEW e \in Entry, NEW g, g # e.game, Absent(s, g)
    PROVE  Absent(Append(s, e), g)
  <1> DEFINE t == Append(s, e)
  <1>1. /\ Len(s) \in Nat /\ Len(t) = Len(s) + 1
        /\ t[Len(s) + 1] = e /\ \A i \in 1 .. Len(s) : t[i] = s[i]
    BY Appended
  <1> HIDE DEF t
  <1>2. \A i \in 1 .. Len(t) : t[i].game # g
    BY <1>1 DEF Absent
  <1> QED
    BY <1>2 DEF Absent, t

\* ... or all of their examples.
LEMMA OthersStayComplete ==
    ASSUME NEW s \in Seq(Entry), NEW e \in Entry, NEW g, g # e.game, IsComplete(s, g)
    PROVE  IsComplete(Append(s, e), g)
  <1> DEFINE t == Append(s, e)
             n == Len(s)
  <1>1. n \in Nat /\ Len(t) = n + 1 /\ t[n + 1] = e /\ \A i \in 1 .. n : t[i] = s[i]
    BY Appended
  <1> HIDE DEF t, n
  <1>2. \A i \in 1 .. Len(t) : t[i].game = g => i \in 1 .. n /\ t[i] = s[i]
    BY <1>1
  <1>3. HasPlies(t, g, Examples(g))
    <2>1. \A i \in 1 .. Len(t) : t[i].game = g => t[i].ply \in Examples(g)
      BY <1>2 DEF IsComplete, HasPlies, n
    <2>2. ASSUME NEW ply \in Examples(g)
          PROVE  \E i \in 1 .. Len(t) : t[i].game = g /\ t[i].ply = ply
      <3>1. PICK i \in 1 .. n : s[i].game = g /\ s[i].ply = ply
        BY DEF IsComplete, HasPlies, n
      <3>2. i \in 1 .. Len(t) /\ t[i] = s[i]
        BY <1>1
      <3> QED
        BY <3>1, <3>2
    <2> QED
      BY <2>1, <2>2 DEF HasPlies
  <1>4. InOrder(t, g)
    <2>1. \A i, j \in 1 .. n : i < j /\ s[i].game = g /\ s[j].game = g => s[i].ply < s[j].ply
      BY DEF IsComplete, InOrder, n
    <2> QED
      BY <1>2, <2>1 DEF InOrder
  <1>5. InOnePiece(t, g)
    <2>1. \A i, j, k \in 1 .. n :
             i <= j /\ j <= k /\ s[i].game = g /\ s[k].game = g => s[j].game = g
      BY DEF IsComplete, InOnePiece, n
    <2>2. ASSUME NEW i \in 1 .. Len(t), NEW j \in 1 .. Len(t), NEW k \in 1 .. Len(t),
                 i <= j, j <= k, t[i].game = g, t[k].game = g
          PROVE  t[j].game = g
      <3>1. i \in 1 .. n /\ k \in 1 .. n /\ s[i].game = g /\ s[k].game = g
        BY <1>2, <2>2
      <3>2. j \in 1 .. n
        BY <1>1, <2>2, <3>1
      <3> QED
        BY <1>1, <2>1, <2>2, <3>1, <3>2
    <2> QED
      BY <2>2 DEF InOnePiece
  <1> QED
    BY <1>3, <1>4, <1>5 DEF IsComplete, t

\* The least example that is yet to be written goes to the end of its game.
LEMMA NextExample ==
    ASSUME ParametersAreValid, NEW s \in Seq(Entry), NEW g \in 0 .. Games - 1, NEW todo,
           IsWriting(s, g, todo), todo # {}
    PROVE  LET e == [game |-> g, ply |-> Min(todo)]
           IN  e \in Entry /\ IsWriting(Append(s, e), g, todo \ {Min(todo)})
  <1> DEFINE m == Min(todo)
             e == [game |-> g, ply |-> m]
             t == Append(s, e)
             n == Len(s)
  <1>0. todo \in SUBSET Examples(g) /\ Examples(g) \in SUBSET Nat
    BY ExamplesOfAGame DEF IsWriting
  <1>1. m \in todo /\ m \in Nat /\ \A ply \in todo : m <= ply
    BY <1>0, LeastNatural
  <1> HIDE DEF m
  <1>2. e \in Entry /\ e.game = g /\ e.ply = m
    BY <1>1 DEF Entry
  <1> HIDE DEF e
  <1>3. n \in Nat /\ Len(t) = n + 1 /\ t[n + 1] = e /\ \A i \in 1 .. n : t[i] = s[i]
    BY <1>2, Appended
  <1>4. \A i \in 1 .. Len(t) : i = n + 1 \/ (i \in 1 .. n /\ t[i] = s[i])
    BY <1>3
  <1> HIDE DEF t
  <1>5. /\ \A i \in 1 .. n : s[i].game = g => s[i].ply \in Examples(g) \ todo
        /\ \A ply \in Examples(g) \ todo : \E i \in 1 .. n : s[i].game = g /\ s[i].ply = ply
    BY DEF IsWriting, HasPlies
  <1>6. \A i \in 1 .. n, ply \in todo : s[i].game = g => s[i].ply < ply
    BY DEF IsWriting
  <1> HIDE DEF n
  <1>7. HasPlies(t, g, Examples(g) \ (todo \ {m}))
    <2>1. \A i \in 1 .. Len(t) : t[i].game = g => t[i].ply \in Examples(g) \ (todo \ {m})
      BY <1>0, <1>1, <1>2, <1>3, <1>4, <1>5
    <2>2. ASSUME NEW ply \in Examples(g) \ (todo \ {m})
          PROVE  \E i \in 1 .. Len(t) : t[i].game = g /\ t[i].ply = ply
      <3>1. CASE ply = m
        BY <1>2, <1>3, <3>1
      <3>2. CASE ply # m
        <4>1. PICK i \in 1 .. n : s[i].game = g /\ s[i].ply = ply
          BY <1>5, <3>2
        <4>2. i \in 1 .. Len(t) /\ t[i] = s[i]
          BY <1>3
        <4> QED
          BY <4>1, <4>2
      <3> QED
        BY <3>1, <3>2
    <2> QED
      BY <2>1, <2>2 DEF HasPlies
  <1>8. InOrder(t, g)
    <2>1. \A i, j \in 1 .. n : i < j /\ s[i].game = g /\ s[j].game = g => s[i].ply < s[j].ply
      BY DEF IsWriting, InOrder, n
    <2>2. ASSUME NEW i \in 1 .. Len(t), NEW j \in 1 .. Len(t), i < j, t[i].game = g, t[j].game = g
          PROVE  t[i].ply < t[j].ply
      <3>1. i \in 1 .. n /\ t[i] = s[i]
        BY <1>3, <1>4, <2>2
      <3>2. CASE j = n + 1
        BY <1>1, <1>2, <1>3, <1>6, <2>2, <3>1, <3>2
      <3>3. CASE j # n + 1
        BY <1>4, <2>1, <2>2, <3>1, <3>3
      <3> QED
        BY <3>2, <3>3
    <2> QED
      BY <2>2 DEF InOrder
  <1>9. AtTheEnd(t, g)
    <2>1. \A i, j \in 1 .. n : i <= j /\ s[i].game = g => s[j].game = g
      BY DEF IsWriting, AtTheEnd, n
    <2>2. ASSUME NEW i \in 1 .. Len(t), NEW j \in 1 .. Len(t), i <= j, t[i].game = g
          PROVE  t[j].game = g
      <3>1. CASE j = n + 1
        BY <1>2, <1>3, <3>1
      <3>2. CASE j # n + 1
        <4>1. j \in 1 .. n /\ i \in 1 .. n /\ t[i] = s[i] /\ t[j] = s[j]
          BY <1>3, <1>4, <2>2, <3>2
        <4> QED
          BY <2>1, <2>2, <4>1
      <3> QED
        BY <3>1, <3>2
    <2> QED
      BY <2>2 DEF AtTheEnd
  <1>10. ASSUME NEW i \in 1 .. Len(t), NEW ply \in todo \ {m}, t[i].game = g
         PROVE  t[i].ply < ply
    <2>1. m < ply
      BY <1>0, <1>1
    <2>2. CASE i = n + 1
      BY <1>2, <1>3, <2>1, <2>2
    <2>3. CASE i # n + 1
      BY <1>4, <1>6, <1>10, <2>3
    <2> QED
      BY <2>2, <2>3
  <1>11. todo \ {m} \in SUBSET Examples(g)
    BY <1>0
  <1>12. IsWriting(t, g, todo \ {m})
    BY <1>7, <1>8, <1>9, <1>10, <1>11 DEF IsWriting
  <1> QED
    BY <1>2, <1>12 DEF t, e, m

\* A game with nothing left to write is complete.
LEMMA WrittenIsComplete ==
    ASSUME NEW s, Len(s) \in Nat, NEW g, IsWriting(s, g, {})
    PROVE  IsComplete(s, g)
  <1>1. Examples(g) \ {} = Examples(g)
    OBVIOUS
  <1>2. InOnePiece(s, g)
    BY DEF IsWriting, AtTheEnd, InOnePiece
  <1> QED
    BY <1>1, <1>2 DEF IsWriting, IsComplete

\* A game with no example written has all of them to write.
LEMMA WriteBegins ==
    ASSUME NEW s, NEW g, Absent(s, g)
    PROVE  IsWriting(s, g, Examples(g))
  <1>1. HasPlies(s, g, Examples(g) \ Examples(g))
    BY DEF HasPlies, Absent
  <1> QED
    BY <1>1 DEF IsWriting, Absent, InOrder, AtTheEnd

-----------------------------------------------------------------------------
(* The invariant of the shard. *)

\* Nothing is claimed and nothing written at the start.
LEMMA ShardInit == ParametersAreValid /\ Init => ShardInv
  <1> SUFFICES ASSUME ParametersAreValid, Init PROVE ShardInv
    OBVIOUS
  <1>1. TreeInv /\ workers_flag \in 1 .. MaxWorkers
    BY TreeInit DEF Init
  <1>2. /\ next_game = 0 /\ shard = <<>> /\ stop = FALSE /\ main = "joining"
        /\ \A w \in Workers : worker[w].pc = "loop"
    BY DEF Init, Fresh
  <1>3. shard \in Seq(Entry) /\ Len(shard) = 0
    BY <1>2
  <1>4. \A w \in Workers : WorkerInv(w, worker[w], next_game, output_mutex, shard)
    BY <1>2 DEF WorkerInv, Busy
  <1>5. GamesInv
    <2>1. \A g \in 0 .. Games - 1 : ~(g < next_game)
      BY <1>2
    <2> QED
      BY <1>2, <1>3, <1>4, <2>1 DEF GamesInv, Busy
  <1> QED
    BY <1>1, <1>2, <1>5 DEF ShardInv

\* Steps in which no worker claims, finishes or writes.
Quiet(k, j) ==
    /\ j.game = k.game /\ j.todo = k.todo
    /\ \/ j.pc = k.pc
       \/ {k.pc, j.pc} = {"decide", "wait"}
       \/ {k.pc, j.pc} = {"loop", "claim"}

\* They keep the games.
LEMMA QuietKeepsGames ==
    ASSUME GamesInv, UNCHANGED <<workers_flag, next_game, stop, output_mutex, shard>>,
           \A w \in Workers : Quiet(worker[w], worker'[w])
    PROVE  GamesInv'
  <1>0. Workers' = Workers
    BY DEF Workers
  <1>1. ASSUME NEW w \in Workers
        PROVE  /\ worker'[w].game = worker[w].game /\ worker'[w].todo = worker[w].todo
               /\ worker'[w].pc \in Busy <=> worker[w].pc \in Busy
               /\ worker'[w].pc \in {"decide", "wait"} <=> worker[w].pc \in {"decide", "wait"}
               /\ worker'[w].pc \in {"write", "done", "throw"} => worker'[w].pc = worker[w].pc
    <2>1. Quiet(worker[w], worker'[w])
      OBVIOUS
    <2> QED
      BY <2>1 DEF Quiet, Busy
  <1>2. ASSUME NEW w \in Workers
        PROVE  WorkerInv(w, worker'[w], next_game, output_mutex, shard)
    <2>1. WorkerInv(w, worker[w], next_game, output_mutex, shard)
      BY DEF GamesInv
    <2> QED
      BY <1>1, <2>1 DEF WorkerInv
  <1>3. \A v, w \in Workers : worker'[v].pc \in Busy /\ worker'[w].pc \in Busy
                                /\ worker'[v].game = worker'[w].game => v = w
    BY <1>1 DEF GamesInv
  <1>4. ASSUME NEW g \in 0 .. Games - 1, g < next_game
        PROVE  (\E w \in Workers : worker'[w].pc \in Busy /\ worker'[w].game = g) \/ IsComplete(shard, g)
    BY <1>1, <1>4 DEF GamesInv
  <1>6. Busy' = Busy /\ Entry' = Entry
    BY DEF Busy, Entry
  <1>7. /\ next_game' \in Nat /\ shard' \in Seq(Entry) /\ ~stop'
        /\ \A i \in 1 .. Len(shard') : shard'[i].game < next_game'
    BY DEF GamesInv
  <1> QED
    BY <1>0, <1>2, <1>3, <1>4, <1>6, <1>7 DEF GamesInv

\* One worker moves.
Moves(w, j) == /\ workers_flag' = workers_flag /\ worker'[w] = j
               /\ \A v \in Workers : v # w => worker'[v] = worker[v]

\* The games, where one worker moves: it is enough to look at that worker and
\* at what the others and the complete games have in the shard.
LEMMA OneMovesKeepsGames ==
    ASSUME GamesInv, ~stop', NEW w \in Workers, NEW j, Moves(w, j),
           next_game' \in Nat, next_game <= next_game', shard' \in Seq(Entry),
           WorkerInv(w, j, next_game', output_mutex', shard'),
           \A v \in Workers : v # w => WorkerInv(v, worker[v], next_game', output_mutex', shard'),
           j.pc \in Busy => \A v \in Workers : v # w /\ worker[v].pc \in Busy => worker[v].game # j.game,
           \A g \in 0 .. Games - 1 : g < next_game' =>
               \/ j.pc \in Busy /\ j.game = g
               \/ IsComplete(shard', g)
               \/ \E v \in Workers : v # w /\ worker[v].pc \in Busy /\ worker[v].game = g,
           \A i \in 1 .. Len(shard') : shard'[i].game < next_game'
    PROVE  GamesInv'
  <1>0. Workers' = Workers
    BY DEF Workers, Moves
  <1>1. ASSUME NEW v \in Workers
        PROVE  WorkerInv(v, worker'[v], next_game', output_mutex', shard')
    BY DEF Moves
  <1>2. \A u, v \in Workers : worker'[u].pc \in Busy /\ worker'[v].pc \in Busy
                                /\ worker'[u].game = worker'[v].game => u = v
    BY DEF GamesInv, Moves
  <1>3. ASSUME NEW g \in 0 .. Games - 1, g < next_game'
        PROVE  (\E v \in Workers : worker'[v].pc \in Busy /\ worker'[v].game = g) \/ IsComplete(shard', g)
    BY <1>3 DEF Moves
  <1>4. Busy' = Busy /\ Entry' = Entry
    BY DEF Busy, Entry
  <1> QED
    BY <1>0, <1>1, <1>2, <1>3, <1>4 DEF GamesInv

\* A game is claimed: nobody has it, and the shard has nothing of it.
LEMMA ClaimKeepsGames ==
    ASSUME ParametersAreValid, TreeInv, GamesInv, NEW w \in Workers, Claim(w)
    PROVE  GamesInv'
  <1> DEFINE j == IF next_game >= Games THEN [Fresh EXCEPT !.pc = "done"]
                  ELSE [Fresh EXCEPT !.pc = "decide", !.game = next_game]
  <1>1. /\ worker' = [worker EXCEPT ![w] = j] /\ worker[w].pc = "claim"
        /\ next_game' = next_game + 1
        /\ UNCHANGED <<workers_flag, stop, output_mutex, shard>>
    BY Zenon DEF Claim, At
  <1>2. IF next_game >= Games THEN j.pc = "done" ELSE j.pc = "decide" /\ j.game = next_game
    BY DEF Fresh
  <1> HIDE DEF j
  <1>3. Moves(w, j)
    BY <1>1 DEF Moves, TreeInv
  <1>4. /\ next_game \in Nat /\ Games \in Nat /\ shard \in Seq(Entry) /\ ~stop
        /\ \A i \in 1 .. Len(shard) : shard[i].game < next_game
        /\ \A i \in 1 .. Len(shard) : shard[i].game \in Nat
    <2>1. shard \in Seq(Entry) /\ \A i \in 1 .. Len(shard) : shard[i] \in Entry
      BY DEF GamesInv
    <2>2. \A i \in 1 .. Len(shard) : shard[i].game \in Nat
      BY <2>1 DEF Entry
    <2> QED
      BY <2>1, <2>2 DEF GamesInv, ParametersAreValid
  <1>5. ASSUME NEW v \in Workers
        PROVE  /\ WorkerInv(v, worker[v], next_game', output_mutex', shard')
               /\ worker[v].pc \in Busy => worker[v].game # next_game
    BY <1>1, <1>4 DEF GamesInv, WorkerInv, Busy
  <1>6. WorkerInv(w, j, next_game', output_mutex', shard')
    <2>1. Absent(shard, next_game)
      BY <1>4 DEF Absent
    <2> QED
      BY <1>1, <1>2, <1>4, <2>1 DEF WorkerInv, Busy
  <1>7. j.pc \in Busy => \A v \in Workers : v # w /\ worker[v].pc \in Busy => worker[v].game # j.game
    BY <1>2, <1>5 DEF Busy
  <1>8. ASSUME NEW g \in 0 .. Games - 1, g < next_game'
        PROVE  \/ j.pc \in Busy /\ j.game = g
               \/ IsComplete(shard', g)
               \/ \E v \in Workers : v # w /\ worker[v].pc \in Busy /\ worker[v].game = g
    <2>1. CASE g = next_game
      BY <1>2, <1>4, <2>1 DEF Busy
    <2>2. CASE g # next_game
      <3>1. g < next_game
        BY <1>1, <1>4, <1>8, <2>2
      <3>2. worker[w].pc \notin Busy
        BY <1>1 DEF Busy
      <3> QED
        BY <1>1, <3>1, <3>2 DEF GamesInv
    <2> QED
      BY <2>1, <2>2
  <1>9. /\ next_game' \in Nat /\ next_game <= next_game' /\ shard' \in Seq(Entry) /\ ~stop'
        /\ \A i \in 1 .. Len(shard') : shard'[i].game < next_game'
    BY <1>1, <1>4
  <1> QED
    BY <1>3, <1>5, <1>6, <1>7, <1>8, <1>9, OneMovesKeepsGames

\* The game of a worker that stays at work, or has written it all.
LEMMA WorkGoesOn ==
    ASSUME GamesInv, NEW w \in Workers, worker[w].pc \in Busy, NEW j, NEW s,
           \/ j.pc \in Busy /\ j.game = worker[w].game
           \/ IsComplete(s, worker[w].game),
           \A g : g # worker[w].game /\ IsComplete(shard, g) => IsComplete(s, g)
    PROVE  \A g \in 0 .. Games - 1 : g < next_game =>
              \/ j.pc \in Busy /\ j.game = g
              \/ IsComplete(s, g)
              \/ \E v \in Workers : v # w /\ worker[v].pc \in Busy /\ worker[v].game = g
  BY DEF GamesInv

\* The game is over and the mutex free: the write begins.
LEMMA BeginWriteKeepsGames ==
    ASSUME ParametersAreValid, TreeInv, GamesInv, NEW w \in Workers, BeginWrite(w)
    PROVE  GamesInv'
  <1> DEFINE k == worker[w]
             x == Examples(k.game)
             j == [k EXCEPT !.pc = "write", !.todo = x]
  <1>1. /\ worker' = [worker EXCEPT ![w] = j] /\ k.pc = "decide"
        /\ output_mutex = 0 /\ output_mutex' = w
        /\ UNCHANGED <<workers_flag, next_game, stop, shard>>
    BY Zenon DEF BeginWrite, At, control
  <1>2. DOMAIN k = Fields
    BY DEF TreeInv, IsWorker
  <1>3. WorkerInv(w, k, next_game, output_mutex, shard) /\ k.pc \in Busy
    BY <1>1 DEF GamesInv, Busy
  <1>k. Moves(w, j)
    BY <1>1 DEF Moves, TreeInv
  <1> HIDE DEF k, x
  <1>4. j.pc = "write" /\ j.game = k.game /\ j.todo = x
    BY <1>2 DEF Fields
  <1> HIDE DEF j
  <1>5. WorkerInv(w, j, next_game', output_mutex', shard')
    <2>1. Absent(shard, k.game) /\ k.game \in 0 .. Games - 1 /\ k.game < next_game
      BY <1>1, <1>3 DEF WorkerInv
    <2>2. IsWriting(shard, k.game, x)
      BY <2>1, WriteBegins DEF x
    <2> QED
      BY <1>1, <1>4, <2>1, <2>2 DEF WorkerInv
  <1>6. ASSUME NEW v \in Workers, v # w
        PROVE  /\ WorkerInv(v, worker[v], next_game', output_mutex', shard')
               /\ worker[v].pc \in Busy => worker[v].game # j.game
    <2>1. WorkerInv(v, worker[v], next_game, output_mutex, shard) /\ v # 0
      BY DEF GamesInv, Workers
    <2>2. worker[v].pc # "write"
      BY <1>1, <2>1 DEF WorkerInv
    <2>3. worker[v].pc \in Busy => worker[v].game # k.game
      BY <1>3, <1>6 DEF GamesInv, k
    <2> QED
      BY <1>1, <1>4, <2>1, <2>2, <2>3 DEF WorkerInv
  <1>7. \A g \in 0 .. Games - 1 : g < next_game' =>
              \/ j.pc \in Busy /\ j.game = g
              \/ IsComplete(shard', g)
              \/ \E v \in Workers : v # w /\ worker[v].pc \in Busy /\ worker[v].game = g
    <2>1. j.pc \in Busy /\ j.game = worker[w].game /\ worker[w].pc \in Busy
      BY <1>3, <1>4 DEF Busy, k
    <2>2. shard' = shard /\ next_game' = next_game
      BY <1>1
    <2> QED
      BY <2>1, <2>2, WorkGoesOn
  <1>8. /\ next_game' \in Nat /\ next_game <= next_game' /\ shard' \in Seq(Entry) /\ ~stop'
        /\ \A i \in 1 .. Len(shard') : shard'[i].game < next_game'
    BY <1>1 DEF GamesInv
  <1> QED
    BY <1>k, <1>5, <1>6, <1>7, <1>8, OneMovesKeepsGames

\* The next example is written, after the others of its game.
LEMMA WriteKeepsGames ==
    ASSUME ParametersAreValid, TreeInv, GamesInv, NEW w \in Workers, WriteExample(w)
    PROVE  GamesInv'
  <1> DEFINE k == worker[w]
             x == k.todo \ {Min(k.todo)}
             j == [k EXCEPT !.todo = x]
             e == [game |-> k.game, ply |-> Min(k.todo)]
  <1>1. /\ worker' = [worker EXCEPT ![w] = j] /\ k.pc = "write" /\ k.todo # {}
        /\ shard' = Append(shard, e)
        /\ UNCHANGED <<workers_flag, next_game, stop, output_mutex>>
    BY Zenon DEF WriteExample, At, control
  <1>2. DOMAIN k = Fields
    BY DEF TreeInv, IsWorker
  <1>3. WorkerInv(w, k, next_game, output_mutex, shard) /\ k.pc \in Busy
    BY <1>1 DEF GamesInv, Busy
  <1>k. Moves(w, j)
    BY <1>1 DEF Moves, TreeInv
  <1>s. shard \in Seq(Entry) /\ next_game \in Nat /\ ~stop
    BY DEF GamesInv
  <1>g. e.game = k.game
    OBVIOUS
  <1> HIDE DEF k
  <1>4. j.pc = "write" /\ j.game = k.game /\ j.todo = x
    BY <1>1, <1>2 DEF Fields
  <1> HIDE DEF j
  <1>5. /\ k.game \in 0 .. Games - 1 /\ k.game < next_game /\ output_mutex = w
        /\ IsWriting(shard, k.game, k.todo)
    BY <1>1, <1>3 DEF WorkerInv
  <1>6. e \in Entry /\ IsWriting(shard', k.game, x)
    BY <1>1, <1>5, <1>s, NextExample
  <1> HIDE DEF x, e
  <1>7. /\ shard' \in Seq(Entry) /\ Len(shard) \in Nat /\ Len(shard') = Len(shard) + 1
        /\ shard'[Len(shard) + 1] = e /\ \A i \in 1 .. Len(shard) : shard'[i] = shard[i]
    BY <1>1, <1>6, <1>s, Appended
  <1>8. WorkerInv(w, j, next_game', output_mutex', shard')
    BY <1>1, <1>4, <1>5, <1>6 DEF WorkerInv
  <1>9. ASSUME NEW v \in Workers, v # w
        PROVE  /\ WorkerInv(v, worker[v], next_game', output_mutex', shard')
               /\ worker[v].pc \in Busy => worker[v].game # j.game
    <2>1. WorkerInv(v, worker[v], next_game, output_mutex, shard)
      BY DEF GamesInv
    <2>2. worker[v].pc # "write"
      BY <1>5, <1>9, <2>1 DEF WorkerInv
    <2>3. worker[v].pc \in Busy => worker[v].game # k.game
      BY <1>3, <1>9 DEF GamesInv, k
    <2>4. worker[v].pc \in {"decide", "wait"} => Absent(shard', worker[v].game)
      <3>1. SUFFICES ASSUME worker[v].pc \in {"decide", "wait"} PROVE Absent(shard', worker[v].game)
        OBVIOUS
      <3>2. Absent(shard, worker[v].game) /\ worker[v].game # e.game
        BY <1>g, <2>1, <2>3, <3>1 DEF WorkerInv, Busy
      <3> QED
        BY <1>1, <1>6, <1>s, <3>2, OthersStayAbsent
    <2> QED
      BY <1>1, <1>4, <2>1, <2>2, <2>3, <2>4 DEF WorkerInv
  <1>10. \A g \in 0 .. Games - 1 : g < next_game' =>
              \/ j.pc \in Busy /\ j.game = g
              \/ IsComplete(shard', g)
              \/ \E v \in Workers : v # w /\ worker[v].pc \in Busy /\ worker[v].game = g
    <2>1. j.pc \in Busy /\ j.game = worker[w].game /\ worker[w].pc \in Busy
      BY <1>3, <1>4 DEF Busy, k
    <2>2. ASSUME NEW g, g # worker[w].game, IsComplete(shard, g)
          PROVE  IsComplete(shard', g)
      <3>1. g # e.game
        BY <1>g, <2>2 DEF k
      <3> QED
        BY <1>1, <1>6, <1>s, <2>2, <3>1, OthersStayComplete
    <2>3. next_game' = next_game
      BY <1>1
    <2> QED
      BY <2>1, <2>2, <2>3, WorkGoesOn
  <1>11. \A i \in 1 .. Len(shard') : shard'[i].game < next_game'
    <2>1. \A i \in 1 .. Len(shard) : shard[i].game < next_game
      BY DEF GamesInv
    <2>2. \A i \in 1 .. Len(shard') : i = Len(shard) + 1 \/ i \in 1 .. Len(shard)
      BY <1>7
    <2> QED
      BY <1>1, <1>5, <1>7, <1>g, <2>1, <2>2
  <1>12. next_game' \in Nat /\ next_game <= next_game' /\ ~stop'
    BY <1>1, <1>s
  <1> QED
    BY <1>k, <1>7, <1>8, <1>9, <1>10, <1>11, <1>12, OneMovesKeepsGames

\* The last example is written: the game is complete.
LEMMA EndWriteKeepsGames ==
    ASSUME ParametersAreValid, TreeInv, GamesInv, NEW w \in Workers, EndWrite(w)
    PROVE  GamesInv'
  <1> DEFINE k == worker[w]
             j == [k EXCEPT !.pc = "loop"]
  <1>1. /\ worker' = [worker EXCEPT ![w] = j] /\ k.pc = "write" /\ k.todo = {}
        /\ UNCHANGED <<workers_flag, next_game, stop, shard>>
    BY Zenon DEF EndWrite, At, Goes
  <1>2. DOMAIN k = Fields
    BY DEF TreeInv, IsWorker
  <1>3. WorkerInv(w, k, next_game, output_mutex, shard) /\ k.pc \in Busy
    BY <1>1 DEF GamesInv, Busy
  <1>k. Moves(w, j)
    BY <1>1 DEF Moves, TreeInv
  <1> HIDE DEF k
  <1>4. j.pc = "loop"
    BY <1>2 DEF Fields
  <1> HIDE DEF j
  <1>5. WorkerInv(w, j, next_game', output_mutex', shard')
    BY <1>4 DEF WorkerInv, Busy
  <1>6. ASSUME NEW v \in Workers, v # w
        PROVE  WorkerInv(v, worker[v], next_game', output_mutex', shard')
    <2>1. WorkerInv(v, worker[v], next_game, output_mutex, shard)
      BY DEF GamesInv
    <2>2. worker[v].pc # "write"
      BY <1>1, <1>3, <1>6, <2>1 DEF WorkerInv
    <2> QED
      BY <1>1, <2>1, <2>2 DEF WorkerInv
  <1>7. \A g \in 0 .. Games - 1 : g < next_game' =>
              \/ j.pc \in Busy /\ j.game = g
              \/ IsComplete(shard', g)
              \/ \E v \in Workers : v # w /\ worker[v].pc \in Busy /\ worker[v].game = g
    <2>1. IsWriting(shard, worker[w].game, {}) /\ worker[w].pc \in Busy
      BY <1>1, <1>3 DEF WorkerInv, k
    <2>2. Len(shard) \in Nat
      BY LenProperties DEF GamesInv
    <2>3. IsComplete(shard, worker[w].game)
      BY <2>1, <2>2, WrittenIsComplete
    <2>4. shard' = shard /\ next_game' = next_game
      BY <1>1
    <2> QED
      BY <2>1, <2>3, <2>4, WorkGoesOn
  <1>8. j.pc \notin Busy
    BY <1>4 DEF Busy
  <1>9. /\ next_game' \in Nat /\ next_game <= next_game' /\ shard' \in Seq(Entry) /\ ~stop'
        /\ \A i \in 1 .. Len(shard') : shard'[i].game < next_game'
    BY <1>1 DEF GamesInv
  <1> QED
    BY <1>k, <1>5, <1>6, <1>7, <1>8, <1>9, OneMovesKeepsGames

\* The steps of a worker in the loop's head or at play, and the answers of an
\* inference thread, are quiet.
LEMMA QuietSteps ==
    ASSUME ParametersAreValid, TreeInv, TreeInv',
           \/ \E w \in Workers : \/ CheckStop(w) /\ ~stop
                                 \/ Submit(w) \/ PlayAction(w) \/ PlaySolved(w) \/ WriteFails(w)
           \/ \E m \in Models : InferenceStep(m) \/ InferenceFails(m)
           \/ JoinWorkers \/ CloseFails \/ Return \/ UNCHANGED vars
    PROVE  /\ UNCHANGED <<workers_flag, next_game, stop, first_error, output_mutex, shard>>
           /\ \A w \in Workers : Quiet(worker[w], worker'[w])
  <1>0. DOMAIN worker = Workers /\ \A w \in Workers : DOMAIN worker[w] = Fields
    BY DEF TreeInv, IsWorker
  <1>1. UNCHANGED <<workers_flag, next_game, stop, first_error, output_mutex, shard>>
    BY Zenon DEF CheckStop, Submit, PlayAction, PlaySolved, WriteFails, InferenceStep, InferenceFails,
                 Wake, PopBatch, InferenceLoop, ThreadExits, JoinWorkers, CloseFails, Return, vars,
                 control, others
  <1>2. ASSUME worker' = worker
        PROVE  \A w \in Workers : Quiet(worker[w], worker'[w])
    BY <1>2 DEF Quiet
  <1>3. ASSUME NEW w \in Workers, NEW j, worker' = [worker EXCEPT ![w] = j], Quiet(worker[w], j)
        PROVE  \A v \in Workers : Quiet(worker[v], worker'[v])
    <2>1. worker'[w] = j /\ \A v \in Workers : v # w => worker'[v] = worker[v]
      BY <1>0, <1>3
    <2> QED
      BY <1>3, <2>1 DEF Quiet
  <1>4. ASSUME NEW w \in Workers, CheckStop(w), ~stop
        PROVE  \A v \in Workers : Quiet(worker[v], worker'[v])
    <2> DEFINE k == worker[w]
               j == [k EXCEPT !.pc = "claim"]
    <2>1. worker' = [worker EXCEPT ![w] = j] /\ k.pc = "loop"
      BY <1>4 DEF CheckStop, Goes, At
    <2>2. DOMAIN k = Fields
      BY <1>0
    <2> HIDE DEF k
    <2>3. j.pc = "claim" /\ j.game = k.game /\ j.todo = k.todo
      BY <2>2 DEF Fields
    <2> HIDE DEF j
    <2>4. Quiet(k, j)
      BY <2>1, <2>3 DEF Quiet
    <2> QED
      BY <1>3, <2>1, <2>4 DEF k
  <1>5. ASSUME NEW w \in Workers, Submit(w)
        PROVE  \A v \in Workers : Quiet(worker[v], worker'[v])
    <2> DEFINE k == worker[w]
               m == ModelFor(k.game, k.ply)
               a == IF Immediate THEN BoardsOf(w, k.ply) ELSE NoAnswer
               s == Searching(w)
               j == [k EXCEPT !.pc = "wait", !.searches[m] = s, !.answer = a]
    <2>1. worker' = [worker EXCEPT ![w] = j] /\ k.pc = "decide"
      BY <1>5, Zenon DEF Submit, At
    <2>2. DOMAIN k = Fields
      BY <1>0
    <2> HIDE DEF k, m, a, s
    <2>3. j.pc = "wait" /\ j.game = k.game /\ j.todo = k.todo
      BY <2>2 DEF Fields
    <2> HIDE DEF j
    <2>4. Quiet(k, j)
      BY <2>1, <2>3 DEF Quiet
    <2> QED
      BY <1>3, <2>1, <2>4 DEF k
  <1>6. ASSUME NEW w \in Workers, PlayAction(w)
        PROVE  \A v \in Workers : Quiet(worker[v], worker'[v])
    <2> DEFINE k == worker[w]
               m == ModelFor(k.game, k.ply)
               t(lost) == SelectAction(k.searches, lost, m, k.ply)
               p == k.ply + 1
               j(lost) == [k EXCEPT !.pc = "decide", !.answer = NoAnswer, !.ply = p,
                                    !.searches = t(lost)]
    <2>1. k.pc = "wait" /\ \E lost : worker' = [worker EXCEPT ![w] = j(lost)]
      BY <1>6, Zenon DEF PlayAction, At
    <2>2. DOMAIN k = Fields
      BY <1>0
    <2> HIDE DEF k, t, p
    <2>3. \A lost : /\ j(lost).pc = "decide" /\ j(lost).game = k.game
                    /\ j(lost).todo = k.todo
      BY <2>2 DEF Fields
    <2> HIDE DEF j
    <2>4. \A lost : Quiet(k, j(lost))
      BY <2>1, <2>3 DEF Quiet
    <2> QED
      BY <1>3, <2>1, <2>4 DEF k
  <1>s. ASSUME NEW w \in Workers, PlaySolved(w)
        PROVE  \A v \in Workers : Quiet(worker[v], worker'[v])
    <2> DEFINE k == worker[w]
               m == ModelFor(k.game, k.ply)
               t(lost) == SelectAction([k.searches EXCEPT ![m] = SearchOf(w)], lost, m, k.ply)
               p == k.ply + 1
               j(lost) == [k EXCEPT !.answer = NoAnswer, !.ply = p, !.searches = t(lost)]
    <2>1. \E lost : worker' = [worker EXCEPT ![w] = j(lost)]
      BY <1>s, Zenon DEF PlaySolved
    <2>2. DOMAIN k = Fields
      BY <1>0
    <2> HIDE DEF k, t, p
    <2>3. \A lost : j(lost).pc = k.pc /\ j(lost).game = k.game /\ j(lost).todo = k.todo
      BY <2>2 DEF Fields
    <2> HIDE DEF j
    <2>4. \A lost : Quiet(k, j(lost))
      BY <2>3 DEF Quiet
    <2> QED
      BY <1>3, <2>1, <2>4 DEF k
  <1>7. ASSUME NEW m \in Models, InferenceLoop(m)
        PROVE  \A v \in Workers : Quiet(worker[v], worker'[v])
    <2> DEFINE batch == inference[m].batch
               mine(w) == {i \in DOMAIN batch : batch[i].worker = w}
               a(w) == RunBatch(batch)[Min(mine(w))]
    <2>1. worker' = [w \in Workers |-> IF mine(w) = {} THEN worker[w]
                                       ELSE [worker[w] EXCEPT !.answer = a(w)]]
      BY <1>7, Zenon DEF InferenceLoop
    <2> SUFFICES ASSUME NEW v \in Workers PROVE Quiet(worker[v], worker'[v])
      OBVIOUS
    <2> DEFINE k == worker[v]
               b == a(v)
               j == [k EXCEPT !.answer = b]
    <2> HIDE DEF mine, a
    <2>2. worker'[v] = k \/ worker'[v] = j
      BY <2>1
    <2>3. DOMAIN k = Fields
      BY <1>0
    <2> HIDE DEF k, b
    <2>4. j.pc = k.pc /\ j.game = k.game /\ j.todo = k.todo
      BY <2>3 DEF Fields
    <2> HIDE DEF j
    <2>5. Quiet(k, worker'[v])
      BY <2>2, <2>4 DEF Quiet
    <2> QED
      BY <2>5 DEF k
  <1>8. CASE \/ \E w \in Workers : WriteFails(w)
             \/ \E m \in Models : Wake(m) \/ PopBatch(m) \/ ThreadExits(m) \/ InferenceFails(m)
             \/ JoinWorkers \/ CloseFails \/ Return \/ UNCHANGED vars
    <2>1. worker' = worker
      BY <1>8, Zenon DEF WriteFails, Wake, PopBatch, ThreadExits, InferenceFails, JoinWorkers,
                         CloseFails, Return, vars
    <2> QED
      BY <1>1, <1>2, <2>1
  <1>9. CASE \E w \in Workers : (CheckStop(w) /\ ~stop) \/ Submit(w) \/ PlayAction(w) \/ PlaySolved(w)
    BY <1>1, <1>4, <1>5, <1>6, <1>s, <1>9
  <1>10. CASE \E m \in Models : InferenceLoop(m)
    BY <1>1, <1>7, <1>10
  <1> QED
    BY <1>1, <1>8, <1>9, <1>10, Zenon DEF InferenceStep

\* Every step keeps the invariant.
LEMMA ShardNext == ParametersAreValid /\ ShardInv /\ [Next]_vars => ShardInv'
  <1> SUFFICES ASSUME ParametersAreValid, ShardInv, [Next]_vars PROVE ShardInv'
    OBVIOUS
  <1>0. TreeInv /\ TreeInv'
    BY TreeNext DEF ShardInv
  <1>w. workers_flag' = workers_flag /\ workers_flag \in 1 .. MaxWorkers
    <2>1. workers_flag' = workers_flag
      BY Zenon DEF Next, vars, WorkerStep, Throw, WriteFails, InferenceStep, InferenceFails,
             JoinWorkers, CloseFails, Return, CheckStop, Claim, Submit, PlayAction, PlaySolved,
             BeginWrite, WriteExample, EndWrite, StoreStop, Wake, PopBatch, InferenceLoop, ThreadExits, others
    <2> QED
      BY <2>1 DEF ShardInv
  <1>v. Workers' = Workers
    BY <1>w DEF Workers
  \* While main joins the workers.
  <1>1. ASSUME NEW w \in Workers,
               \/ CheckStop(w) \/ Claim(w) \/ Submit(w) \/ PlayAction(w) \/ PlaySolved(w) \/ BeginWrite(w)
               \/ WriteExample(w) \/ EndWrite(w) \/ StoreStop(w) \/ Throw(w)
        PROVE  main' \notin {"closing", "returned 0"}
    <2>1. main' = main
      BY <1>1, Zenon DEF CheckStop, Claim, Submit, PlayAction, PlaySolved, BeginWrite, WriteExample,
                         EndWrite, StoreStop, Throw
    <2>2. worker[w].pc # "done" /\ Running
      BY <1>1 DEF CheckStop, Claim, Submit, PlayAction, PlaySolved, BeginWrite, WriteExample, EndWrite,
                  StoreStop, Throw, At
    <2> QED
      BY <2>1, <2>2 DEF ShardInv, Running
  <1>2. ASSUME first_error' \/ GamesInv', main' \notin {"closing", "returned 0"}
        PROVE  ShardInv'
    BY <1>0, <1>2, <1>w DEF ShardInv
  <1>3. ASSUME UNCHANGED <<workers_flag, next_game, stop, first_error, output_mutex, shard>>,
               \A w \in Workers : Quiet(worker[w], worker'[w])
        PROVE  /\ first_error' \/ GamesInv'
               /\ \A w \in Workers : worker[w].pc = "done" => worker'[w].pc = "done"
    <2>1. first_error' \/ GamesInv'
      BY <1>3, QuietKeepsGames DEF ShardInv
    <2>2. ASSUME NEW w \in Workers, worker[w].pc = "done"
          PROVE  worker'[w].pc = "done"
      <3>1. Quiet(worker[w], worker'[w])
        BY <1>3
      <3> QED
        BY <2>2, <3>1 DEF Quiet
    <2> QED
      BY <2>1, <2>2
  <1>4. ASSUME NEW w \in Workers, WorkerStep(w) \/ Throw(w)
        PROVE  ShardInv'
    <2>0. main' \notin {"closing", "returned 0"}
      BY <1>1, <1>4 DEF WorkerStep
    <2>1. CASE first_error
      <3>1. first_error'
        BY <1>4, <2>1, Zenon DEF WorkerStep, CheckStop, Claim, Submit, PlayAction, PlaySolved,
                          BeginWrite, WriteExample, EndWrite, StoreStop, Throw, control
      <3> QED
        BY <1>2, <2>0, <3>1
    <2>2. CASE ~first_error /\ ~Throw(w)
      <3>0. GamesInv /\ WorkerInv(w, worker[w], next_game, output_mutex, shard) /\ ~stop
        BY <2>2 DEF ShardInv, GamesInv
      <3>1. CASE CheckStop(w) \/ Submit(w) \/ PlayAction(w) \/ PlaySolved(w)
        <4>1. first_error' \/ GamesInv'
          BY <1>0, <1>3, <3>0, <3>1, QuietSteps
        <4> QED
          BY <1>2, <2>0, <4>1
      <3>2. CASE Claim(w)
        BY <1>0, <1>2, <2>0, <3>0, <3>2, ClaimKeepsGames
      <3>3. CASE BeginWrite(w)
        BY <1>0, <1>2, <2>0, <3>0, <3>3, BeginWriteKeepsGames
      <3>4. CASE WriteExample(w)
        BY <1>0, <1>2, <2>0, <3>0, <3>4, WriteKeepsGames
      <3>5. CASE EndWrite(w)
        BY <1>0, <1>2, <2>0, <3>0, <3>5, EndWriteKeepsGames
      <3>6. ~StoreStop(w)
        BY <3>0 DEF StoreStop, At, WorkerInv
      <3> QED
        BY <1>4, <2>2, <3>1, <3>2, <3>3, <3>4, <3>5, <3>6 DEF WorkerStep
    <2>3. CASE Throw(w)
      <3>1. first_error'
        BY <2>3 DEF Throw
      <3> QED
        BY <1>2, <2>0, <3>1
    <2> QED
      BY <2>1, <2>2, <2>3
  <1>5. CASE \/ \E w \in Workers : WriteFails(w)
             \/ \E m \in Models : InferenceStep(m) \/ InferenceFails(m)
             \/ JoinWorkers \/ CloseFails \/ Return \/ UNCHANGED vars
    <2>1. /\ UNCHANGED <<workers_flag, next_game, stop, first_error, output_mutex, shard>>
          /\ \A w \in Workers : Quiet(worker[w], worker'[w])
      BY <1>0, <1>5, QuietSteps
    <2>2. /\ first_error' \/ GamesInv'
          /\ \A w \in Workers : worker[w].pc = "done" => worker'[w].pc = "done"
      BY <1>3, <2>1
    <2>3. CASE JoinWorkers
      <3>1. main' = "closing" /\ \A w \in Workers : worker[w].pc = "done"
        BY <2>3 DEF JoinWorkers
      <3> QED
        BY <1>0, <1>v, <1>w, <2>2, <3>1 DEF ShardInv
    <2>4. CASE Return
      <3>1. main = "closing" /\ main' = IF first_error THEN "returned 2" ELSE "returned 0"
        BY <2>4 DEF Return
      <3>2. \A w \in Workers : worker[w].pc = "done"
        BY <3>1 DEF ShardInv
      <3>3. main' = "returned 0" => ~first_error'
        BY <2>1, <3>1
      <3> QED
        BY <1>0, <1>v, <1>w, <2>2, <3>2, <3>3 DEF ShardInv
    <2>5. CASE \/ \E w \in Workers : WriteFails(w)
               \/ \E m \in Models : InferenceStep(m) \/ InferenceFails(m)
               \/ CloseFails \/ UNCHANGED vars
      <3>1. main' = "aborted" \/ main' = main
        BY <2>5, Zenon DEF WriteFails, InferenceStep, InferenceFails, Wake, PopBatch, InferenceLoop,
                           ThreadExits, CloseFails, vars
      <3>2. CASE main' = "aborted"
        BY <1>2, <2>2, <3>2
      <3>3. CASE main' = main
        <4>1. first_error' = first_error
          BY <2>1
        <4>2. main' \in {"closing", "returned 0"} => \A w \in Workers : worker'[w].pc = "done"
          BY <2>2, <3>3 DEF ShardInv
        <4>3. main' = "returned 0" => ~first_error'
          BY <3>3, <4>1 DEF ShardInv
        <4> QED
          BY <1>0, <1>v, <1>w, <2>2, <4>2, <4>3 DEF ShardInv
      <3> QED
        BY <3>1, <3>2, <3>3
    <2> QED
      BY <1>5, <2>3, <2>4, <2>5
  <1> QED
    BY <1>4, <1>5 DEF Next

\* When main returns without an error, every game is claimed, none is held, and
\* so all are complete.
LEMMA ReturnedIsComplete ==
    ASSUME ParametersAreValid, ShardInv
    PROVE  ShardIsComplete
  <1>1. CASE main # "returned 0"
    BY <1>1, Zenon DEF ShardIsComplete
  <1>2. CASE main = "returned 0"
    <2>1. GamesInv /\ \A w \in Workers : worker[w].pc = "done"
      BY <1>2 DEF ShardInv
    <2>2. \E w \in Workers : TRUE
      <3> DEFINE n == IF workers_flag < Games THEN workers_flag ELSE Games
      <3>1. workers_flag \in Nat /\ workers_flag >= 1 /\ Games \in Nat /\ Games >= 1
        <4>1. workers_flag \in 1 .. MaxWorkers
          BY DEF ShardInv
        <4>2. MaxWorkers \in Nat /\ Games \in Nat \ {0}
          BY DEF ParametersAreValid
        <4> QED
          BY <4>1, <4>2
      <3>2. n \in Nat /\ n >= 1
        BY <3>1
      <3> HIDE DEF n
      <3>3. 1 \in 1 .. n
        BY <3>2
      <3> QED
        BY <3>3, Zenon DEF Workers, n
    <2>3. next_game >= Games /\ next_game \in Nat /\ Games \in Nat
      BY <2>1, <2>2 DEF GamesInv, WorkerInv, ParametersAreValid
    <2>4. ASSUME NEW g \in 0 .. Games - 1
          PROVE  IsComplete(shard, g)
      <3>1. g < next_game
        BY <2>3
      <3>2. \A w \in Workers : worker[w].pc \notin Busy
        BY <2>1 DEF Busy
      <3> QED
        BY <2>1, <3>1, <3>2 DEF GamesInv
    <2> QED
      BY <2>1, <2>4, CompleteShard DEF GamesInv
  <1> QED
    BY <1>1, <1>2

\* For every number of workers and games, every share of mixed games and every
\* interleaving: a shard reported as written holds every game once, in one piece
\* and in order; mixed games are as many as asked for and seat the champion in
\* turn (gomoku_game_generator.cpp).
THEOREM ShardIsCompleteAlways == Spec => []ShardIsComplete
  <1>1. ParametersAreValid /\ ShardInv => ShardIsComplete
    BY ReturnedIsComplete
  <1> QED
    BY <1>1, ShardInit, ShardNext, ParametersAreValid, PTL DEF Spec
=============================================================================
