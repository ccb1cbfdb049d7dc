----------------------------- MODULE MctsProofs -----------------------------
(***************************************************************************)
(* Proofs about the tree search, for every game graph, every evaluator and *)
(* solver, every batch size and virtual loss: the tree follows the game,   *)
(* its statistics are those of the finished simulations, and the defensive *)
(* mask holds without ever leaving the selection without a child.          *)
(***************************************************************************)
EXTENDS Mcts, SequenceTheorems, FiniteSetTheorems, WellFoundedInduction, TLAPS

-----------------------------------------------------------------------------
(* Paths. *)

\* Taking a path apart after putting it together.
LEMMA AppendFrontLast ==
    ASSUME NEW A, NEW q \in Seq(A), NEW a \in A
    PROVE  /\ Append(q, a) \in Seq(A) /\ Append(q, a) # <<>> /\ Len(Append(q, a)) = Len(q) + 1
           /\ Front(Append(q, a)) = q /\ Last(Append(q, a)) = a
  <1> DEFINE r == Append(q, a)
  <1>1. /\ r \in Seq(A) /\ r # <<>> /\ Len(r) = Len(q) + 1 /\ \A i \in 1 .. Len(q) : r[i] = q[i]
        /\ r[Len(q) + 1] = a
    BY AppendProperties
  <1>2. Len(q) \in Nat /\ \A i \in 1 .. Len(q) : q[i] \in A
    BY LenProperties
  <1> HIDE DEF r
  <1>3. Len(r) - 1 = Len(q) /\ 1 \in Int /\ Len(q) \in Int /\ \A i \in 1 .. Len(q) : r[i] \in A
    BY <1>1, <1>2
  <1> DEFINE f == SubSeq(r, 1, Len(q))
  <1>4. /\ f \in Seq(A) /\ Len(f) = IF 1 <= Len(q) THEN Len(q) - 1 + 1 ELSE 0
        /\ \A i \in 1 .. Len(q) - 1 + 1 : f[i] = r[1 + i - 1]
    BY <1>3, SubSeqProperties
  <1> HIDE DEF f
  <1>5. Len(f) = Len(q) /\ \A i \in 1 .. Len(q) : f[i] = q[i]
    BY <1>1, <1>2, <1>4
  <1>6. f = q
    BY <1>4, <1>5, SeqEqual
  <1>7. Front(r) = f
    BY <1>3 DEF Front, f
  <1> QED
    BY <1>1, <1>6, <1>7 DEF Last, r

\* Every path but the root has a parent and a last action.
LEMMA SplitPath ==
    ASSUME NEW A, NEW q \in Seq(A), q # <<>>
    PROVE  /\ Front(q) \in Seq(A) /\ Last(q) \in A /\ q = Append(Front(q), Last(q))
           /\ Len(q) = Len(Front(q)) + 1
  <1>1. PICK s \in Seq(A), e \in A : q = Append(s, e)
    BY SequenceEmptyOrAppend
  <1>2. Front(q) = s /\ Last(q) = e /\ Len(q) = Len(s) + 1
    BY <1>1, AppendFrontLast
  <1> QED
    BY <1>1, <1>2

\* A prefix agrees with the path as far as it goes.
LEMMA PrefixIs ==
    ASSUME NEW A, NEW r \in Seq(A), NEW q \in Seq(A)
    PROVE  IsPrefix(r, q) <=> Len(r) <= Len(q) /\ \A i \in 1 .. Len(r) : r[i] = q[i]
  <1> DEFINE n == Len(r)
             s == SubSeq(q, 1, n)
  <1>1. Len(r) \in Nat /\ Len(q) \in Nat /\ \A i \in 1 .. Len(q) : q[i] \in A
    BY LenProperties
  <1>2. SubSeq(r, 1, Len(r)) = r
    BY SubSeqFull
  <1>3. ASSUME n <= Len(q)
        PROVE  r = s <=> \A i \in 1 .. n : r[i] = q[i]
    <2>1. 1 \in Int /\ n \in Int /\ \A i \in 1 .. n : q[i] \in A
      BY <1>1, <1>3
    <2>2. /\ s \in Seq(A) /\ Len(s) = IF 1 <= n THEN n - 1 + 1 ELSE 0
          /\ \A i \in 1 .. n - 1 + 1 : s[i] = q[1 + i - 1]
      BY <2>1, SubSeqProperties
    <2> HIDE DEF s
    <2>3. Len(s) = n /\ \A i \in 1 .. n : s[i] = q[i]
      BY <1>1, <2>2
    <2>4. ASSUME \A i \in 1 .. n : r[i] = q[i] PROVE r = s
      BY <2>2, <2>3, <2>4, SeqEqual
    <2> QED
      BY <2>3, <2>4
  <1>4. IsPrefix(r, q) <=> n <= Len(q) /\ r = s
    BY <1>2 DEF IsPrefix
  <1> HIDE DEF s
  <1> QED
    BY <1>3, <1>4

\* The root and the node itself are on every path.
LEMMA RootIsPrefix ==
    ASSUME NEW A, NEW q \in Seq(A)
    PROVE  IsPrefix(Root, q) /\ IsPrefix(q, q) /\ Root \in Seq(A)
  <1>1. Len(q) \in Nat /\ Root \in Seq(A) /\ Len(Root) = 0
    BY EmptySeq, LenProperties DEF Root
  <1>2. IsPrefix(Root, q)
    <2>1. Len(Root) <= Len(q) /\ \A i \in 1 .. Len(Root) : Root[i] = q[i]
      BY <1>1
    <2> HIDE DEF Root
    <2> QED
      BY <1>1, <2>1, PrefixIs
  <1>3. IsPrefix(q, q)
    BY <1>1, PrefixIs
  <1> QED
    BY <1>1, <1>2, <1>3

\* The prefixes of a longer path.
LEMMA PrefixOfAppend ==
    ASSUME NEW A, NEW q \in Seq(A), NEW a \in A, NEW r \in Seq(A)
    PROVE  IsPrefix(r, Append(q, a)) <=> r = Append(q, a) \/ IsPrefix(r, q)
  <1> DEFINE s == Append(q, a)
  <1>1. /\ s \in Seq(A) /\ Len(s) = Len(q) + 1 /\ \A i \in 1 .. Len(q) : s[i] = q[i]
    BY AppendProperties
  <1>2. Len(q) \in Nat /\ Len(r) \in Nat
    BY LenProperties
  <1>3. IsPrefix(s, s)
    BY <1>1, RootIsPrefix
  <1> HIDE DEF s
  <1>4. /\ IsPrefix(r, s) <=> Len(r) <= Len(s) /\ \A i \in 1 .. Len(r) : r[i] = s[i]
        /\ IsPrefix(r, q) <=> Len(r) <= Len(q) /\ \A i \in 1 .. Len(r) : r[i] = q[i]
    BY <1>1, PrefixIs
  <1>5. ASSUME IsPrefix(r, q) PROVE IsPrefix(r, s)
    BY <1>1, <1>2, <1>4, <1>5
  <1>6. ASSUME IsPrefix(r, s), r # s PROVE IsPrefix(r, q)
    <2>1. Len(r) # Len(s)
      BY <1>1, <1>4, <1>6, SeqEqual
    <2> QED
      BY <1>1, <1>2, <1>4, <1>6, <2>1
  <1> QED
    BY <1>3, <1>5, <1>6 DEF s

\* Paths seen from a child.
LEMMA ConsIs ==
    ASSUME NEW A, NEW q \in Seq(A), NEW a \in A
    PROVE  /\ Cons(a, q) \in Seq(A) /\ Cons(a, q) # <<>> /\ Len(Cons(a, q)) = Len(q) + 1
           /\ Head(Cons(a, q)) = a /\ Tail(Cons(a, q)) = q /\ Cons(a, q)[1] = a
           /\ \A i \in 1 .. Len(q) : Cons(a, q)[i + 1] = q[i]
  <1> DEFINE s == <<a>> \o q
  <1>0. <<a>> \in Seq(A) /\ Len(<<a>>) = 1 /\ <<a>>[1] = a /\ Len(q) \in Nat
    BY LenProperties
  <1>1. /\ s \in Seq(A) /\ Len(s) = 1 + Len(q)
        /\ \A i \in 1 .. 1 + Len(q) : s[i] = IF i <= 1 THEN <<a>>[i] ELSE q[i - 1]
    BY <1>0, ConcatProperties
  <1> HIDE DEF s
  <1>2. s # <<>> /\ s[1] = a /\ \A i \in 1 .. Len(q) : s[i + 1] = q[i]
    <2>1. s # <<>>
      BY <1>0, <1>1, EmptySeq
    <2>2. s[1] = a
      BY <1>0, <1>1
    <2>3. ASSUME NEW i \in 1 .. Len(q) PROVE s[i + 1] = q[i]
      <3>1. i + 1 \in 1 .. 1 + Len(q) /\ ~(i + 1 <= 1) /\ (i + 1) - 1 = i
        BY <1>0
      <3> QED
        BY <1>1, <3>1
    <2> QED
      BY <2>1, <2>2, <2>3
  <1>3. /\ Tail(s) \in Seq(A) /\ Len(Tail(s)) = Len(s) - 1
        /\ \A i \in 1 .. Len(Tail(s)) : Tail(s)[i] = s[i + 1]
    BY <1>1, <1>2, HeadTailProperties
  <1>4. Len(Tail(s)) = Len(q)
    BY <1>0, <1>1, <1>3
  <1>5. Tail(s) = q
    BY <1>2, <1>3, <1>4, SeqEqual
  <1>6. Head(s) = s[1]
    BY <1>1
  <1>7. Len(s) = Len(q) + 1
    BY <1>0, <1>1
  <1> QED
    BY <1>1, <1>2, <1>5, <1>6, <1>7 DEF s, Cons

\* Every path but the root begins with an action.
LEMMA UnCons ==
    ASSUME NEW A, NEW r \in Seq(A), r # <<>>
    PROVE  Head(r) \in A /\ Tail(r) \in Seq(A) /\ r = Cons(Head(r), Tail(r)) /\ Head(r) = r[1]
  <1> DEFINE t == Tail(r)
             h == Head(r)
             s == Cons(h, t)
  <1>1. /\ h \in A /\ t \in Seq(A) /\ Len(t) = Len(r) - 1
        /\ \A i \in 1 .. Len(t) : t[i] = r[i + 1]
    BY HeadTailProperties
  <1>2. h = r[1] /\ Len(r) \in Nat
    BY LenProperties
  <1>t. h \in A /\ t \in Seq(A)
    BY <1>1
  <1> HIDE DEF t, h
  <1>3. /\ s \in Seq(A) /\ Len(s) = Len(t) + 1 /\ s[1] = h
        /\ \A i \in 1 .. Len(t) : s[i + 1] = t[i]
    BY <1>t, ConsIs
  <1> HIDE DEF s
  <1>4. Len(s) = Len(r)
    BY <1>1, <1>2, <1>3
  <1>5. ASSUME NEW i \in 1 .. Len(s) PROVE s[i] = r[i]
    <2>1. CASE i = 1
      BY <1>2, <1>3, <2>1
    <2>2. CASE i # 1
      <3>1. i - 1 \in 1 .. Len(t) /\ (i - 1) + 1 = i
        BY <1>1, <1>2, <1>3, <2>2
      <3> QED
        BY <1>1, <1>3, <3>1
    <2> QED
      BY <2>1, <2>2
  <1>6. s = r
    BY <1>3, <1>4, <1>5, SeqEqual
  <1> QED
    BY <1>1, <1>2, <1>6 DEF s, t, h

\* An action in front and one behind may be added in any order.
LEMMA ConsAppend ==
    ASSUME NEW A, NEW q \in Seq(A), NEW a \in A, NEW b \in A
    PROVE  Cons(a, Append(q, b)) = Append(Cons(a, q), b)
  <1>0. <<a>> \in Seq(A) /\ <<b>> \in Seq(A)
    OBVIOUS
  <1>1. Cons(a, q) \in Seq(A)
    BY ConsIs
  <1>2. Append(q, b) = q \o <<b>> /\ Append(Cons(a, q), b) = Cons(a, q) \o <<b>>
    BY <1>1, AppendIsConcat
  <1>3. (<<a>> \o q) \o <<b>> = <<a>> \o (q \o <<b>>)
    BY <1>0, ConcatAssociative
  <1> QED
    BY <1>2, <1>3, Zenon DEF Cons

\* An action in front of both keeps a prefix a prefix.
LEMMA ConsPrefix ==
    ASSUME NEW A, NEW q \in Seq(A), NEW r \in Seq(A), NEW a \in A, IsPrefix(r, q)
    PROVE  IsPrefix(Cons(a, r), Cons(a, q))
  <1> DEFINE s == Cons(a, r)
             t == Cons(a, q)
  <1>1. Len(r) \in Nat /\ Len(q) \in Nat /\ Len(r) <= Len(q) /\ \A i \in 1 .. Len(r) : r[i] = q[i]
    BY PrefixIs, LenProperties
  <1>s. /\ s \in Seq(A) /\ Len(s) = Len(r) + 1 /\ s[1] = a /\ \A i \in 1 .. Len(r) : s[i + 1] = r[i]
    BY ConsIs
  <1>t. /\ t \in Seq(A) /\ Len(t) = Len(q) + 1 /\ t[1] = a /\ \A i \in 1 .. Len(q) : t[i + 1] = q[i]
    BY ConsIs
  <1> HIDE DEF s, t
  <1>3. ASSUME NEW i \in 1 .. Len(s) PROVE s[i] = t[i]
    <2>1. CASE i = 1
      BY <1>s, <1>t, <2>1
    <2>2. CASE i # 1
      <3>1. i - 1 \in 1 .. Len(r) /\ i - 1 \in 1 .. Len(q) /\ (i - 1) + 1 = i
        BY <1>1, <1>s, <1>t, <2>2
      <3> QED
        BY <1>1, <1>s, <1>t, <3>1
    <2> QED
      BY <2>1, <2>2
  <1>4. Len(s) <= Len(t)
    BY <1>1, <1>s, <1>t
  <1>5. IsPrefix(s, t)
    BY <1>s, <1>t, <1>3, <1>4, PrefixIs
  <1> QED
    BY <1>5 DEF s, t

-----------------------------------------------------------------------------
(* The position a path leads to. *)

\* Induction, for a set of naturals.
LEMMA Induction ==
    ASSUME NEW S, 0 \in S, \A n \in Nat : n \in S => n + 1 \in S
    PROVE  \A n \in Nat : n \in S
  <1> SUFFICES ASSUME Nat \ S # {} PROVE FALSE
    OBVIOUS
  <1>1. PICK x \in Nat \ S : \A y \in Nat \ S : ~ (<<y, x>> \in OpToRel(<, Nat))
    <2>1. Nat \ S \subseteq Nat
      OBVIOUS
    <2> QED
      BY <2>1, NatLessThanWellFounded, WFMin, Zenon
  <1>2. x # 0 /\ x - 1 \in Nat /\ x = (x - 1) + 1 /\ x - 1 < x
    OBVIOUS
  <1>3. <<x - 1, x>> \in Nat \X Nat /\ <<x - 1, x>>[1] = x - 1 /\ <<x - 1, x>>[2] = x
    BY <1>2
  <1>4. <<x - 1, x>> \in OpToRel(<, Nat)
    BY <1>2, <1>3, Zenon DEF OpToRel
  <1>5. x - 1 \in S
    BY <1>1, <1>2, <1>4
  <1> QED
    BY <1>2, <1>5

\* The positions along the first n actions of a path.
IsWalk(f, p, path, n) ==
    f = [i \in 0 .. n |-> IF i = 0 THEN p ELSE Succ[f[i - 1]][path[i]]]

\* The defining equation of a walk, at one step.
LEMMA WalkAt ==
    ASSUME NEW f, NEW p, NEW path, NEW n, IsWalk(f, p, path, n), NEW i \in 0 .. n
    PROVE  f[i] = IF i = 0 THEN p ELSE Succ[f[i - 1]][path[i]]
  <1> DEFINE h == [j \in 0 .. n |-> IF j = 0 THEN p ELSE Succ[f[j - 1]][path[j]]]
  <1>1. f = h
    BY DEF IsWalk
  <1>2. h[i] = IF i = 0 THEN p ELSE Succ[f[i - 1]][path[i]]
    OBVIOUS
  <1> HIDE DEF h
  <1> QED
    BY <1>1, <1>2, Zenon

\* Every path can be walked,
LEMMA WalkExists ==
    ASSUME NEW p, NEW path
    PROVE  \A n \in Nat : \E f : IsWalk(f, p, path, n)
  <1> DEFINE S == {n \in Nat : \E f : IsWalk(f, p, path, n)}
  <1>1. 0 \in S
    <2> DEFINE f == [i \in {0} |-> p]
    <2>1. f = [i \in 0 .. 0 |-> IF i = 0 THEN p ELSE Succ[f[i - 1]][path[i]]]
      OBVIOUS
    <2>2. IsWalk(f, p, path, 0)
      BY <2>1, Zenon DEF IsWalk
    <2> QED
      BY <2>2
  <1>2. ASSUME NEW n \in Nat, n \in S
        PROVE  n + 1 \in S
    <2>1. PICK f : IsWalk(f, p, path, n)
      BY <1>2
    <2> DEFINE g == [i \in 0 .. n + 1 |-> IF i = 0 THEN p ELSE Succ[f[i - 1]][path[i]]]
    <2>2. \A i \in 0 .. n : g[i] = f[i]
      <3> SUFFICES ASSUME NEW i \in 0 .. n PROVE g[i] = f[i]
        OBVIOUS
      <3>1. f[i] = IF i = 0 THEN p ELSE Succ[f[i - 1]][path[i]]
        BY <2>1, WalkAt
      <3>2. g[i] = IF i = 0 THEN p ELSE Succ[f[i - 1]][path[i]]
        OBVIOUS
      <3> HIDE DEF g
      <3> QED
        BY <3>1, <3>2
    <2>3. \A i \in 0 .. n + 1 : g[i] = IF i = 0 THEN p ELSE Succ[g[i - 1]][path[i]]
      <3> SUFFICES ASSUME NEW i \in 0 .. n + 1
                   PROVE  g[i] = IF i = 0 THEN p ELSE Succ[g[i - 1]][path[i]]
        OBVIOUS
      <3>1. g[i] = IF i = 0 THEN p ELSE Succ[f[i - 1]][path[i]]
        OBVIOUS
      <3>2. i # 0 => i - 1 \in 0 .. n
        OBVIOUS
      <3> HIDE DEF g
      <3> QED
        BY <2>2, <3>1, <3>2
    <2>4. g = [i \in 0 .. n + 1 |-> g[i]]
      OBVIOUS
    <2> HIDE DEF g
    <2>5. IsWalk(g, p, path, n + 1)
      BY <2>3, <2>4 DEF IsWalk
    <2> QED
      BY <2>5
  <1> HIDE DEF S
  <1>3. \A n \in Nat : n \in S
    BY <1>1, <1>2, Induction
  <1> QED
    BY <1>3 DEF S

\* and Walk is where the walk ends.
LEMMA WalkIs ==
    ASSUME NEW p, NEW A, NEW path \in Seq(A)
    PROVE  \E f : IsWalk(f, p, path, Len(path)) /\ Walk(p, path) = f[Len(path)]
  <1> DEFINE n == Len(path)
             F == CHOOSE f : f = [i \in 0 .. n |-> IF i = 0 THEN p ELSE Succ[f[i - 1]][path[i]]]
  <1>0. n \in Nat
    BY LenProperties
  <1>1. \E f : f = [i \in 0 .. n |-> IF i = 0 THEN p ELSE Succ[f[i - 1]][path[i]]]
    <2>1. \E f : IsWalk(f, p, path, n)
      BY <1>0, WalkExists
    <2> QED
      BY <2>1, Zenon DEF IsWalk
  <1>2. IsWalk(F, p, path, n)
    BY <1>1, Zenon DEF IsWalk
  <1>3. Walk(p, path) = F[n]
    BY Zenon DEF Walk
  <1> QED
    BY <1>2, <1>3, Zenon

\* Two walks that take the same actions from the same position agree.
LEMMA WalksAgree ==
    ASSUME NEW d \in Nat, NEW n \in Nat, NEW m \in Nat, m + d <= n,
           NEW f, NEW p, NEW path, IsWalk(f, p, path, n),
           NEW g, NEW part, IsWalk(g, f[d], part, m),
           \A i \in 1 .. m : part[i] = path[i + d]
    PROVE  g[m] = f[m + d]
  <1> DEFINE S == {k \in Nat : k \in 0 .. m => g[k] = f[k + d]}
  <1>1. 0 \in S
    <2>1. g[0] = IF 0 = 0 THEN f[d] ELSE Succ[g[0 - 1]][part[0]]
      <3>1. 0 \in 0 .. m
        OBVIOUS
      <3> QED
        BY <3>1, WalkAt
    <2>2. 0 + d = d
      OBVIOUS
    <2> QED
      BY <2>1, <2>2
  <1>2. ASSUME NEW k \in Nat, k \in S
        PROVE  k + 1 \in S
    <2> DEFINE j == k + 1
               e == j + d
    <2> SUFFICES ASSUME j \in 0 .. m PROVE g[j] = f[e]
      OBVIOUS
    <2>0. /\ j \in 1 .. m /\ e \in 0 .. n /\ j - 1 = k /\ k \in 0 .. m /\ j # 0 /\ e # 0
          /\ e - 1 = k + d
      OBVIOUS
    <2>1. g[j] = IF j = 0 THEN f[d] ELSE Succ[g[j - 1]][part[j]]
      BY WalkAt
    <2>2. f[e] = IF e = 0 THEN p ELSE Succ[f[e - 1]][path[e]]
      BY <2>0, WalkAt
    <2>3. g[k] = f[k + d]
      BY <1>2, <2>0
    <2>4. part[j] = path[e]
      BY <2>0
    <2> HIDE DEF j, e
    <2>5. g[j] = Succ[g[k]][part[j]] /\ f[e] = Succ[f[k + d]][path[e]]
      BY <2>0, <2>1, <2>2
    <2> QED
      BY <2>3, <2>4, <2>5
  <1> HIDE DEF S
  <1>3. m \in S
    BY <1>1, <1>2, Induction
  <1> QED
    BY <1>3 DEF S

\* The empty path leads nowhere.
LEMMA WalkRoot == \A p : Walk(p, Root) = p
  <1> SUFFICES ASSUME NEW p PROVE Walk(p, Root) = p
    OBVIOUS
  <1>1. Root \in Seq({}) /\ Len(Root) = 0
    BY EmptySeq DEF Root
  <1> HIDE DEF Root
  <1>2. PICK f : IsWalk(f, p, Root, Len(Root)) /\ Walk(p, Root) = f[Len(Root)]
    BY <1>1, WalkIs
  <1>3. f[0] = IF 0 = 0 THEN p ELSE Succ[f[0 - 1]][Root[0]]
    <2>1. 0 \in 0 .. Len(Root)
      BY <1>1
    <2> QED
      BY <1>2, <2>1, WalkAt
  <1> QED
    BY <1>1, <1>2, <1>3

\* A longer path leads one action further.
LEMMA WalkAppend ==
    ASSUME NEW A, NEW q \in Seq(A), NEW a \in A, NEW p
    PROVE  Walk(p, Append(q, a)) = Succ[Walk(p, q)][a]
  <1> DEFINE r == Append(q, a)
             m == Len(q)
             n == Len(r)
  <1>1. r \in Seq(A) /\ n = m + 1 /\ m \in Nat /\ n \in Nat /\ r[n] = a
          /\ \A i \in 1 .. m : r[i] = q[i]
    BY AppendProperties, LenProperties
  <1> HIDE DEF r
  <1>2. PICK f : IsWalk(f, p, r, n) /\ Walk(p, r) = f[n]
    BY <1>1, WalkIs
  <1>3. PICK g : IsWalk(g, p, q, m) /\ Walk(p, q) = g[m]
    BY WalkIs
  <1> HIDE DEF m, n
  <1>4. f[0] = p
    <2>1. f[0] = IF 0 = 0 THEN p ELSE Succ[f[0 - 1]][r[0]]
      <3>1. 0 \in 0 .. n
        BY <1>1
      <3> QED
        BY <1>2, <3>1, WalkAt
    <2> QED
      BY <2>1
  <1>5. g[m] = f[m + 0]
    <2>1. 0 \in Nat /\ m + 0 <= n /\ \A i \in 1 .. m : q[i] = r[i + 0]
      BY <1>1
    <2>2. IsWalk(g, f[0], q, m)
      BY <1>3, <1>4
    <2> QED
      BY <1>1, <1>2, <2>1, <2>2, WalksAgree
  <1>6. f[n] = IF n = 0 THEN p ELSE Succ[f[n - 1]][r[n]]
    <2>1. n \in 0 .. n
      BY <1>1
    <2> QED
      BY <1>2, <2>1, WalkAt
  <1>7. n # 0 /\ n - 1 = m /\ m + 0 = m
    BY <1>1
  <1>8. f[n] = Succ[g[m]][a]
    BY <1>1, <1>5, <1>6, <1>7
  <1> QED
    BY <1>2, <1>3, <1>8 DEF r

\* A path below an action starts from the position after it.
LEMMA WalkCons ==
    ASSUME NEW A, NEW q \in Seq(A), NEW a \in A, NEW p
    PROVE  Walk(p, Cons(a, q)) = Walk(Succ[p][a], q)
  <1> DEFINE r == Cons(a, q)
             m == Len(q)
             n == Len(r)
  <1>1. r \in Seq(A) /\ n = m + 1 /\ r[1] = a /\ \A i \in 1 .. m : r[i + 1] = q[i]
    BY ConsIs
  <1>l. m \in Nat /\ n \in Nat
    BY <1>1, LenProperties
  <1> HIDE DEF r
  <1>2. PICK f : IsWalk(f, p, r, n) /\ Walk(p, r) = f[n]
    BY <1>1, WalkIs
  <1>3. PICK g : IsWalk(g, Succ[p][a], q, m) /\ Walk(Succ[p][a], q) = g[m]
    BY WalkIs
  <1> HIDE DEF m, n
  <1>4. f[0] = IF 0 = 0 THEN p ELSE Succ[f[0 - 1]][r[0]]
    <2>1. 0 \in 0 .. n
      BY <1>l
    <2> QED
      BY <1>2, <2>1, WalkAt
  <1>5. f[1] = IF 1 = 0 THEN p ELSE Succ[f[1 - 1]][r[1]]
    <2>1. 1 \in 0 .. n
      BY <1>1, <1>l
    <2> QED
      BY <1>2, <2>1, WalkAt
  <1>6. f[1] = Succ[p][a]
    BY <1>1, <1>4, <1>5
  <1>7. g[m] = f[m + 1]
    <2>1. 1 \in Nat /\ m + 1 <= n /\ \A i \in 1 .. m : q[i] = r[i + 1]
      BY <1>1, <1>l
    <2>2. IsWalk(g, f[1], q, m)
      BY <1>3, <1>6
    <2> QED
      BY <1>l, <1>2, <2>1, <2>2, WalksAgree
  <1> QED
    BY <1>1, <1>2, <1>3, <1>7 DEF r

-----------------------------------------------------------------------------
(* The tree. *)

Node == [prior : Int, seat : Seats, visits : Int, sum : Int, expanded : BOOLEAN,
         hits : Int, gain : Int]

\* The nodes are closed under prefixes, ...
Closed(ns) ==
    /\ DOMAIN ns \subseteq Seq(Actions)
    /\ \A q \in DOMAIN ns : \A r \in Seq(Actions) : IsPrefix(r, q) => r \in DOMAIN ns

\* ... each stands at the position its path leads to, ...
Stands(ns, p) ==
    \A q \in DOMAIN ns :
        ns[q] \in Node /\ Walk(p, q) \in Positions /\ ns[q].seat = Mover[Walk(p, q)]

\* ... and an expanded one, and no other, has children: one per legal action.
Branches(ns, p) ==
    /\ \A q \in DOMAIN ns : ns[q].expanded => \A a \in Legal(Walk(p, q)) : Append(q, a) \in DOMAIN ns
    /\ \A q \in Seq(Actions), a \in Actions :
          Append(q, a) \in DOMAIN ns => ns[q].expanded /\ a \in Legal(Walk(p, q))

IsTree(ns, p) == Closed(ns) /\ Stands(ns, p) /\ Branches(ns, p)

\* Legal actions are actions.
LEMMA LegalActions ==
    ASSUME NEW p \in Positions
    PROVE  Legal(p) \subseteq Actions
  BY DEF Legal, Actions

\* A node's parent is in the tree, expanded, and its action legal there.
LEMMA ParentIsThere ==
    ASSUME NEW ns, NEW p, IsTree(ns, p), NEW q \in Seq(Actions), NEW a \in Actions,
           Append(q, a) \in DOMAIN ns
    PROVE  q \in DOMAIN ns /\ ns[q].expanded /\ a \in Legal(Walk(p, q))
  <1>1. IsPrefix(q, Append(q, a))
    BY PrefixOfAppend, RootIsPrefix
  <1>2. q \in DOMAIN ns
    BY <1>1 DEF IsTree, Closed
  <1> QED
    BY <1>2 DEF IsTree, Branches

\* The children that ChildPaths finds.
LEMMA ChildPathsAre ==
    ASSUME NEW ns, NEW p, IsTree(ns, p), NEW q \in DOMAIN ns
    PROVE  /\ ns[q].expanded => ChildPaths(ns, q) = {Append(q, a) : a \in Legal(Walk(p, q))}
           /\ ~ns[q].expanded => ChildPaths(ns, q) = {}
           /\ {Last(r) : r \in ChildPaths(ns, q)} = IF ns[q].expanded THEN Legal(Walk(p, q)) ELSE {}
  <1> DEFINE P == Walk(p, q)
  <1>0. q \in Seq(Actions) /\ P \in Positions /\ Legal(P) \subseteq Actions /\ DOMAIN ns \subseteq Seq(Actions)
    BY LegalActions DEF IsTree, Closed, Stands
  <1> HIDE DEF P
  <1>1. ASSUME NEW r \in ChildPaths(ns, q)
        PROVE  r = Append(q, Last(r)) /\ Last(r) \in Actions /\ r \in DOMAIN ns
    <2>1. r \in DOMAIN ns /\ r \in Seq(Actions) /\ Len(r) = Len(q) + 1 /\ Front(r) = q
      BY <1>0 DEF ChildPaths
    <2>2. Len(q) \in Nat /\ Len(<<>>) = 0
      BY <1>0, LenProperties, EmptySeq
    <2>3. r # <<>>
      BY <2>1, <2>2
    <2> QED
      BY <2>1, <2>3, SplitPath
  <1>2. ASSUME NEW r \in ChildPaths(ns, q)
        PROVE  r = Append(q, Last(r)) /\ Last(r) \in Legal(P) /\ ns[q].expanded
    <2> DEFINE l == Last(r)
    <2>1. r = Append(q, l) /\ l \in Actions /\ r \in DOMAIN ns
      BY <1>1, <1>2
    <2> HIDE DEF l
    <2>2. Append(q, l) \in DOMAIN ns
      BY <2>1
    <2>3. ns[q].expanded /\ l \in Legal(P)
      BY <1>0, <2>1, <2>2, ParentIsThere DEF P
    <2> QED
      BY <2>1, <2>3 DEF l
  <1>3. ASSUME ns[q].expanded, NEW a \in Legal(P)
        PROVE  Append(q, a) \in ChildPaths(ns, q) /\ Last(Append(q, a)) = a
    <2>1. Append(q, a) \in DOMAIN ns /\ a \in Actions
      BY <1>0, <1>3 DEF IsTree, Branches, P
    <2>2. Len(Append(q, a)) = Len(q) + 1 /\ Front(Append(q, a)) = q /\ Last(Append(q, a)) = a
      BY <1>0, <2>1, AppendFrontLast
    <2> QED
      BY <2>1, <2>2 DEF ChildPaths
  <1>4. ns[q].expanded => ChildPaths(ns, q) = {Append(q, a) : a \in Legal(P)}
    BY <1>2, <1>3
  <1>5. ~ns[q].expanded => ChildPaths(ns, q) = {}
    BY <1>2
  <1>6. ns[q].expanded => {Last(r) : r \in ChildPaths(ns, q)} = Legal(P)
    BY <1>2, <1>3
  <1> QED
    BY <1>4, <1>5, <1>6 DEF P

\* What Expand changes: the tree ms is ns with the node at path, at P, expanded.
Expands(ns, ms, path, P, pmf) ==
    /\ DOMAIN ms = DOMAIN ns \cup {Append(path, a) : a \in Legal(P)}
    /\ ms[path] = [ns[path] EXCEPT !.expanded = TRUE]
    /\ \A q \in DOMAIN ns : q # path => ms[q] = ns[q]
    /\ \A a \in Legal(P) : /\ Append(path, a) \notin DOMAIN ns
                           /\ ms[Append(path, a)] = NewNode(pmf[a], ChildSeat(P, a))

\* What Expand does to a leaf.
LEMMA ExpandIs ==
    ASSUME NEW ns, NEW p, IsTree(ns, p), NEW path \in DOMAIN ns, ~ns[path].expanded, NEW pmf,
           NEW P, P = Walk(p, path), NEW ms, ms = Expand(ns, path, P, pmf)
    PROVE  Expands(ns, ms, path, P, pmf)
  <1> DEFINE kids == {Append(path, a) : a \in Legal(P)}
             e == [ns[path] EXCEPT !.expanded = TRUE]
             N(q) == NewNode(pmf[Last(q)], ChildSeat(P, Last(q)))
  <1>0. P \in Positions /\ Legal(P) \subseteq Actions /\ path \in Seq(Actions)
    BY LegalActions DEF IsTree, Closed, Stands
  <1>1. ms = [q \in DOMAIN ns \cup kids |-> IF q = path THEN [ns[q] EXCEPT !.expanded = TRUE]
                                            ELSE IF q \in DOMAIN ns THEN ns[q] ELSE N(q)]
    BY Zenon DEF Expand
  <1>2. DOMAIN ms = DOMAIN ns \cup kids
    BY <1>1
  <1>3. ms[path] = e
    <2>1. path \in DOMAIN ns \cup kids
      OBVIOUS
    <2> QED
      BY <1>1, <2>1, Zenon
  <1> HIDE DEF N, e
  <1>4. \A q \in DOMAIN ns : q # path => ms[q] = ns[q]
    BY <1>1
  <1>5. ASSUME NEW a \in Legal(P)
        PROVE  Append(path, a) \notin DOMAIN ns /\ ms[Append(path, a)] = NewNode(pmf[a], ChildSeat(P, a))
    <2>1. a \in Actions /\ Last(Append(path, a)) = a
      BY <1>0, AppendFrontLast
    <2>2. Append(path, a) \notin DOMAIN ns
      BY <1>0, <2>1, ParentIsThere
    <2>3. ms[Append(path, a)] = N(Append(path, a))
      BY <1>1, <2>2
    <2> QED
      BY <2>1, <2>2, <2>3 DEF N
  <1> QED
    BY <1>2, <1>3, <1>4, <1>5 DEF e, Expands

\* A node is expanded: it gets a child for every legal action.
LEMMA ExpandedTree ==
    ASSUME GameIsWellFormed, NEW ns, NEW p, IsTree(ns, p), NEW path \in DOMAIN ns,
           NEW pmf, \A a \in Legal(Walk(p, path)) : pmf[a] \in Int
    PROVE  IsTree(Expand(ns, path, Walk(p, path), pmf), p)
  <1> DEFINE P == Walk(p, path)
             ms == Expand(ns, path, P, pmf)
  <1>0. CASE ns[path].expanded
    <2>1. ms = ns
      BY <1>0 DEF Expand
    <2> QED
      BY <2>1
  <1>1. CASE ~ns[path].expanded
    <2>0. /\ P \in Positions /\ Legal(P) \subseteq Actions /\ path \in Seq(Actions)
          /\ DOMAIN ns \subseteq Seq(Actions) /\ ns[path] \in Node
      BY LegalActions DEF IsTree, Closed, Stands
    <2>e. P = Walk(p, path) /\ ms = Expand(ns, path, P, pmf)
      OBVIOUS
    <2> HIDE DEF ms, P
    <2>1. /\ DOMAIN ms = DOMAIN ns \cup {Append(path, a) : a \in Legal(P)}
          /\ ms[path] = [ns[path] EXCEPT !.expanded = TRUE]
          /\ \A q \in DOMAIN ns : q # path => ms[q] = ns[q]
          /\ \A a \in Legal(P) : /\ Append(path, a) \notin DOMAIN ns
                                 /\ ms[Append(path, a)] = NewNode(pmf[a], ChildSeat(P, a))
      <3>1. Expands(ns, ms, path, P, pmf)
        BY <1>1, <2>e, ExpandIs
      <3> QED
        BY <3>1 DEF Expands
    <2>2. ms[path] \in Node /\ ms[path].expanded /\ ms[path].seat = ns[path].seat
      BY <2>0, <2>1 DEF Node
    <2>3. ASSUME NEW a \in Legal(P)
          PROVE  /\ Append(path, a) \in Seq(Actions) /\ Walk(p, Append(path, a)) = Succ[P][a]
                 /\ Succ[P][a] \in Positions /\ ChildSeat(P, a) = Mover[Succ[P][a]]
      <3>1. a \in Actions
        BY <2>0
      <3>2. Append(path, a) \in Seq(Actions) /\ Walk(p, Append(path, a)) = Succ[P][a]
        BY <2>0, <3>1, WalkAppend, AppendFrontLast DEF P
      <3>3. Succ[P][a] \in Positions
        BY <2>0 DEF GameIsWellFormed
      <3>4. P \notin Opening => Mover[Succ[P][a]] = Other(Mover[P])
        BY <2>0, <3>1 DEF GameIsWellFormed
      <3> QED
        BY <3>2, <3>3, <3>4 DEF ChildSeat
    <2>4. ASSUME NEW a \in Legal(P)
          PROVE  LET n == ms[Append(path, a)]
                 IN  n \in Node /\ ~n.expanded /\ n.seat = Mover[Succ[P][a]]
      <3>1. ChildSeat(P, a) \in Seats /\ pmf[a] \in Int
        BY <2>3, <2>e DEF GameIsWellFormed
      <3>2. NewNode(pmf[a], ChildSeat(P, a)) \in Node
        BY <3>1 DEF NewNode, Node
      <3> DEFINE n == NewNode(pmf[a], ChildSeat(P, a))
      <3>3. ~n.expanded /\ n.seat = ChildSeat(P, a)
        BY DEF NewNode
      <3>4. ms[Append(path, a)] = n
        BY <2>1
      <3> HIDE DEF n
      <3>5. ~ms[Append(path, a)].expanded
        BY <3>3, <3>4
      <3>6. ms[Append(path, a)].seat = Mover[Succ[P][a]]
        BY <2>3, <3>3, <3>4
      <3> QED
        BY <3>2, <3>4, <3>5, <3>6 DEF n
    <2>5. Closed(ms)
      <3>1. DOMAIN ms \subseteq Seq(Actions)
        BY <2>0, <2>1, <2>3
      <3>2. ASSUME NEW q \in DOMAIN ms, NEW r \in Seq(Actions), IsPrefix(r, q)
            PROVE  r \in DOMAIN ms
        <4>1. CASE q \in DOMAIN ns
          BY <2>1, <3>2, <4>1 DEF IsTree, Closed
        <4>2. ASSUME NEW a \in Legal(P), q = Append(path, a) PROVE r \in DOMAIN ms
          <5>1. r = q \/ IsPrefix(r, path)
            BY <2>0, <3>2, <4>2, PrefixOfAppend
          <5>2. IsPrefix(r, path) => r \in DOMAIN ns
            BY DEF IsTree, Closed
          <5> QED
            BY <2>1, <5>1, <5>2
        <4> QED
          BY <2>1, <4>1, <4>2
      <3> QED
        BY <3>1, <3>2 DEF Closed
    <2>6. Stands(ms, p)
      <3> SUFFICES ASSUME NEW q \in DOMAIN ms
                   PROVE  ms[q] \in Node /\ Walk(p, q) \in Positions /\ ms[q].seat = Mover[Walk(p, q)]
        BY DEF Stands
      <3>1. CASE q \in DOMAIN ns
        <4>1. ns[q] \in Node /\ Walk(p, q) \in Positions /\ ns[q].seat = Mover[Walk(p, q)]
          BY <3>1 DEF IsTree, Stands
        <4> QED
          BY <2>1, <2>2, <3>1, <4>1
      <3>2. ASSUME NEW a \in Legal(P), q = Append(path, a)
            PROVE  ms[q] \in Node /\ Walk(p, q) \in Positions /\ ms[q].seat = Mover[Walk(p, q)]
        BY <2>3, <2>4, <3>2
      <3> QED
        BY <2>1, <3>1, <3>2
    <2>7. ASSUME NEW q \in DOMAIN ms, ms[q].expanded, NEW a \in Legal(Walk(p, q))
          PROVE  Append(q, a) \in DOMAIN ms
      <3>1. q \in DOMAIN ns
        <4>1. ASSUME NEW b \in Legal(P), q = Append(path, b) PROVE FALSE
          BY <2>4, <2>7, <4>1
        <4> QED
          BY <2>1, <4>1
      <3>2. CASE q = path
        BY <2>1, <2>7, <3>2 DEF P
      <3>3. CASE q # path
        <4>1. Append(q, a) \in DOMAIN ns
          BY <2>1, <2>7, <3>1, <3>3 DEF IsTree, Branches
        <4> QED
          BY <2>1, <4>1
      <3> QED
        BY <3>2, <3>3
    <2>8. ASSUME NEW q \in Seq(Actions), NEW a \in Actions, Append(q, a) \in DOMAIN ms
          PROVE  ms[q].expanded /\ a \in Legal(Walk(p, q))
      <3>1. CASE Append(q, a) \in DOMAIN ns
        <4>1. q \in DOMAIN ns /\ ns[q].expanded /\ a \in Legal(Walk(p, q))
          BY <3>1, ParentIsThere
        <4> QED
          BY <1>1, <2>1, <4>1
      <3>2. ASSUME NEW b \in Legal(P), Append(q, a) = Append(path, b)
            PROVE  ms[q].expanded /\ a \in Legal(Walk(p, q))
        <4>1. q = path /\ a = b
          BY <2>0, <3>2, AppendInjective
        <4> QED
          BY <2>2, <4>1 DEF P
      <3> QED
        BY <2>1, <2>8, <3>1, <3>2
    <2> QED
      BY <2>5, <2>6, <2>7, <2>8 DEF IsTree, Branches, ms, P
  <1> QED
    BY <1>0, <1>1

\* Priors and statistics may change.
SameShape(ns, ms) ==
    /\ DOMAIN ms = DOMAIN ns
    /\ \A q \in DOMAIN ns : /\ ms[q] \in Node /\ ms[q].seat = ns[q].seat
                            /\ ms[q].expanded = ns[q].expanded

\* What keeps nodes, flags and seats keeps a tree a tree.
LEMMA SameShapeIsTree ==
    ASSUME NEW ns, NEW ms, NEW p, IsTree(ns, p), SameShape(ns, ms)
    PROVE  IsTree(ms, p)
  <1>1. Closed(ms)
    BY DEF SameShape, IsTree, Closed
  <1>2. Stands(ms, p)
    BY DEF SameShape, IsTree, Stands
  <1>3. \A q \in DOMAIN ms : ms[q].expanded => \A a \in Legal(Walk(p, q)) : Append(q, a) \in DOMAIN ms
    BY DEF SameShape, IsTree, Branches
  <1>4. ASSUME NEW q \in Seq(Actions), NEW a \in Actions, Append(q, a) \in DOMAIN ms
        PROVE  ms[q].expanded /\ a \in Legal(Walk(p, q))
    <2>1. Append(q, a) \in DOMAIN ns
      BY <1>4 DEF SameShape
    <2>2. q \in DOMAIN ns /\ ns[q].expanded /\ a \in Legal(Walk(p, q))
      BY <2>1, ParentIsThere
    <2> QED
      BY <2>2 DEF SameShape
  <1> QED
    BY <1>1, <1>2, <1>3, <1>4 DEF IsTree, Branches

\* No nodes are a tree of any position.
LEMMA EmptyTree == \A p : IsTree(<<>>, p)
  <1>1. DOMAIN <<>> = {}
    OBVIOUS
  <1> QED
    BY <1>1 DEF IsTree, Closed, Stands, Branches

\* So is a root on its own.
LEMMA NewTree ==
    ASSUME GameIsWellFormed, NEW p \in Positions,
           NEW ns, ns = [q \in {Root} |-> NewNode(1, Mover[p])]
    PROVE  IsTree(ns, p)
  <1> DEFINE n == NewNode(1, Mover[p])
  <1>0. Root \in Seq(Actions) /\ Len(Root) = 0 /\ Walk(p, Root) = p
    BY EmptySeq, WalkRoot DEF Root
  <1>1. n \in Node /\ n.seat = Mover[p] /\ ~n.expanded
    BY DEF GameIsWellFormed, NewNode, Node
  <1> HIDE DEF n
  <1>2. DOMAIN ns = {Root} /\ ns[Root] = n
    BY DEF n
  <1>3. Closed(ns)
    <2>1. ASSUME NEW r \in Seq(Actions), IsPrefix(r, Root) PROVE r = Root
      <3>1. Len(r) <= Len(Root) /\ Len(r) \in Nat
        BY <1>0, <2>1, LenProperties, PrefixIs
      <3>2. r = <<>>
        BY <1>0, <3>1, EmptySeq
      <3> QED
        BY <3>2 DEF Root
    <2> QED
      BY <1>0, <1>2, <2>1 DEF Closed
  <1>4. Stands(ns, p)
    BY <1>0, <1>1, <1>2 DEF Stands
  <1>5. Branches(ns, p)
    <2>1. \A q \in Seq(Actions), a \in Actions : Append(q, a) # Root
      BY AppendFrontLast DEF Root
    <2> HIDE DEF Root
    <2> QED
      BY <1>1, <1>2, <2>1 DEF Branches
  <1> QED
    BY <1>3, <1>4, <1>5 DEF IsTree

\* The nodes of the subtree below an action.
LEMMA SubtreeIs ==
    ASSUME NEW ns, DOMAIN ns \subseteq Seq(Actions), NEW a \in Actions
    PROVE  /\ DOMAIN Subtree(ns, a) = {q \in Seq(Actions) : Cons(a, q) \in DOMAIN ns}
           /\ \A q \in DOMAIN Subtree(ns, a) : Subtree(ns, a)[q] = ns[Cons(a, q)]
  <1> DEFINE D == {Tail(r) : r \in {s \in DOMAIN ns : s # Root /\ Head(s) = a}}
  <1>1. ASSUME NEW q \in D PROVE q \in Seq(Actions) /\ Cons(a, q) \in DOMAIN ns
    <2>1. PICK r \in DOMAIN ns : r # Root /\ Head(r) = a /\ q = Tail(r)
      OBVIOUS
    <2>2. r \in Seq(Actions) /\ r # <<>>
      BY <2>1 DEF Root
    <2>3. q \in Seq(Actions) /\ r = Cons(Head(r), Tail(r))
      BY <2>1, <2>2, UnCons
    <2> QED
      BY <2>1, <2>3
  <1>2. ASSUME NEW q \in Seq(Actions), Cons(a, q) \in DOMAIN ns PROVE q \in D
    <2>1. Cons(a, q) # <<>> /\ Head(Cons(a, q)) = a /\ Tail(Cons(a, q)) = q
      BY ConsIs
    <2> QED
      BY <1>2, <2>1 DEF Root
  <1>3. Subtree(ns, a) = [q \in D |-> ns[Cons(a, q)]]
    BY Zenon DEF Subtree
  <1> HIDE DEF D
  <1> QED
    BY <1>1, <1>2, <1>3

\* The subtree of a child fits the game from the child's position on.
LEMMA SubtreeIsTree ==
    ASSUME NEW ns, NEW p, IsTree(ns, p), NEW a \in Actions
    PROVE  IsTree(Subtree(ns, a), Succ[p][a])
  <1> DEFINE ms == Subtree(ns, a)
             s == Succ[p][a]
  <1>0. DOMAIN ns \subseteq Seq(Actions)
    BY DEF IsTree, Closed
  <1>1. /\ DOMAIN ms = {q \in Seq(Actions) : Cons(a, q) \in DOMAIN ns}
        /\ \A q \in DOMAIN ms : ms[q] = ns[Cons(a, q)]
    BY <1>0, SubtreeIs
  <1>2. \A q \in Seq(Actions) : Walk(p, Cons(a, q)) = Walk(s, q) /\ Cons(a, q) \in Seq(Actions)
    BY WalkCons, ConsIs
  <1>3. \A q \in Seq(Actions), b \in Actions : Cons(a, Append(q, b)) = Append(Cons(a, q), b)
    BY ConsAppend
  <1> HIDE DEF ms, s
  <1>4. Closed(ms)
    <2>1. ASSUME NEW q \in DOMAIN ms, NEW r \in Seq(Actions), IsPrefix(r, q)
          PROVE  r \in DOMAIN ms
      <3>1. IsPrefix(Cons(a, r), Cons(a, q))
        BY <1>1, <2>1, ConsPrefix
      <3>2. Cons(a, r) \in DOMAIN ns
        BY <1>1, <1>2, <3>1 DEF IsTree, Closed
      <3> QED
        BY <1>1, <3>2
    <2> QED
      BY <1>1, <2>1 DEF Closed
  <1>5. Stands(ms, s)
    <2> SUFFICES ASSUME NEW q \in DOMAIN ms
                 PROVE  ms[q] \in Node /\ Walk(s, q) \in Positions /\ ms[q].seat = Mover[Walk(s, q)]
      BY DEF Stands
    <2>1. Cons(a, q) \in DOMAIN ns /\ ms[q] = ns[Cons(a, q)] /\ Walk(s, q) = Walk(p, Cons(a, q))
      BY <1>1, <1>2
    <2> QED
      BY <2>1 DEF IsTree, Stands
  <1>6. ASSUME NEW q \in DOMAIN ms, ms[q].expanded, NEW b \in Legal(Walk(s, q))
        PROVE  Append(q, b) \in DOMAIN ms
    <2>1. /\ Cons(a, q) \in DOMAIN ns /\ ms[q] = ns[Cons(a, q)] /\ Walk(s, q) = Walk(p, Cons(a, q))
          /\ q \in Seq(Actions)
      BY <1>1, <1>2
    <2>2. Append(Cons(a, q), b) \in DOMAIN ns
      BY <1>6, <2>1 DEF IsTree, Branches
    <2>3. b \in Actions
      BY <1>5, <1>6, LegalActions DEF Stands
    <2>4. Append(q, b) \in Seq(Actions)
      BY <2>1, <2>3, AppendFrontLast
    <2> QED
      BY <1>1, <1>3, <2>1, <2>2, <2>3, <2>4
  <1>7. ASSUME NEW q \in Seq(Actions), NEW b \in Actions, Append(q, b) \in DOMAIN ms
        PROVE  ms[q].expanded /\ b \in Legal(Walk(s, q))
    <2>1. Append(Cons(a, q), b) \in DOMAIN ns /\ Cons(a, q) \in Seq(Actions)
      BY <1>1, <1>2, <1>3, <1>7
    <2>2. Cons(a, q) \in DOMAIN ns /\ ns[Cons(a, q)].expanded /\ b \in Legal(Walk(p, Cons(a, q)))
      BY <2>1, ParentIsThere
    <2>3. ms[q] = ns[Cons(a, q)]
      BY <1>1, <2>2
    <2> QED
      BY <1>2, <2>2, <2>3
  <1> QED
    BY <1>4, <1>5, <1>6, <1>7 DEF IsTree, Branches, ms, s

-----------------------------------------------------------------------------
(* Nodes and priors. *)

Keeps(n, m) == m \in Node /\ m.seat = n.seat /\ m.expanded = n.expanded /\ m.prior = n.prior

Counts(n, m, v, s, h, g) ==
    \/ m = [n EXCEPT !.visits = v, !.sum = s, !.hits = h, !.gain = g]
    \/ m = [n EXCEPT !.visits = v, !.sum = s] /\ h = n.hits /\ g = n.gain

\* New statistics leave the rest of a node alone.
LEMMA WithStatistics ==
    ASSUME NEW n \in Node, NEW v \in Int, NEW s \in Int, NEW h \in Int, NEW g \in Int, NEW m,
           Counts(n, m, v, s, h, g)
    PROVE  Keeps(n, m) /\ m.visits = v /\ m.sum = s /\ m.hits = h /\ m.gain = g
  <1>0. n \in Node
    OBVIOUS
  <1>1. m \in Node
    BY <1>0 DEF Node, Counts
  <1>2. m.seat = n.seat /\ m.expanded = n.expanded /\ m.prior = n.prior
    BY <1>0 DEF Node, Counts
  <1>3. m.visits = v /\ m.sum = s
    BY <1>0 DEF Node, Counts
  <1>4. m.hits = h /\ m.gain = g
    BY <1>0 DEF Node, Counts
  <1> QED
    BY <1>1, <1>2, <1>3, <1>4 DEF Keeps

\* What Update does to a node.
LEMMA UpdateIs ==
    ASSUME NEW n \in Node, NEW value \in Int, NEW gain \in Int, NEW m, m = Update(n, value, gain)
    PROVE  /\ Keeps(n, m) /\ m.visits = n.visits + 1 /\ m.sum = n.sum + value
           /\ m.hits = n.hits + 1 /\ m.gain = n.gain + gain
  <1> DEFINE v == n.visits + 1
             s == n.sum + value
             h == n.hits + 1
             g == n.gain + gain
  <1>1. v \in Int /\ s \in Int /\ h \in Int /\ g \in Int
    BY DEF Node
  <1>2. Counts(n, m, v, s, h, g)
    BY Zenon DEF Update, Counts
  <1> HIDE DEF v, s, h, g
  <1>3. Keeps(n, m) /\ m.visits = v /\ m.sum = s /\ m.hits = h /\ m.gain = g
    BY <1>1, <1>2, WithStatistics
  <1> QED
    BY <1>3 DEF v, s, h, g

\* A virtual loss is a number.
LEMMA LossIsInt ==
    ASSUME GameIsWellFormed, NEW n, NEW selector
    PROVE  LossFor(n, selector) \in Int /\ VirtualLoss \in Int
  BY DEF LossFor, GameIsWellFormed

\* What AddVirtualLoss does to a node.
LEMMA AddVirtualLossIs ==
    ASSUME GameIsWellFormed, NEW n \in Node, NEW selector, NEW m, m = AddVirtualLoss(n, selector)
    PROVE  /\ Keeps(n, m) /\ m.visits = n.visits + VirtualLoss
           /\ m.sum = n.sum + LossFor(n, selector) /\ m.hits = n.hits /\ m.gain = n.gain
  <1> DEFINE v == n.visits + VirtualLoss
             s == n.sum + LossFor(n, selector)
  <1>1. LossFor(n, selector) \in Int /\ VirtualLoss \in Int
    BY LossIsInt
  <1>2. v \in Int /\ s \in Int /\ n.hits \in Int /\ n.gain \in Int
    BY <1>1 DEF Node
  <1>3. Counts(n, m, v, s, n.hits, n.gain)
    BY Zenon DEF AddVirtualLoss, Counts
  <1> HIDE DEF v, s
  <1>4. Keeps(n, m) /\ m.visits = v /\ m.sum = s /\ m.hits = n.hits /\ m.gain = n.gain
    BY <1>2, <1>3, WithStatistics
  <1> QED
    BY <1>4 DEF v, s

\* What RevertVirtualLoss does to a node.
LEMMA RevertVirtualLossIs ==
    ASSUME GameIsWellFormed, NEW n \in Node, NEW selector, NEW m, m = RevertVirtualLoss(n, selector)
    PROVE  /\ Keeps(n, m) /\ m.visits = n.visits - VirtualLoss
           /\ m.sum = n.sum - LossFor(n, selector) /\ m.hits = n.hits /\ m.gain = n.gain
  <1> DEFINE v == n.visits - VirtualLoss
             s == n.sum - LossFor(n, selector)
  <1>1. LossFor(n, selector) \in Int /\ VirtualLoss \in Int
    BY LossIsInt
  <1>2. v \in Int /\ s \in Int /\ n.hits \in Int /\ n.gain \in Int
    BY <1>1 DEF Node
  <1>3. Counts(n, m, v, s, n.hits, n.gain)
    BY Zenon DEF RevertVirtualLoss, Counts
  <1> HIDE DEF v, s
  <1>4. Keeps(n, m) /\ m.visits = v /\ m.sum = s /\ m.hits = n.hits /\ m.gain = n.gain
    BY <1>2, <1>3, WithStatistics
  <1> QED
    BY <1>4 DEF v, s

\* The path of a child of the root.
LEMMA ChildOfRoot ==
    ASSUME NEW A, NEW a \in A
    PROVE  /\ Append(Root, a) = <<a>> /\ Cons(a, Root) = <<a>> /\ <<a>> \in Seq(A) /\ <<a>> # Root
           /\ \A q \in Seq(A) : Len(q) = 1 <=> q = <<q[1]>> /\ q[1] \in A
  <1>1. Append(Root, a) = <<a>> /\ <<a>> \in Seq(A) /\ <<a>> # Root
    BY DEF Root
  <1>2. Cons(a, Root) = <<a>>
    <2>1. <<a>> \o <<>> = <<a>>
      BY <1>1, ConcatEmptySeq
    <2> QED
      BY <2>1, Zenon DEF Cons, Root
  <1>3. ASSUME NEW q \in Seq(A), Len(q) = 1 PROVE q = <<q[1]>> /\ q[1] \in A
    <2>1. q[1] \in A
      BY <1>3, ElementOfSeq
    <2>2. <<q[1]>> \in Seq(A) /\ Len(<<q[1]>>) = 1 /\ <<q[1]>>[1] = q[1]
      BY <2>1
    <2> QED
      BY <1>3, <2>1, <2>2, SeqEqual
  <1>4. ASSUME NEW q \in Seq(A), q = <<q[1]>> PROVE Len(q) = 1
    BY <1>4
  <1> QED
    BY <1>1, <1>2, <1>3, <1>4

\* A tree whose root is expanded.
Rooted(ns, p) == IsTree(ns, p) /\ Root \in DOMAIN ns /\ ns[Root].expanded

\* The children of an expanded root are its legal actions.
LEMMA RootedChildren ==
    ASSUME NEW ns, NEW p, Rooted(ns, p)
    PROVE  /\ p \in Positions /\ Legal(p) \subseteq Actions
           /\ \A a \in Legal(p) : <<a>> \in DOMAIN ns /\ ns[<<a>>] \in Node
           /\ \A q \in DOMAIN ns : Len(q) = 1 => q[1] \in Legal(p) /\ q = <<q[1]>>
           /\ ChildPaths(ns, Root) = {<<a>> : a \in Legal(p)}
           /\ {Last(r) : r \in ChildPaths(ns, Root)} = Legal(p)
  <1>0. Walk(p, Root) = p
    BY WalkRoot
  <1>1. p \in Positions /\ Legal(p) \subseteq Actions /\ DOMAIN ns \subseteq Seq(Actions) /\ Root \in Seq(Actions)
    BY <1>0, LegalActions DEF Rooted, IsTree, Stands, Closed
  <1>2. \A a \in Legal(p) : Append(Root, a) = <<a>>
    BY <1>1, ChildOfRoot
  <1>3. ASSUME NEW a \in Legal(p) PROVE <<a>> \in DOMAIN ns /\ ns[<<a>>] \in Node
    <2>1. Append(Root, a) \in DOMAIN ns
      BY <1>0 DEF Rooted, IsTree, Branches
    <2> QED
      BY <1>2, <2>1 DEF Rooted, IsTree, Stands
  <1>4. ASSUME NEW q \in DOMAIN ns, Len(q) = 1 PROVE q[1] \in Legal(p) /\ q = <<q[1]>>
    <2> DEFINE b == q[1]
    <2>1. q \in Seq(Actions)
      BY <1>1
    <2>2. b \in Actions /\ q = <<b>>
      <3>1. b \in Actions
        BY <1>4, <2>1, ElementOfSeq
      <3> QED
        BY <1>4, <2>1, <3>1, ChildOfRoot
    <2> HIDE DEF b
    <2>3. Append(Root, b) = <<b>>
      BY <2>2, ChildOfRoot
    <2>4. Append(Root, b) \in DOMAIN ns
      BY <2>2, <2>3
    <2>5. b \in Legal(Walk(p, Root))
      BY <1>1, <2>2, <2>4, ParentIsThere DEF Rooted
    <2> QED
      BY <1>0, <2>2, <2>5 DEF b
  <1>5. /\ ChildPaths(ns, Root) = {Append(Root, a) : a \in Legal(p)}
        /\ {Last(r) : r \in ChildPaths(ns, Root)} = Legal(p)
    <2>1. /\ ChildPaths(ns, Root) = {Append(Root, a) : a \in Legal(Walk(p, Root))}
          /\ {Last(r) : r \in ChildPaths(ns, Root)} = Legal(Walk(p, Root))
      BY ChildPathsAre DEF Rooted
    <2> QED
      BY <1>0, <2>1
  <1>6. ChildPaths(ns, Root) = {<<a>> : a \in Legal(p)}
    BY <1>2, <1>5
  <1> QED
    BY <1>1, <1>3, <1>4, <1>5, <1>6

SameStatistics(ns, ms) ==
    \A q \in DOMAIN ns : /\ ms[q].visits = ns[q].visits /\ ms[q].sum = ns[q].sum
                         /\ ms[q].hits = ns[q].hits /\ ms[q].gain = ns[q].gain

\* The priors that are read from the children.
LEMMA RootPriorsAre ==
    ASSUME NEW ns, NEW p, Rooted(ns, p)
    PROVE  /\ DOMAIN RootPriors(ns) = Legal(p)
           /\ \A a \in Legal(p) : RootPriors(ns)[a] = ns[<<a>>].prior /\ RootPriors(ns)[a] \in Int
  <1>1. {Last(r) : r \in ChildPaths(ns, Root)} = Legal(p) /\ \A a \in Legal(p) : ns[<<a>>] \in Node
    BY RootedChildren
  <1>2. RootPriors(ns) = [a \in Legal(p) |-> ns[<<a>>].prior]
    BY <1>1, Zenon DEF RootPriors
  <1>3. \A a \in Legal(p) : ns[<<a>>].prior \in Int
    BY <1>1 DEF Node
  <1> QED
    BY <1>2, <1>3

\* The priors that are written to them.
LEMMA WithRootPriorsIs ==
    ASSUME NEW ns, NEW p, Rooted(ns, p), NEW pmf, \A a \in Legal(p) : pmf[a] \in Int,
           NEW ms, ms = WithRootPriors(ns, pmf)
    PROVE  /\ SameShape(ns, ms) /\ SameStatistics(ns, ms) /\ Rooted(ms, p)
           /\ \A a \in Legal(p) : ms[<<a>>].prior = pmf[a]
  <1>0. /\ \A a \in Legal(p) : <<a>> \in DOMAIN ns /\ ns[<<a>>] \in Node
        /\ \A q \in DOMAIN ns : Len(q) = 1 => q[1] \in Legal(p) /\ q = <<q[1]>>
    BY RootedChildren
  <1>1. /\ DOMAIN ms = DOMAIN ns
        /\ \A q \in DOMAIN ns : ms[q] = IF Len(q) = 1 THEN [ns[q] EXCEPT !.prior = pmf[q[1]]] ELSE ns[q]
    BY DEF WithRootPriors
  <1>2. ASSUME NEW n \in Node, NEW x \in Int
        PROVE  LET m == [n EXCEPT !.prior = x]
               IN  /\ m \in Node /\ m.seat = n.seat /\ m.expanded = n.expanded /\ m.prior = x
                   /\ m.visits = n.visits /\ m.sum = n.sum /\ m.hits = n.hits /\ m.gain = n.gain
    BY DEF Node
  <1>3. \A q \in DOMAIN ns : ns[q] \in Node
    BY DEF Rooted, IsTree, Stands
  <1>4. ASSUME NEW q \in DOMAIN ns
        PROVE  /\ ms[q] \in Node /\ ms[q].seat = ns[q].seat /\ ms[q].expanded = ns[q].expanded
               /\ ms[q].visits = ns[q].visits /\ ms[q].sum = ns[q].sum
               /\ ms[q].hits = ns[q].hits /\ ms[q].gain = ns[q].gain
               /\ Len(q) = 1 => ms[q].prior = pmf[q[1]]
    <2>1. CASE Len(q) = 1
      <3> DEFINE x == pmf[q[1]]
      <3>1. x \in Int /\ ms[q] = [ns[q] EXCEPT !.prior = x]
        BY <1>0, <1>1, <2>1
      <3> HIDE DEF x
      <3>2. /\ ms[q] \in Node /\ ms[q].seat = ns[q].seat /\ ms[q].expanded = ns[q].expanded
            /\ ms[q].prior = x /\ ms[q].visits = ns[q].visits /\ ms[q].sum = ns[q].sum
            /\ ms[q].hits = ns[q].hits /\ ms[q].gain = ns[q].gain
        BY <1>2, <1>3, <3>1
      <3> QED
        BY <3>2 DEF x
    <2>2. CASE Len(q) # 1
      BY <1>1, <1>3, <2>2
    <2> QED
      BY <2>1, <2>2
  <1>5. SameShape(ns, ms)
    BY <1>1, <1>4 DEF SameShape
  <1>6. SameStatistics(ns, ms)
    BY <1>4 DEF SameStatistics
  <1>7. Rooted(ms, p)
    BY <1>5, SameShapeIsTree DEF Rooted, SameShape
  <1>8. ASSUME NEW a \in Legal(p) PROVE ms[<<a>>].prior = pmf[a]
    <2>1. <<a>> \in DOMAIN ns /\ Len(<<a>>) = 1 /\ <<a>>[1] = a
      BY <1>0
    <2> QED
      BY <1>4, <2>1
  <1> QED
    BY <1>5, <1>6, <1>7, <1>8

\* Priors and values are numbers.
LEMMA PoliciesAreNumbers ==
    ASSUME GameIsWellFormed, NEW p \in Positions
    PROVE  /\ \A a \in Legal(p) : NetworkPolicy(p)[a] \in 0 .. 1
           /\ \A a \in Legal(p) : Evaluation(p).pmf[a] \in 0 .. 1
           /\ Evaluation(p).value \in Int
  <1>1. \A a \in Legal(p) : NetworkPolicy(p)[a] \in 0 .. 1
    BY DEF NetworkPolicy
  <1>2. CASE p \in DOMAIN Solved
    BY <1>1, <1>2 DEF Evaluation
  <1>3. CASE p \notin DOMAIN Solved
    <2>1. Evaluation(p).pmf = NetworkPolicy(p) /\ Evaluation(p).value = Value[p]
      BY <1>3 DEF Evaluation
    <2>2. Value[p] \in Int
      BY DEF GameIsWellFormed
    <2> QED
      BY <1>1, <2>1, <2>2
  <1> QED
    BY <1>1, <1>2, <1>3

\* Under the mask no unsafe action keeps a prior, and some safe one has one.
LEMMA MaskIs ==
    ASSUME GameIsWellFormed, NEW p \in Positions, NEW pmf, \A a \in Legal(p) : pmf[a] \in Int,
           NEW masked, masked = MaskPolicyToSafeActions(p, pmf)
    PROVE  /\ \A a \in Legal(p) : masked[a] \in Int
           /\ p \in DOMAIN SafeActions =>
                 /\ \A a \in Legal(p) : masked[a] > 0 => a \in SafeActions[p]
                 /\ \E a \in Legal(p) : masked[a] > 0
  <1>1. CASE p \notin DOMAIN SafeActions
    BY <1>1 DEF MaskPolicyToSafeActions
  <1>2. CASE p \in DOMAIN SafeActions
    <2> DEFINE safe == SafeActions[p]
               some == \E a \in safe : pmf[a] > 0
    <2>1. safe # {} /\ safe \subseteq Legal(p)
      BY <1>2 DEF GameIsWellFormed
    <2>2. masked = [a \in Legal(p) |-> IF a \notin safe THEN 0 ELSE IF some THEN pmf[a] ELSE 1]
      BY <1>2, Zenon DEF MaskPolicyToSafeActions
    <2> HIDE DEF safe
    <2>3. \A a \in Legal(p) : masked[a] = IF a \notin safe THEN 0 ELSE IF some THEN pmf[a] ELSE 1
      BY <2>2
    <2>4. \A a \in Legal(p) : masked[a] \in Int
      BY <2>3
    <2>5. \A a \in Legal(p) : masked[a] > 0 => a \in safe
      BY <2>3
    <2>6. \E a \in Legal(p) : masked[a] > 0
      <3>1. CASE some
        BY <2>1, <2>3, <3>1
      <3>2. CASE ~some
        BY <2>1, <2>3, <3>2
      <3> QED
        BY <3>1, <3>2
    <2> QED
      BY <1>2, <2>4, <2>5, <2>6 DEF safe
  <1> QED
    BY <1>1, <1>2

-----------------------------------------------------------------------------
(* The tree fits the game. *)

TreeInv ==
    /\ pos \in Positions /\ IsTree(nodes, pos)
    /\ pc \in {"idle", "select", "backup"}
    /\ paths \in Seq(DOMAIN nodes) /\ (pc = "idle" => paths = <<>>)
    /\ pc # "idle" => Rooted(nodes, pos) /\ ~IsTerminal(pos)

\* The root is made, and expanded under the mask, unless it is there already.
LEMMA ReadyRootIs ==
    ASSUME GameIsWellFormed, TreeInv
    PROVE  /\ Rooted(ReadyRoot, pos)
           /\ IsFreshRoot => \A a \in Legal(pos) :
                 ReadyRoot[<<a>>].prior = MaskPolicyToSafeActions(pos, NetworkPolicy(pos))[a]
           /\ ~IsFreshRoot => ReadyRoot = nodes
  <1> DEFINE made == IF HasRoot THEN nodes ELSE [q \in {Root} |-> NewNode(1, Mover[pos])]
             pmf == MaskPolicyToSafeActions(pos, NetworkPolicy(pos))
             ms == Expand(made, Root, pos, pmf)
  <1>0. pos \in Positions /\ Walk(pos, Root) = pos /\ Legal(pos) \subseteq Actions
    BY WalkRoot, LegalActions DEF TreeInv
  <1>1. ReadyRoot = ms
    BY Zenon DEF ReadyRoot
  <1>2. IsTree(made, pos) /\ Root \in DOMAIN made /\ (HasRoot => made = nodes)
    <2>1. CASE HasRoot
      BY <2>1 DEF TreeInv, HasRoot
    <2>2. CASE ~HasRoot
      <3>1. made = [q \in {Root} |-> NewNode(1, Mover[pos])]
        BY <2>2
      <3> HIDE DEF made
      <3>2. IsTree(made, pos)
        BY <1>0, <3>1, NewTree
      <3> QED
        BY <2>2, <3>1, <3>2
    <2> QED
      BY <2>1, <2>2
  <1>3. ~HasRoot => ~made[Root].expanded
    BY DEF NewNode
  <1>4. \A a \in Legal(pos) : pmf[a] \in Int
    <2>1. \A a \in Legal(pos) : NetworkPolicy(pos)[a] \in Int
      BY <1>0, PoliciesAreNumbers
    <2> QED
      BY <1>0, <2>1, MaskIs
  <1>5. IsFreshRoot <=> ~made[Root].expanded
    BY <1>2, <1>3 DEF IsFreshRoot
  <1> HIDE DEF made, pmf
  <1>6. CASE made[Root].expanded
    <2>1. ms = made
      BY <1>6 DEF Expand
    <2>2. HasRoot
      BY <1>3, <1>6
    <2> HIDE DEF ms
    <2> QED
      BY <1>1, <1>2, <1>5, <1>6, <2>1, <2>2 DEF Rooted
  <1>7. CASE ~made[Root].expanded
    <2>1. IsTree(ms, pos)
      BY <1>0, <1>2, <1>4, ExpandedTree
    <2>e. ms = Expand(made, Root, pos, pmf)
      OBVIOUS
    <2> HIDE DEF ms
    <2>2. Expands(made, ms, Root, pos, pmf)
      BY <1>0, <1>2, <1>7, <2>e, ExpandIs
    <2>3. made[Root] \in Node
      BY <1>2 DEF IsTree, Stands
    <2>4. Root \in DOMAIN ms /\ ms[Root].expanded
      BY <1>2, <2>2, <2>3 DEF Expands, Node
    <2>5. ASSUME NEW a \in Legal(pos) PROVE ms[<<a>>].prior = pmf[a]
      <3>1. Append(Root, a) = <<a>>
        BY <1>0, ChildOfRoot
      <3>2. ms[Append(Root, a)] = NewNode(pmf[a], ChildSeat(pos, a))
        BY <2>2 DEF Expands
      <3>3. NewNode(pmf[a], ChildSeat(pos, a)).prior = pmf[a]
        BY DEF NewNode
      <3> QED
        BY <3>1, <3>2, <3>3
    <2> QED
      BY <1>1, <1>5, <1>7, <2>1, <2>4, <2>5 DEF Rooted, pmf
  <1> QED
    BY <1>6, <1>7

\* The root that BeginSearch leaves, kept as it was or with its new priors.
LEMMA SearchedRoot ==
    ASSUME GameIsWellFormed, TreeInv, BeginSearch
    PROVE  /\ Rooted(nodes', pos) /\ SameShape(ReadyRoot, nodes') /\ SameStatistics(ReadyRoot, nodes')
           /\ ~flags.noised /\ noise => \A a \in Legal(pos) : nodes'[<<a>>].prior = 1
           /\ flags.noised \/ ~noise =>
                 \A a \in Legal(pos) :
                     nodes'[<<a>>].prior =
                         IF ~IsFreshRoot /\ ~flags.filtered
                         THEN MaskPolicyToSafeActions(pos, RootPriors(ReadyRoot))[a]
                         ELSE ReadyRoot[<<a>>].prior
  <1> DEFINE filter == ~IsFreshRoot /\ ~flags.filtered
             pmf == MaskPolicyToSafeActions(pos, RootPriors(ReadyRoot))
             ready == IF filter THEN ApplyDefensiveFilter(ReadyRoot) ELSE ReadyRoot
  <1>0. Rooted(ReadyRoot, pos) /\ pos \in Positions
    BY ReadyRootIs DEF TreeInv
  <1>1. nodes' = IF flags.noised THEN ready ELSE ApplyRootNoise(ready)
    BY Zenon DEF BeginSearch
  <1>2. \A ns : Rooted(ns, pos) => SameShape(ns, ns) /\ SameStatistics(ns, ns)
    BY DEF Rooted, IsTree, Stands, SameShape, SameStatistics
  <1>3. /\ Rooted(ready, pos) /\ SameShape(ReadyRoot, ready) /\ SameStatistics(ReadyRoot, ready)
        /\ \A a \in Legal(pos) : ready[<<a>>].prior = IF filter THEN pmf[a] ELSE ReadyRoot[<<a>>].prior
    <2>1. CASE filter
      <3>1. ready = WithRootPriors(ReadyRoot, pmf)
        BY <2>1, Zenon DEF ApplyDefensiveFilter
      <3>2. \A a \in Legal(pos) : pmf[a] \in Int
        <4>1. \A a \in Legal(pos) : RootPriors(ReadyRoot)[a] \in Int
          BY <1>0, RootPriorsAre
        <4> QED
          BY <1>0, <4>1, MaskIs
      <3> HIDE DEF ready, pmf
      <3> QED
        BY <1>0, <2>1, <3>1, <3>2, WithRootPriorsIs
    <2>2. CASE ~filter
      <3>1. ready = ReadyRoot
        BY <2>2
      <3> QED
        BY <1>0, <1>2, <2>2, <3>1
    <2> QED
      BY <2>1, <2>2
  <1> HIDE DEF ready, filter, pmf
  <1>4. CASE flags.noised \/ ~noise
    <2>1. nodes' = ready
      BY <1>1, <1>4 DEF ApplyRootNoise
    <2> QED
      BY <1>3, <1>4, <2>1 DEF filter, pmf
  <1>5. CASE ~flags.noised /\ noise
    <2> DEFINE ones == AddDirichletNoise(RootPriors(ready))
    <2>1. nodes' = WithRootPriors(ready, ones)
      BY <1>1, <1>5 DEF ApplyRootNoise
    <2>2. \A a \in Legal(pos) : ones[a] = 1 /\ ones[a] \in Int
      <3>1. DOMAIN RootPriors(ready) = Legal(pos)
        BY <1>3, RootPriorsAre
      <3> QED
        BY <3>1 DEF AddDirichletNoise
    <2> HIDE DEF ones
    <2>3. /\ SameShape(ready, nodes') /\ SameStatistics(ready, nodes') /\ Rooted(nodes', pos)
          /\ \A a \in Legal(pos) : nodes'[<<a>>].prior = ones[a]
      BY <1>3, <2>1, <2>2, WithRootPriorsIs
    <2>4. SameShape(ReadyRoot, nodes')
      BY <1>3, <2>3 DEF SameShape
    <2>5. SameStatistics(ReadyRoot, nodes')
      BY <1>3, <2>3 DEF SameShape, SameStatistics
    <2> QED
      BY <1>5, <2>2, <2>3, <2>4, <2>5
  <1> QED
    BY <1>4, <1>5

\* A descent changes statistics only.
LEMMA SelectedTree ==
    ASSUME GameIsWellFormed, TreeInv, NEW path \in DOMAIN nodes, NEW ms,
           ms = [q \in DOMAIN nodes |-> IF q # Root /\ OnPath(q, path)
                                        THEN AddVirtualLoss(nodes[q], Selector(q)) ELSE nodes[q]]
    PROVE  /\ SameShape(nodes, ms) /\ \A q \in DOMAIN nodes : Keeps(nodes[q], ms[q])
           /\ \A q \in DOMAIN nodes : ms[q] = IF q # Root /\ OnPath(q, path)
                                              THEN AddVirtualLoss(nodes[q], Selector(q)) ELSE nodes[q]
  <1>1. \A q \in DOMAIN nodes : nodes[q] \in Node
    BY DEF TreeInv, IsTree, Stands
  <1>2. ASSUME NEW q \in DOMAIN nodes
        PROVE  /\ Keeps(nodes[q], ms[q])
               /\ ms[q] = IF q # Root /\ OnPath(q, path)
                          THEN AddVirtualLoss(nodes[q], Selector(q)) ELSE nodes[q]
    <2>1. ms[q] = IF q # Root /\ OnPath(q, path)
                  THEN AddVirtualLoss(nodes[q], Selector(q)) ELSE nodes[q]
      OBVIOUS
    <2>2. Keeps(nodes[q], AddVirtualLoss(nodes[q], Selector(q)))
      BY <1>1, AddVirtualLossIs
    <2>3. Keeps(nodes[q], nodes[q])
      BY <1>1 DEF Keeps
    <2> QED
      BY <2>1, <2>2, <2>3
  <1>3. DOMAIN ms = DOMAIN nodes
    OBVIOUS
  <1> QED
    BY <1>2, <1>3 DEF SameShape, Keeps

\* The value a node is credited with is the value for seat A, seen from its seat:
\* the leaf's value is seen from the leaf's seat, which is the seat to act there.
LEMMA CreditIsForSeat ==
    ASSUME GameIsWellFormed, TreeInv, NEW path \in DOMAIN nodes, NEW n \in Node
    PROVE  /\ BackedUp(n, nodes[path], LeafValue(path)) = ForSeat(n.seat, ValueForA(Board(path)))
           /\ ValueForA(Board(path)) \in Int
           /\ ForSeat(n.seat, ValueForA(Board(path))) \in Int
  <1> DEFINE P == Board(path)
             leaf == nodes[path]
             v == Evaluation(P).value
  <1>1. P \in Positions /\ leaf.seat = Mover[P] /\ leaf.seat \in Seats /\ n.seat \in Seats
    BY DEF TreeInv, IsTree, Stands, Board, Node
  <1>2. v \in Int
    BY <1>1, PoliciesAreNumbers
  <1> HIDE DEF P, leaf, v
  <1>3. CASE IsTerminal(P)
    <2>1. Outcome[P] \in Int
      BY <1>3 DEF GameIsWellFormed, IsTerminal
    <2>2. LeafValue(path) = ForSeat(leaf.seat, Outcome[P]) /\ ValueForA(P) = Outcome[P]
      BY <1>3 DEF LeafValue, ValueForA, P, leaf
    <2>3. BackedUp(n, leaf, ForSeat(leaf.seat, Outcome[P])) = ForSeat(n.seat, Outcome[P])
      BY <1>1, <2>1 DEF BackedUp, ForSeat, Seats
    <2>4. ForSeat(n.seat, Outcome[P]) \in Int
      BY <2>1 DEF ForSeat
    <2> QED
      BY <2>1, <2>2, <2>3, <2>4 DEF P, leaf
  <1>4. CASE ~IsTerminal(P)
    <2>1. LeafValue(path) = v /\ ValueForA(P) = ForSeat(leaf.seat, v)
      BY <1>1, <1>4 DEF LeafValue, ValueForA, P, v
    <2>2. /\ BackedUp(n, leaf, v) = ForSeat(n.seat, ForSeat(leaf.seat, v))
          /\ ForSeat(leaf.seat, v) \in Int /\ ForSeat(n.seat, ForSeat(leaf.seat, v)) \in Int
      BY <1>1, <1>2 DEF BackedUp, ForSeat, Seats
    <2> QED
      BY <2>1, <2>2 DEF P, leaf
  <1> QED
    BY <1>3, <1>4

\* A backup changes statistics only, and those of the nodes on the path.
LEMMA CreditedTree ==
    ASSUME GameIsWellFormed, TreeInv, NEW path \in DOMAIN nodes, NEW ms, ms = Credited(path)
    PROVE  /\ SameShape(nodes, ms) /\ \A q \in DOMAIN nodes : Keeps(nodes[q], ms[q])
           /\ \A q \in DOMAIN nodes : ~OnPath(q, path) => ms[q] = nodes[q]
           /\ \A q \in DOMAIN nodes : q # Root /\ OnPath(q, path) =>
                 LET n == nodes[q]
                     g == ValueForA(Board(path))
                 IN  /\ ms[q].visits = n.visits - VirtualLoss + 1
                     /\ ms[q].sum = n.sum - LossFor(n, Selector(q)) + ForSeat(n.seat, g)
                     /\ ms[q].hits = n.hits + 1 /\ ms[q].gain = n.gain + g
  <1> DEFINE g == ValueForA(Board(path))
             b(n) == BackedUp(n, nodes[path], LeafValue(path))
             C(n) == Update(n, b(n), g)
             R(q) == RevertVirtualLoss(nodes[q], Selector(q))
  <1>1. ms = [q \in DOMAIN nodes |-> IF ~OnPath(q, path) THEN nodes[q]
                                     ELSE IF q = Root THEN C(nodes[q]) ELSE C(R(q))]
    BY Zenon DEF Credited
  <1>2. \A q \in DOMAIN nodes : nodes[q] \in Node
    BY DEF TreeInv, IsTree, Stands
  <1>3. ASSUME NEW n \in Node
        PROVE  /\ Keeps(n, C(n)) /\ C(n).visits = n.visits + 1 /\ C(n).sum = n.sum + ForSeat(n.seat, g)
               /\ C(n).hits = n.hits + 1 /\ C(n).gain = n.gain + g
    <2>1. b(n) = ForSeat(n.seat, g) /\ b(n) \in Int /\ g \in Int
      BY CreditIsForSeat
    <2> HIDE DEF b, g
    <2>2. /\ Keeps(n, C(n)) /\ C(n).visits = n.visits + 1 /\ C(n).sum = n.sum + b(n)
          /\ C(n).hits = n.hits + 1 /\ C(n).gain = n.gain + g
      BY <2>1, UpdateIs
    <2> QED
      BY <2>1, <2>2
  <1>4. ASSUME NEW q \in DOMAIN nodes
        PROVE  LET n == nodes[q]
               IN  /\ Keeps(n, R(q)) /\ R(q).visits = n.visits - VirtualLoss
                   /\ R(q).sum = n.sum - LossFor(n, Selector(q)) /\ R(q).hits = n.hits /\ R(q).gain = n.gain
    BY <1>2, RevertVirtualLossIs
  <1> HIDE DEF C, R, g
  <1>5. \A q \in DOMAIN nodes : ms[q] = IF ~OnPath(q, path) THEN nodes[q]
                                       ELSE IF q = Root THEN C(nodes[q]) ELSE C(R(q))
    BY <1>1
  <1>6. ASSUME NEW q \in DOMAIN nodes
        PROVE  /\ Keeps(nodes[q], C(R(q))) /\ C(R(q)).visits = nodes[q].visits - VirtualLoss + 1
               /\ C(R(q)).sum = nodes[q].sum - LossFor(nodes[q], Selector(q)) + ForSeat(nodes[q].seat, g)
               /\ C(R(q)).hits = nodes[q].hits + 1 /\ C(R(q)).gain = nodes[q].gain + g
    <2>1. /\ Keeps(nodes[q], R(q)) /\ R(q).visits = nodes[q].visits - VirtualLoss
          /\ R(q).sum = nodes[q].sum - LossFor(nodes[q], Selector(q)) /\ R(q).hits = nodes[q].hits
          /\ R(q).gain = nodes[q].gain
      BY <1>4
    <2>2. R(q) \in Node /\ R(q).seat = nodes[q].seat
      BY <2>1 DEF Keeps
    <2>3. /\ Keeps(R(q), C(R(q))) /\ C(R(q)).visits = R(q).visits + 1
          /\ C(R(q)).sum = R(q).sum + ForSeat(R(q).seat, g)
          /\ C(R(q)).hits = R(q).hits + 1 /\ C(R(q)).gain = R(q).gain + g
      BY <1>3, <2>2
    <2>4. Keeps(nodes[q], C(R(q)))
      BY <2>1, <2>3 DEF Keeps
    <2> QED
      BY <2>1, <2>2, <2>3, <2>4
  <1>7. ASSUME NEW q \in DOMAIN nodes PROVE Keeps(nodes[q], ms[q])
    <2>1. Keeps(nodes[q], nodes[q])
      BY <1>2 DEF Keeps
    <2> QED
      BY <1>2, <1>3, <1>5, <1>6, <2>1
  <1>8. ASSUME NEW q \in DOMAIN nodes, q # Root, OnPath(q, path)
        PROVE  /\ ms[q].visits = nodes[q].visits - VirtualLoss + 1
               /\ ms[q].sum = nodes[q].sum - LossFor(nodes[q], Selector(q)) + ForSeat(nodes[q].seat, g)
               /\ ms[q].hits = nodes[q].hits + 1 /\ ms[q].gain = nodes[q].gain + g
    <2>1. ms[q] = C(R(q))
      BY <1>5, <1>8
    <2> QED
      BY <1>6, <2>1
  <1>9. DOMAIN ms = DOMAIN nodes
    BY <1>1
  <1>10. SameShape(nodes, ms)
    BY <1>7, <1>9 DEF SameShape, Keeps
  <1> QED
    BY <1>5, <1>7, <1>8, <1>10 DEF g

\* The invariant holds before the first search.
LEMMA TreeInit == GameIsWellFormed /\ Init => TreeInv
  <1> SUFFICES ASSUME GameIsWellFormed, Init PROVE TreeInv
    OBVIOUS
  <1>1. IsTree(nodes, pos)
    BY EmptyTree DEF Init
  <1>2. <<>> \in Seq(DOMAIN nodes)
    BY EmptySeq
  <1> QED
    BY <1>1, <1>2 DEF Init, TreeInv, GameIsWellFormed

\* Every step keeps it.
LEMMA TreeNext == GameIsWellFormed /\ TreeInv /\ [Next]_vars => TreeInv'
  <1> SUFFICES ASSUME GameIsWellFormed, TreeInv, [Next]_vars PROVE TreeInv'
    OBVIOUS
  <1>e. \A S : <<>> \in Seq(S)
    BY EmptySeq
  <1>1. CASE ReturnAtOnce \/ ReturnSolved \/ EndSearch \/ DisableNoise \/ UNCHANGED vars
    BY <1>1 DEF ReturnAtOnce, ReturnSolved, EndSearch, DisableNoise, vars, tree, Return, CanSearch, TreeInv,
                IsTree, Stands, Closed, Branches, Rooted
  <1>2. CASE ReturnPriors
    <2>1. Rooted(nodes', pos) /\ pos' = pos /\ pc' = "idle" /\ paths' = <<>>
      BY <1>2, ReadyRootIs DEF ReturnPriors, Return, CanSearch, TreeInv
    <2> QED
      BY <1>e, <2>1 DEF TreeInv, Rooted
  <1>3. CASE BeginSearch
    <2>1. Rooted(nodes', pos) /\ pos' = pos /\ pc' = "select" /\ paths' = <<>> /\ ~IsTerminal(pos)
      BY <1>3, SearchedRoot DEF BeginSearch, CanSearch, TreeInv
    <2> QED
      BY <1>e, <2>1 DEF TreeInv, Rooted, IsTerminal
  <1>4. CASE SelectLeaf
    <2>1. PICK path \in DOMAIN nodes :
             /\ paths' = Append(paths, path)
             /\ nodes' = [q \in DOMAIN nodes |-> IF q # Root /\ OnPath(q, path)
                                                 THEN AddVirtualLoss(nodes[q], Selector(q)) ELSE nodes[q]]
      BY <1>4, Zenon DEF SelectLeaf
    <2>2. SameShape(nodes, nodes')
      BY <2>1, SelectedTree
    <2>3. DOMAIN nodes' = DOMAIN nodes /\ IsTree(nodes', pos) /\ (Rooted(nodes, pos) => Rooted(nodes', pos))
      BY <2>2, SameShapeIsTree DEF TreeInv, SameShape, Rooted
    <2>4. paths' \in Seq(DOMAIN nodes)
      BY <2>1, AppendProperties DEF TreeInv
    <2> QED
      BY <1>4, <2>3, <2>4 DEF SelectLeaf, TreeInv, IsTerminal
  <1>5. CASE EvaluateLeaves
    BY <1>5 DEF EvaluateLeaves, TreeInv, IsTree, Stands, Closed, Branches, Rooted, IsTerminal
  <1>6. CASE Backup
    <2> DEFINE path == Head(paths)
               p == Board(path)
               ms == Credited(path)
    <2>1. path \in DOMAIN nodes /\ Tail(paths) \in Seq(DOMAIN nodes)
      BY <1>6, HeadTailProperties DEF Backup, TreeInv
    <2>2. SameShape(nodes, ms)
      BY <2>1, CreditedTree
    <2>3. nodes' = IF IsTerminal(p) THEN ms ELSE Expand(ms, path, p, Evaluation(p).pmf)
      BY <1>6, Zenon DEF Backup
    <2>4. p = Walk(pos, path) /\ p \in Positions
      BY <2>1 DEF Board, TreeInv, IsTree, Stands
    <2> HIDE DEF path, p, ms
    <2>5. IsTree(ms, pos) /\ path \in DOMAIN ms /\ DOMAIN ms = DOMAIN nodes
      BY <2>1, <2>2, SameShapeIsTree DEF TreeInv, SameShape
    <2>6. \A a \in Legal(p) : Evaluation(p).pmf[a] \in Int
      BY <2>4, PoliciesAreNumbers
    <2>7. IsTree(nodes', pos)
      BY <2>3, <2>4, <2>5, <2>6, ExpandedTree
    <2>8. DOMAIN nodes \subseteq DOMAIN nodes' /\ (Rooted(nodes, pos) => Rooted(nodes', pos))
      <3>1. CASE nodes' = ms
        BY <2>2, <2>5, <3>1 DEF Rooted, SameShape
      <3>2. CASE nodes' # ms
        <4>1. ~ms[path].expanded /\ nodes' = Expand(ms, path, p, Evaluation(p).pmf)
          BY <2>3, <3>2 DEF Expand
        <4>2. Expands(ms, nodes', path, p, Evaluation(p).pmf)
          BY <2>4, <2>5, <4>1, ExpandIs
        <4>3. DOMAIN nodes \subseteq DOMAIN nodes'
          BY <2>5, <4>2 DEF Expands
        <4>4. ASSUME Rooted(nodes, pos) PROVE Rooted(nodes', pos)
          <5>1. Root \in DOMAIN nodes /\ ms[Root].expanded
            BY <2>2, <4>4 DEF Rooted, SameShape
          <5>2. Root # path
            BY <4>1, <5>1
          <5>3. nodes'[Root] = ms[Root]
            BY <2>5, <4>2, <5>1, <5>2 DEF Expands
          <5> QED
            BY <2>7, <4>3, <5>1, <5>3 DEF Rooted
        <4> QED
          BY <4>3, <4>4
      <3> QED
        BY <3>1, <3>2
    <2>9. paths' \in Seq(DOMAIN nodes')
      BY <1>6, <2>1, <2>8, SeqMonotonic DEF Backup
    <2> QED
      BY <1>6, <2>7, <2>8, <2>9 DEF Backup, TreeInv, IsTerminal
  <1>7. ASSUME NEW action \in Actions, PlayAction(action)
        PROVE  TreeInv'
    <2>1. pos' = Succ[pos][action] /\ pos' \in Positions /\ pc' = "idle" /\ paths' = <<>>
      BY <1>7 DEF PlayAction, GameIsWellFormed, TreeInv
    <2>2. nodes' = Subtree(nodes, action) \/ nodes' = <<>>
      BY <1>7 DEF PlayAction, SelectAction
    <2>3. IsTree(nodes', pos')
      BY <2>1, <2>2, SubtreeIsTree, EmptyTree DEF TreeInv
    <2> QED
      BY <1>e, <2>1, <2>3 DEF TreeInv
  <1> QED
    BY <1>1, <1>2, <1>3, <1>4, <1>5, <1>6, <1>7 DEF Next

\* For every game graph: through searches, opponents' actions and reused
\* subtrees, a node of the kept tree stands for the position its path leads to
\* from the caller's board, with the seat to act there, and an expanded node has
\* one child per legal action (mcts.cpp, SelectAction and Expand).
THEOREM TreeFitsTheGameAlways == Spec => []TreeFitsTheGame
  <1>1. TreeInv => TreeFitsTheGame
    <2> SUFFICES ASSUME TreeInv, NEW q \in DOMAIN nodes
                 PROVE  /\ nodes[q].seat = Mover[Board(q)]
                        /\ nodes[q].expanded => {Last(r) : r \in ChildPaths(nodes, q)} = Legal(Board(q))
      BY DEF TreeFitsTheGame
    <2>1. nodes[q].seat = Mover[Board(q)]
      BY DEF TreeInv, IsTree, Stands, Board
    <2>2. nodes[q].expanded => {Last(r) : r \in ChildPaths(nodes, q)} = Legal(Board(q))
      BY ChildPathsAre DEF TreeInv, Board
    <2> QED
      BY <2>1, <2>2
  <1> QED
    BY <1>1, TreeInit, TreeNext, GameIsWellFormed, PTL DEF Spec

-----------------------------------------------------------------------------
(* What an expansion and a backup keep. *)

Untouched(n) == n.visits = 0 /\ n.sum = 0 /\ n.hits = 0 /\ n.gain = 0

SamePriors(ns, ms) == \A q \in DOMAIN ns : ms[q].prior = ns[q].prior /\ ms[q].seat = ns[q].seat

\* Expand leaves the statistics and priors of the other nodes alone.
LEMMA ExpandKeeps ==
    ASSUME NEW ns, NEW p, IsTree(ns, p), NEW path \in DOMAIN ns, NEW pmf,
           NEW P, P = Walk(p, path), NEW ms, ms = Expand(ns, path, P, pmf)
    PROVE  /\ DOMAIN ns \subseteq DOMAIN ms /\ SameStatistics(ns, ms) /\ SamePriors(ns, ms)
           /\ \A q \in DOMAIN ms \ DOMAIN ns : Untouched(ms[q])
  <1>1. CASE ns[path].expanded
    <2>1. ms = ns
      BY <1>1 DEF Expand
    <2> QED
      BY <2>1 DEF SameStatistics, SamePriors
  <1>2. CASE ~ns[path].expanded
    <2>1. Expands(ns, ms, path, P, pmf)
      BY <1>2, ExpandIs
    <2>2. ns[path] \in Node
      BY DEF IsTree, Stands
    <2>3. DOMAIN ns \subseteq DOMAIN ms
      BY <2>1 DEF Expands
    <2>4. ms[path] = [ns[path] EXCEPT !.expanded = TRUE]
      BY <2>1 DEF Expands
    <2>5. /\ ms[path].visits = ns[path].visits /\ ms[path].sum = ns[path].sum
          /\ ms[path].hits = ns[path].hits /\ ms[path].gain = ns[path].gain
          /\ ms[path].prior = ns[path].prior /\ ms[path].seat = ns[path].seat
      BY <2>2, <2>4 DEF Node
    <2>6. \A q \in DOMAIN ns : q # path => ms[q] = ns[q]
      BY <2>1 DEF Expands
    <2>7. SameStatistics(ns, ms) /\ SamePriors(ns, ms)
      BY <2>5, <2>6 DEF SameStatistics, SamePriors
    <2>8. ASSUME NEW q \in DOMAIN ms \ DOMAIN ns PROVE Untouched(ms[q])
      <3>1. PICK a \in Legal(P) : q = Append(path, a)
        BY <2>1 DEF Expands
      <3>2. ms[q] = NewNode(pmf[a], ChildSeat(P, a))
        BY <2>1, <3>1 DEF Expands
      <3> QED
        BY <3>2 DEF NewNode, Untouched
    <2> QED
      BY <2>3, <2>7, <2>8
  <1> QED
    BY <1>1, <1>2

\* A backup credits the nodes on the path and may add fresh ones.
LEMMA BackupIs ==
    ASSUME GameIsWellFormed, TreeInv, Backup, NEW path, path = Head(paths), NEW ms, ms = Credited(path)
    PROVE  /\ path \in DOMAIN nodes /\ DOMAIN ms = DOMAIN nodes
           /\ DOMAIN ms \subseteq DOMAIN nodes' /\ SameStatistics(ms, nodes') /\ SamePriors(ms, nodes')
           /\ \A q \in DOMAIN nodes' \ DOMAIN ms : Untouched(nodes'[q])
  <1> DEFINE p == Board(path)
  <1>1. path \in DOMAIN nodes
    BY HeadTailProperties DEF Backup, TreeInv
  <1>2. SameShape(nodes, ms)
    BY <1>1, CreditedTree
  <1>3. nodes' = IF IsTerminal(p) THEN ms ELSE Expand(ms, path, p, Evaluation(p).pmf)
    BY Zenon DEF Backup
  <1>4. p = Walk(pos, path)
    BY DEF Board
  <1> HIDE DEF p
  <1>5. IsTree(ms, pos) /\ path \in DOMAIN ms /\ DOMAIN ms = DOMAIN nodes
    BY <1>1, <1>2, SameShapeIsTree DEF TreeInv, SameShape
  <1>6. CASE nodes' = ms
    BY <1>1, <1>5, <1>6 DEF SameStatistics, SamePriors
  <1>7. CASE nodes' = Expand(ms, path, p, Evaluation(p).pmf)
    BY <1>1, <1>4, <1>5, <1>7, ExpandKeeps
  <1> QED
    BY <1>3, <1>6, <1>7

-----------------------------------------------------------------------------
(* The defensive mask. *)

FlagsType == flags \in [noised : BOOLEAN, filtered : BOOLEAN, masked : BOOLEAN]

NoFlag == ~flags.noised /\ ~flags.filtered /\ ~flags.masked

\* Some child of the root may be selected, ...
SomeChild(ns, p) == \E a \in Legal(p) : ns[<<a>>].prior > 0

\* ... and only safe ones.
OnlySafe(ns, p) == \A a \in Legal(p) : ns[<<a>>].prior > 0 => a \in SafeActions[p]

SafePaths == \A i \in 1 .. Len(paths) : paths[i][1] \in SafeActions[pos]

\* The flags are down while a position was not searched: a search always
\* filters its root itself.
MaskInv ==
    /\ TreeInv /\ FlagsType
    /\ ~HasRoot \/ (pc = "idle" /\ ~searched) => NoFlag
    /\ flags.masked => pos \in DOMAIN SafeActions
    /\ pc # "idle" /\ flags.masked => SomeChild(nodes, pos)
    /\ pc # "idle" /\ flags.masked /\ ~noise => OnlySafe(nodes, pos) /\ SafePaths

\* The invariant of the mask holds before the first search.
LEMMA MaskInit == GameIsWellFormed /\ Init => MaskInv
  <1> SUFFICES ASSUME GameIsWellFormed, Init PROVE MaskInv
    OBVIOUS
  <1>1. FlagsType /\ NoFlag
    BY DEF Init, NoFlags, FlagsType, NoFlag
  <1> QED
    BY <1>1, TreeInit DEF Init, MaskInv, NoFlag

\* The flags that a search raises.
LEMMA FilteredIs ==
    ASSUME FlagsType
    PROVE  /\ Filtered \in [noised : BOOLEAN, filtered : BOOLEAN, masked : BOOLEAN]
           /\ ~flags.filtered => (Filtered.masked <=> pos \in DOMAIN SafeActions)
  <1> DEFINE b == IF flags.filtered /\ ~IsFreshRoot THEN flags.masked ELSE pos \in DOMAIN SafeActions
  <1>1. Filtered = [flags EXCEPT !.filtered = TRUE, !.masked = b]
    BY Zenon DEF Filtered
  <1>2. b \in BOOLEAN /\ (~flags.filtered => b = (pos \in DOMAIN SafeActions))
    <2>1. flags.masked \in BOOLEAN /\ (pos \in DOMAIN SafeActions) \in BOOLEAN
      BY DEF FlagsType
    <2> QED
      BY <2>1, Zenon
  <1> HIDE DEF b
  <1>3. /\ [flags EXCEPT !.filtered = TRUE, !.masked = b] \in [noised : BOOLEAN, filtered : BOOLEAN, masked : BOOLEAN]
        /\ [flags EXCEPT !.filtered = TRUE, !.masked = b].masked = b
    BY <1>2 DEF FlagsType
  <1> QED
    BY <1>1, <1>2, <1>3

\* The beginning of a search keeps it.
LEMMA BeginKeepsMask ==
    ASSUME GameIsWellFormed, MaskInv, TreeInv', BeginSearch
    PROVE  MaskInv'
  <1> DEFINE g == [Filtered EXCEPT !.noised = TRUE]
  <1>0. /\ TreeInv /\ FlagsType /\ NoFlag /\ pc' = "select" /\ UNCHANGED <<pos, noise, paths>> /\ paths = <<>>
        /\ ~IsTerminal(pos) /\ pos \in Positions
    BY DEF MaskInv, BeginSearch, CanSearch, TreeInv
  <1>1. flags' = g
    BY DEF BeginSearch
  <1>2. Filtered \in [noised : BOOLEAN, filtered : BOOLEAN, masked : BOOLEAN]
          /\ (Filtered.masked <=> pos \in DOMAIN SafeActions)
    BY <1>0, FilteredIs DEF NoFlag
  <1>3. FlagsType' /\ (flags'.masked <=> pos \in DOMAIN SafeActions)
    BY <1>1, <1>2 DEF FlagsType
  <1> HIDE DEF g
  <1>4. /\ Rooted(nodes', pos)
        /\ noise => \A a \in Legal(pos) : nodes'[<<a>>].prior = 1
        /\ ~noise => \A a \in Legal(pos) :
              nodes'[<<a>>].prior = IF ~IsFreshRoot THEN MaskPolicyToSafeActions(pos, RootPriors(ReadyRoot))[a]
                                    ELSE ReadyRoot[<<a>>].prior
    BY <1>0, SearchedRoot DEF NoFlag
  <1>5. ASSUME pos \in DOMAIN SafeActions PROVE SomeChild(nodes', pos)
    <2>1. CASE noise
      <3>1. Legal(pos) # {}
        BY <1>0 DEF GameIsWellFormed
      <3> QED
        BY <1>4, <2>1, <3>1 DEF SomeChild
    <2>2. CASE ~noise /\ ~IsFreshRoot
      <3> DEFINE pmf == MaskPolicyToSafeActions(pos, RootPriors(ReadyRoot))
      <3>1. \A a \in Legal(pos) : RootPriors(ReadyRoot)[a] \in Int
        BY <1>0, ReadyRootIs, RootPriorsAre
      <3>2. \E a \in Legal(pos) : pmf[a] > 0
        BY <1>0, <1>5, <3>1, MaskIs
      <3> HIDE DEF pmf
      <3>3. \A a \in Legal(pos) : nodes'[<<a>>].prior = pmf[a]
        BY <1>4, <2>2 DEF pmf
      <3> QED
        BY <3>2, <3>3 DEF SomeChild
    <2>3. CASE ~noise /\ IsFreshRoot
      <3> DEFINE pmf == MaskPolicyToSafeActions(pos, NetworkPolicy(pos))
      <3>1. \A a \in Legal(pos) : NetworkPolicy(pos)[a] \in Int
        BY <1>0, PoliciesAreNumbers
      <3>2. \E a \in Legal(pos) : pmf[a] > 0
        BY <1>0, <1>5, <3>1, MaskIs
      <3>3. \A a \in Legal(pos) : ReadyRoot[<<a>>].prior = pmf[a]
        BY <1>0, <2>3, ReadyRootIs
      <3> HIDE DEF pmf
      <3>4. \A a \in Legal(pos) : nodes'[<<a>>].prior = pmf[a]
        BY <1>4, <2>3, <3>3
      <3> QED
        BY <3>2, <3>4 DEF SomeChild
    <2> QED
      BY <2>1, <2>2, <2>3
  <1>6. ASSUME pos \in DOMAIN SafeActions, ~noise PROVE OnlySafe(nodes', pos)
    <2>2. CASE ~IsFreshRoot
      <3> DEFINE pmf == MaskPolicyToSafeActions(pos, RootPriors(ReadyRoot))
      <3>1. \A a \in Legal(pos) : RootPriors(ReadyRoot)[a] \in Int
        BY <1>0, ReadyRootIs, RootPriorsAre
      <3>2. \A a \in Legal(pos) : pmf[a] > 0 => a \in SafeActions[pos]
        BY <1>0, <1>6, <3>1, MaskIs
      <3> HIDE DEF pmf
      <3>3. \A a \in Legal(pos) : nodes'[<<a>>].prior = pmf[a]
        BY <1>4, <1>6, <2>2 DEF pmf
      <3> QED
        BY <3>2, <3>3 DEF OnlySafe
    <2>3. CASE IsFreshRoot
      <3> DEFINE pmf == MaskPolicyToSafeActions(pos, NetworkPolicy(pos))
      <3>1. \A a \in Legal(pos) : NetworkPolicy(pos)[a] \in Int
        BY <1>0, PoliciesAreNumbers
      <3>2. \A a \in Legal(pos) : pmf[a] > 0 => a \in SafeActions[pos]
        BY <1>0, <1>6, <3>1, MaskIs
      <3>3. \A a \in Legal(pos) : ReadyRoot[<<a>>].prior = pmf[a]
        BY <1>0, <2>3, ReadyRootIs
      <3> HIDE DEF pmf
      <3>4. \A a \in Legal(pos) : nodes'[<<a>>].prior = pmf[a]
        BY <1>4, <1>6, <2>3, <3>3
      <3> QED
        BY <3>2, <3>4 DEF OnlySafe
    <2> QED
      BY <2>2, <2>3
  <1>7. HasRoot'
    BY <1>4 DEF Rooted, HasRoot
  <1>8. SafePaths'
    BY <1>0, EmptySeq DEF SafePaths
  <1>9. (pos' = pos) /\ (noise' = noise) /\ pc' # "idle"
    BY <1>0
  <1>10. SomeChild(nodes, pos)' <=> SomeChild(nodes', pos)
    BY <1>9 DEF SomeChild
  <1>11. OnlySafe(nodes, pos)' <=> OnlySafe(nodes', pos)
    BY <1>9 DEF OnlySafe
  <1> QED
    BY <1>3, <1>5, <1>6, <1>7, <1>8, <1>9, <1>10, <1>11 DEF MaskInv

\* The steps of a search keep the priors of the root's children.
LEMMA RootPriorsKept ==
    ASSUME MaskInv, TreeInv', pc # "idle", UNCHANGED <<pos, noise, flags>>,
           DOMAIN nodes \subseteq DOMAIN nodes', \A q \in DOMAIN nodes : nodes'[q].prior = nodes[q].prior,
           flags.masked /\ ~noise => SafePaths', pc' # "idle"
    PROVE  MaskInv'
  <1>1. Rooted(nodes, pos)
    BY DEF MaskInv, TreeInv
  <1>2. \A a \in Legal(pos) : <<a>> \in DOMAIN nodes
    BY <1>1, RootedChildren
  <1>3. \A a \in Legal(pos) : nodes'[<<a>>].prior = nodes[<<a>>].prior
    BY <1>2
  <1>4. HasRoot /\ HasRoot'
    BY <1>1 DEF Rooted, HasRoot
  <1>5. SomeChild(nodes, pos) => SomeChild(nodes, pos)'
    BY <1>3 DEF SomeChild
  <1>6. OnlySafe(nodes, pos) => OnlySafe(nodes, pos)'
    BY <1>3 DEF OnlySafe
  <1>7. FlagsType'
    BY DEF MaskInv, FlagsType
  <1> QED
    BY <1>4, <1>5, <1>6, <1>7 DEF MaskInv

\* A descent that the mask lets through starts with a safe action.
LEMMA DescentIsSafe ==
    ASSUME GameIsWellFormed, MaskInv, pc = "select", NEW path \in DOMAIN nodes, IsDescent(path),
           flags.masked, ~noise
    PROVE  path[1] \in SafeActions[pos]
  <1>0. Rooted(nodes, pos) /\ ~IsTerminal(pos) /\ path \in Seq(Actions)
    BY DEF MaskInv, TreeInv, IsTree, Closed
  <1>1. /\ pos \in Positions /\ ChildPaths(nodes, Root) = {<<a>> : a \in Legal(pos)}
        /\ \A q \in DOMAIN nodes : Len(q) = 1 => q[1] \in Legal(pos) /\ q = <<q[1]>>
    BY <1>0, RootedChildren
  <1>2. Legal(pos) # {}
    BY <1>0, <1>1 DEF GameIsWellFormed
  <1>3. path # Root
    <2>1. nodes[Root].expanded
      BY <1>0 DEF Rooted
    <2>2. ChildPaths(nodes, Root) # {}
      <3>1. PICK a : a \in Legal(pos)
        BY <1>2
      <3>2. <<a>> \in {<<b>> : b \in Legal(pos)}
        BY <3>1
      <3> QED
        BY <1>1, <3>2
    <2>3. ~nodes[path].expanded \/ ChildPaths(nodes, path) = {}
      BY DEF IsDescent
    <2> QED
      BY <2>1, <2>2, <2>3
  <1>4. Len(path) \in Nat /\ Len(path) >= 1
    BY <1>0, <1>3, EmptySeq DEF Root
  <1> DEFINE x == path[1]
             u == SubSeq(path, 1, 1)
             r == SubSeq(path, 1, 1 - 1)
  <1>5. u \in Selectable(r)
    BY <1>4 DEF IsDescent
  <1>6. r = Root
    <2>1. 1 - 1 = 0 /\ 0 < 1
      OBVIOUS
    <2>2. SubSeq(path, 1, 0) = <<>>
      BY SubSeqEmpty
    <2> QED
      BY <2>1, <2>2 DEF Root
  <1>7. u = <<x>> /\ x \in Actions
    <2>1. x \in Actions
      BY <1>0, <1>4, ElementOfSeq
    <2>2. \A i \in 1 .. 1 : path[i] \in Actions
      BY <2>1
    <2>3. u \in Seq(Actions) /\ Len(u) = (IF 1 <= 1 THEN 1 - 1 + 1 ELSE 0)
            /\ \A i \in 1 .. 1 - 1 + 1 : u[i] = path[1 + i - 1]
      BY <2>2, SubSeqProperties
    <2> HIDE DEF u
    <2>4. Len(u) = 1 /\ u[1] = path[1]
      BY <2>3
    <2> QED
      BY <2>1, <2>3, <2>4, ChildOfRoot
  <1> HIDE DEF u, r, x
  <1>8. u \in ChildPaths(nodes, Root) /\ ~(nodes[u].prior <= 0)
    BY <1>5, <1>6 DEF Selectable
  <1>9. x \in Legal(pos)
    <2>1. PICK a \in Legal(pos) : u = <<a>>
      BY <1>1, <1>8
    <2>2. a = x
      BY <1>7, <2>1
    <2> QED
      BY <2>2
  <1>10. nodes[<<x>>].prior > 0
    <2>1. nodes[u] \in Node
      BY <1>0, <1>8 DEF Rooted, IsTree, Stands, ChildPaths
    <2>2. nodes[u].prior \in Int
      BY <2>1 DEF Node
    <2> QED
      BY <1>7, <1>8, <2>2
  <1> QED
    BY <1>9, <1>10 DEF MaskInv, OnlySafe, x

\* So does every step.
LEMMA MaskNext ==
    ASSUME GameIsWellFormed, MaskInv, [Next]_vars
    PROVE  MaskInv'
  <1>0. TreeInv /\ FlagsType /\ TreeInv'
    BY TreeNext DEF MaskInv
  <1>1. CASE UNCHANGED vars
    BY <1>0, <1>1 DEF MaskInv, vars, tree, FlagsType, NoFlag, HasRoot, SomeChild, OnlySafe, SafePaths
  <1>2. CASE ReturnAtOnce \/ ReturnSolved \/ EndSearch
    <2>1. UNCHANGED <<pos, nodes, noise, flags, paths>> /\ pc' = "idle" /\ searched' = TRUE
      BY <1>2, Zenon DEF ReturnAtOnce, ReturnSolved, EndSearch, Return, tree
    <2>2. FlagsType' /\ (NoFlag' <=> NoFlag) /\ (HasRoot' <=> HasRoot)
      BY <1>0, <2>1 DEF FlagsType, NoFlag, HasRoot
    <2> QED
      BY <1>0, <2>1, <2>2 DEF MaskInv
  <1>3. CASE ReturnPriors
    <2>1. /\ nodes' = ReadyRoot /\ UNCHANGED <<pos, noise, paths>> /\ pc' = "idle" /\ searched' = TRUE
          /\ pc = "idle" /\ ~searched /\ flags' = IF IsFreshRoot THEN Filtered ELSE flags
      BY <1>3, Zenon DEF ReturnPriors, CanSearch, Return
    <2>2. NoFlag
      BY <2>1 DEF MaskInv
    <2>3. /\ Filtered \in [noised : BOOLEAN, filtered : BOOLEAN, masked : BOOLEAN]
          /\ (Filtered.masked <=> pos \in DOMAIN SafeActions)
      BY <1>0, <2>2, FilteredIs DEF NoFlag
    <2>4. FlagsType' /\ (flags'.masked => pos \in DOMAIN SafeActions)
      BY <1>0, <2>1, <2>2, <2>3 DEF FlagsType, NoFlag
    <2>5. HasRoot'
      BY <1>0, <2>1, ReadyRootIs DEF HasRoot, Rooted
    <2> QED
      BY <1>0, <2>1, <2>4, <2>5 DEF MaskInv
  <1>4. CASE BeginSearch
    BY <1>0, <1>4, BeginKeepsMask
  <1>5. CASE SelectLeaf
    <2>1. PICK path \in DOMAIN nodes :
             /\ IsDescent(path) /\ paths' = Append(paths, path)
             /\ nodes' = [q \in DOMAIN nodes |->
                             IF q # Root /\ OnPath(q, path)
                             THEN AddVirtualLoss(nodes[q], Selector(q)) ELSE nodes[q]]
      BY <1>5 DEF SelectLeaf
    <2>2. UNCHANGED <<pos, noise, flags>> /\ pc = "select" /\ pc' = "select"
      BY <1>5 DEF SelectLeaf
    <2>3. SameShape(nodes, nodes') /\ \A q \in DOMAIN nodes : Keeps(nodes[q], nodes'[q])
      BY <1>0, <2>1, SelectedTree
    <2>4. DOMAIN nodes \subseteq DOMAIN nodes' /\ \A q \in DOMAIN nodes : nodes'[q].prior = nodes[q].prior
      BY <2>3 DEF SameShape, Keeps
    <2>5. ASSUME flags.masked, ~noise PROVE SafePaths'
      <3>1. path[1] \in SafeActions[pos]
        BY <2>1, <2>2, <2>5, DescentIsSafe
      <3>2. SafePaths
        BY <2>2, <2>5 DEF MaskInv
      <3>3. paths \in Seq(DOMAIN nodes)
        BY <1>0 DEF TreeInv
      <3> QED
        BY <2>1, <2>2, <3>1, <3>2, <3>3, AppendProperties DEF SafePaths
    <2> QED
      BY <1>0, <2>2, <2>4, <2>5, RootPriorsKept
  <1>6. CASE EvaluateLeaves
    <2>1. UNCHANGED <<pos, nodes, noise, flags, paths>> /\ pc = "select" /\ pc' = "backup"
      BY <1>6 DEF EvaluateLeaves
    <2>2. flags.masked /\ ~noise => SafePaths'
      BY <2>1 DEF MaskInv, SafePaths
    <2> QED
      BY <1>0, <2>1, <2>2, RootPriorsKept
  <1>7. CASE Backup
    <2> DEFINE path == Head(paths)
               ms == Credited(path)
    <2>1. UNCHANGED <<pos, noise, flags>> /\ pc = "backup" /\ pc' # "idle" /\ paths' = Tail(paths) /\ paths # <<>>
      BY <1>7 DEF Backup
    <2>2. /\ path \in DOMAIN nodes /\ DOMAIN ms = DOMAIN nodes
          /\ DOMAIN ms \subseteq DOMAIN nodes' /\ SamePriors(ms, nodes')
      BY <1>0, <1>7, BackupIs
    <2>3. \A q \in DOMAIN nodes : Keeps(nodes[q], ms[q])
      BY <1>0, <2>2, CreditedTree
    <2> HIDE DEF ms, path
    <2>4. DOMAIN nodes \subseteq DOMAIN nodes' /\ \A q \in DOMAIN nodes : nodes'[q].prior = nodes[q].prior
      BY <2>2, <2>3 DEF SamePriors, Keeps
    <2>5. ASSUME flags.masked, ~noise PROVE SafePaths'
      <3>1. SafePaths
        BY <2>1, <2>5 DEF MaskInv
      <3>2. paths \in Seq(DOMAIN nodes)
        BY <1>0 DEF TreeInv
      <3>3. Len(paths') = Len(paths) - 1 /\ Len(paths) \in Nat /\ \A i \in 1 .. Len(paths') : paths'[i] = paths[i + 1]
        BY <2>1, <3>2, HeadTailProperties, LenProperties
      <3> QED
        BY <2>1, <3>1, <3>3 DEF SafePaths
    <2> QED
      BY <1>0, <2>1, <2>4, <2>5, RootPriorsKept
  <1>8. ASSUME NEW action \in Actions, PlayAction(action) PROVE MaskInv'
    <2>1. pc' = "idle" /\ (flags' = NoFlags \/ (flags' = flags /\ ~HasRoot))
      BY <1>0, <1>8 DEF PlayAction, SelectAction
    <2>2. ~HasRoot => NoFlag
      BY DEF MaskInv
    <2>3. FlagsType' /\ NoFlag'
      <3>1. CASE flags' = NoFlags
        BY <3>1 DEF FlagsType, NoFlag, NoFlags
      <3>2. CASE flags' = flags /\ ~HasRoot
        BY <1>0, <2>2, <3>2 DEF FlagsType, NoFlag
      <3> QED
        BY <2>1, <3>1, <3>2
    <2> QED
      BY <1>0, <2>1, <2>3 DEF MaskInv, NoFlag
  <1>9. CASE DisableNoise
    <2>1. UNCHANGED <<pos, nodes, searched>> /\ pc = "idle" /\ pc' = "idle"
             /\ flags' = [flags EXCEPT !.noised = FALSE]
      BY <1>9 DEF DisableNoise
    <2>2. FlagsType' /\ ~flags'.noised /\ flags'.masked = flags.masked /\ flags'.filtered = flags.filtered
      BY <1>0, <2>1 DEF FlagsType
    <2>3. (NoFlag => NoFlag') /\ (HasRoot' <=> HasRoot)
      BY <2>1, <2>2 DEF NoFlag, HasRoot
    <2> QED
      BY <1>0, <2>1, <2>2, <2>3 DEF MaskInv
  <1> QED
    BY <1>1, <1>2, <1>3, <1>4, <1>5, <1>6, <1>7, <1>8, <1>9 DEF Next

\* For every game graph: a descent always finds a child to select, although the
\* mask excludes the children without a prior (mcts.cpp, SelectChild).
THEOREM SelectionNeverFailsAlways == Spec => []SelectionNeverFails
  <1>1. MaskInv => SelectionNeverFails
    <2> SUFFICES ASSUME MaskInv, pc = "select", NEW q \in DOMAIN nodes, ChildPaths(nodes, q) # {}
                 PROVE  Selectable(q) # {}
      BY DEF SelectionNeverFails
    <2>1. CASE ~(q = Root /\ flags.masked)
      BY <2>1 DEF Selectable
    <2>2. CASE q = Root /\ flags.masked
      <3>1. Rooted(nodes, pos) /\ SomeChild(nodes, pos)
        BY <2>2 DEF MaskInv, TreeInv
      <3>2. PICK a \in Legal(pos) : nodes[<<a>>].prior > 0
        BY <3>1 DEF SomeChild
      <3>3. <<a>> \in ChildPaths(nodes, Root) /\ nodes[<<a>>] \in Node
        BY <3>1, RootedChildren
      <3>4. ~(nodes[<<a>>].prior <= 0)
        BY <3>2, <3>3 DEF Node
      <3>5. <<a>> \in Selectable(q)
        BY <2>2, <3>3, <3>4 DEF Selectable
      <3> QED
        BY <3>5
    <2> QED
      BY <2>1, <2>2
  <1> QED
    BY <1>1, MaskInit, MaskNext, GameIsWellFormed, PTL DEF Spec

\* For every game graph: while root noise is off, no descent of a search whose
\* root is masked goes through an action the defence excludes, whether the root
\* is new or kept from an earlier move (mcts.cpp, ApplyDefensiveFilter).
THEOREM UnsafeMovesAreExcludedAlways == Spec => []UnsafeMovesAreExcluded
  <1>1. MaskInv => UnsafeMovesAreExcluded
    <2> SUFFICES ASSUME MaskInv, flags.masked, ~noise, NEW i \in DOMAIN paths
                 PROVE  paths[i][1] \in SafeActions[pos]
      BY DEF UnsafeMovesAreExcluded
    <2>1. paths \in Seq(DOMAIN nodes)
      BY DEF MaskInv, TreeInv
    <2>2. i \in 1 .. Len(paths)
      BY <2>1
    <2>3. pc # "idle"
      BY <2>2 DEF MaskInv, TreeInv
    <2> QED
      BY <2>2, <2>3 DEF MaskInv, SafePaths
  <1> QED
    BY <1>1, MaskInit, MaskNext, GameIsWellFormed, PTL DEF Spec

-----------------------------------------------------------------------------
(* The statistics.  How many paths of a batch pass through a node: *)

Hits(ps, q) == {i \in DOMAIN ps : OnPath(q, ps[i])}

Through(ps, q) == Cardinality(Hits(ps, q))

\* The paths of a batch that run through a node can be counted.
LEMMA HitsAreFinite ==
    ASSUME NEW S, NEW ps \in Seq(S), NEW q
    PROVE  /\ IsFiniteSet(Hits(ps, q)) /\ Through(ps, q) \in Nat
           /\ Hits(ps, q) = {i \in 1 .. Len(ps) : OnPath(q, ps[i])}
           /\ Hits(ps, q) = {} => Through(ps, q) = 0
  <1>1. Len(ps) \in Nat /\ DOMAIN ps = 1 .. Len(ps)
    BY LenProperties
  <1>2. Hits(ps, q) = {i \in 1 .. Len(ps) : OnPath(q, ps[i])}
    BY <1>1 DEF Hits
  <1>3. IsFiniteSet(1 .. Len(ps))
    BY <1>1, FS_Interval
  <1>4. Hits(ps, q) \in SUBSET (1 .. Len(ps))
    BY <1>2
  <1>5. IsFiniteSet(Hits(ps, q))
    BY <1>3, <1>4, FS_Subset
  <1> QED
    BY <1>2, <1>5, FS_CardinalityType, FS_EmptySet DEF Through

\* One path more in the batch.
LEMMA ThroughAppend ==
    ASSUME NEW S, NEW ps \in Seq(S), NEW path \in S, NEW q
    PROVE  Through(Append(ps, path), q) = IF OnPath(q, path) THEN Through(ps, q) + 1 ELSE Through(ps, q)
  <1> DEFINE rs == Append(ps, path)
             n == Len(ps) + 1
  <1>1. /\ rs \in Seq(S) /\ Len(rs) = n /\ Len(ps) \in Nat
        /\ \A i \in 1 .. Len(ps) : rs[i] = ps[i]
        /\ rs[n] = path
    BY AppendProperties, LenProperties
  <1> HIDE DEF rs
  <1>2. /\ Hits(ps, q) = {i \in 1 .. Len(ps) : OnPath(q, ps[i])} /\ IsFiniteSet(Hits(ps, q))
        /\ Hits(rs, q) = {i \in 1 .. Len(rs) : OnPath(q, rs[i])}
    BY <1>1, HitsAreFinite
  <1>3. n \notin Hits(ps, q) /\ 1 .. Len(rs) = (1 .. Len(ps)) \cup {n}
    BY <1>1, <1>2
  <1> HIDE DEF n
  <1>4. Hits(rs, q) = IF OnPath(q, path) THEN Hits(ps, q) \cup {n} ELSE Hits(ps, q)
    BY <1>1, <1>2, <1>3, Zenon
  <1>5. Cardinality(Hits(ps, q) \cup {n}) = Cardinality(Hits(ps, q)) + 1
    BY <1>2, <1>3, FS_AddElement
  <1> QED
    BY <1>4, <1>5, Zenon DEF Through, rs

\* One path less in the batch.
LEMMA ThroughTail ==
    ASSUME NEW S, NEW ps \in Seq(S), ps # <<>>, NEW q
    PROVE  Through(Tail(ps), q) = IF OnPath(q, Head(ps)) THEN Through(ps, q) - 1 ELSE Through(ps, q)
  <1> DEFINE ts == Tail(ps)
             H == Hits(ps, q)
             T == Hits(ts, q)
             f == [i \in T |-> i + 1]
  <1>1. /\ ts \in Seq(S) /\ Len(ts) = Len(ps) - 1 /\ Len(ps) \in Nat /\ Len(ps) >= 1
        /\ \A i \in 1 .. Len(ts) : ts[i] = ps[i + 1]
        /\ Head(ps) = ps[1]
    BY HeadTailProperties, LenProperties, EmptySeq
  <1> HIDE DEF ts
  <1>2. /\ H = {i \in 1 .. Len(ps) : OnPath(q, ps[i])} /\ IsFiniteSet(H)
        /\ T = {i \in 1 .. Len(ts) : OnPath(q, ts[i])} /\ IsFiniteSet(T)
    BY <1>1, HitsAreFinite
  <1>3. 1 \in H <=> OnPath(q, Head(ps))
    BY <1>1, <1>2
  <1>4. \A i \in T : i \in Int /\ i + 1 \in H /\ i + 1 # 1
    BY <1>1, <1>2
  <1>5. \A j \in H : j # 1 => j - 1 \in T /\ (j - 1) + 1 = j
    BY <1>1, <1>2
  <1> HIDE DEF H, T
  <1>6. f \in [T -> H \ {1}] /\ \A i \in T : f[i] = i + 1
    BY <1>4
  <1>7. \A i, j \in T : f[i] = f[j] => i = j
    BY <1>4, <1>6
  <1>8. \A j \in H \ {1} : \E i \in T : f[i] = j
    BY <1>5, <1>6
  <1>9. DOMAIN f = T
    OBVIOUS
  <1> HIDE DEF f
  <1>10. f \in Bijection(T, H \ {1})
    BY <1>6, <1>7, <1>8, <1>9 DEF Bijection, Injection, Surjection, IsInjective
  <1>11. Cardinality(H \ {1}) = Cardinality(T)
    BY <1>2, <1>10, FS_Bijection DEF ExistsBijection
  <1>12. Cardinality(H \ {1}) = IF 1 \in H THEN Cardinality(H) - 1 ELSE Cardinality(H)
    BY <1>2, FS_RemoveElement
  <1> QED
    BY <1>3, <1>11, <1>12, Zenon DEF Through, H, T, ts

\* A node with k descents under way, each of which costs it a loss.
Exact(n, loss, k) ==
    n.visits = n.hits + VirtualLoss * k /\ n.sum = ForSeat(n.seat, n.gain) + k * loss

Settled(n) == n.visits = n.hits /\ n.sum = ForSeat(n.seat, n.gain)

\* One virtual loss more or less.
LEMMA Distributes ==
    ASSUME NEW a \in Int, NEW k \in Int
    PROVE  /\ a * (k + 1) = a * k + a /\ (k + 1) * a = k * a + a
           /\ a * (k - 1) = a * k - a /\ (k - 1) * a = k * a - a
           /\ a * k \in Int /\ k * a \in Int /\ a * 0 = 0 /\ 0 * a = 0
  OBVIOUS

\* Values change sign with the seat and add up.
LEMMA ForSeatAdds ==
    ASSUME NEW seat, NEW x \in Int, NEW y \in Int
    PROVE  /\ ForSeat(seat, x) \in Int /\ ForSeat(seat, y) \in Int /\ ForSeat(seat, 0) = 0
           /\ ForSeat(seat, x + y) = ForSeat(seat, x) + ForSeat(seat, y)
  <1>1. CASE seat = "A"
    <2>1. \A v : ForSeat(seat, v) = v
      BY <1>1 DEF ForSeat
    <2> QED
      BY <2>1
  <1>2. CASE seat # "A"
    <2>1. \A v : ForSeat(seat, v) = -v
      BY <1>2 DEF ForSeat
    <2> QED
      BY <2>1
  <1> QED
    BY <1>1, <1>2

\* Without paths in flight, exact statistics are settled.
LEMMA ExactSettled ==
    ASSUME GameIsWellFormed, NEW n \in Node, NEW loss \in Int
    PROVE  Exact(n, loss, 0) <=> Settled(n)
  <1>1. VirtualLoss * 0 = 0 /\ 0 * loss = 0
    BY Distributes DEF GameIsWellFormed
  <1>2. n.hits \in Int /\ n.gain \in Int /\ ForSeat(n.seat, n.gain) \in Int
    BY ForSeatAdds DEF Node
  <1> QED
    BY <1>1, <1>2 DEF Exact, Settled

\* A descent through a node adds one virtual loss.
LEMMA ExactSelected ==
    ASSUME GameIsWellFormed, NEW n \in Node, NEW m \in Node, NEW loss \in Int, NEW k \in Int, Exact(n, loss, k),
           m.visits = n.visits + VirtualLoss, m.sum = n.sum + loss, m.hits = n.hits,
           m.gain = n.gain, m.seat = n.seat
    PROVE  Exact(m, loss, k + 1)
  <1>1. VirtualLoss \in Int
    BY DEF GameIsWellFormed
  <1>2. /\ VirtualLoss * (k + 1) = VirtualLoss * k + VirtualLoss /\ (k + 1) * loss = k * loss + loss
        /\ VirtualLoss * k \in Int /\ k * loss \in Int
    BY <1>1, Distributes
  <1>3. n.hits \in Int /\ n.gain \in Int /\ ForSeat(n.seat, n.gain) \in Int
    BY ForSeatAdds DEF Node
  <1> DEFINE u == VirtualLoss * k
             v == k * loss
             u1 == VirtualLoss * (k + 1)
             v1 == (k + 1) * loss
             w == ForSeat(n.seat, n.gain)
  <1>4. n.visits = n.hits + u /\ n.sum = w + v
    BY DEF Exact
  <1>5. u \in Int /\ v \in Int /\ w \in Int /\ u1 = u + VirtualLoss /\ v1 = v + loss
    BY <1>2, <1>3
  <1> HIDE DEF u, v, u1, v1, w
  <1>6. m.visits = m.hits + u1 /\ m.sum = w + v1
    BY <1>1, <1>3, <1>4, <1>5
  <1> QED
    BY <1>6 DEF Exact, u1, v1, w

\* A backup through it takes one back and adds the value.
LEMMA ExactCredited ==
    ASSUME GameIsWellFormed, NEW n \in Node, NEW m \in Node, NEW loss \in Int, NEW k \in Int, Exact(n, loss, k),
           NEW g \in Int, m.visits = n.visits - VirtualLoss + 1, m.sum = n.sum - loss + ForSeat(n.seat, g),
           m.hits = n.hits + 1, m.gain = n.gain + g, m.seat = n.seat
    PROVE  Exact(m, loss, k - 1)
  <1>1. VirtualLoss \in Int
    BY DEF GameIsWellFormed
  <1>2. /\ VirtualLoss * (k - 1) = VirtualLoss * k - VirtualLoss /\ (k - 1) * loss = k * loss - loss
        /\ VirtualLoss * k \in Int /\ k * loss \in Int
    BY <1>1, Distributes
  <1>3. /\ n.hits \in Int /\ n.gain \in Int /\ ForSeat(n.seat, n.gain) \in Int /\ ForSeat(n.seat, g) \in Int
        /\ ForSeat(n.seat, n.gain + g) = ForSeat(n.seat, n.gain) + ForSeat(n.seat, g)
    BY ForSeatAdds DEF Node
  <1> DEFINE u == VirtualLoss * k
             v == k * loss
             u1 == VirtualLoss * (k - 1)
             v1 == (k - 1) * loss
             w == ForSeat(n.seat, n.gain)
             x == ForSeat(n.seat, g)
             y == ForSeat(n.seat, n.gain + g)
  <1>4. n.visits = n.hits + u /\ n.sum = w + v /\ m.sum = n.sum - loss + x
    BY DEF Exact
  <1>5. u \in Int /\ v \in Int /\ w \in Int /\ x \in Int /\ u1 = u - VirtualLoss /\ v1 = v - loss /\ y = w + x
    BY <1>2, <1>3
  <1> HIDE DEF u, v, u1, v1, w, x, y
  <1>6. m.visits = m.hits + u1 /\ m.sum = y + v1
    BY <1>1, <1>3, <1>4, <1>5
  <1>7. ForSeat(m.seat, m.gain) = y
    BY DEF y
  <1> QED
    BY <1>6, <1>7 DEF Exact, u1, v1

ExactTree(ns, ps) ==
    \A q \in DOMAIN ns \ {Root} : Exact(ns[q], LossFor(ns[q], ns[Front(q)].seat), Through(ps, q))

SettledTree(ns) == \A q \in DOMAIN ns \ {Root} : Settled(ns[q])

StatInv == TreeInv /\ ExactTree(nodes, paths)

\* Between two batches the statistics are those of the finished simulations.
LEMMA ExactBetweenBatches ==
    ASSUME GameIsWellFormed, NEW ns, NEW p, IsTree(ns, p)
    PROVE  ExactTree(ns, <<>>) <=> SettledTree(ns)
  <1>1. \A q : Through(<<>>, q) = 0
    <2> SUFFICES ASSUME NEW q PROVE Through(<<>>, q) = 0
      OBVIOUS
    <2>1. <<>> \in Seq({}) /\ Len(<<>>) = 0 /\ DOMAIN <<>> = {}
      OBVIOUS
    <2>2. Hits(<<>>, q) = {}
      BY <2>1 DEF Hits
    <2> QED
      BY <2>1, <2>2, HitsAreFinite
  <1>2. \A q \in DOMAIN ns : ns[q] \in Node /\ LossFor(ns[q], ns[Front(q)].seat) \in Int
    BY LossIsInt DEF IsTree, Stands
  <1>3. \A q \in DOMAIN ns : Exact(ns[q], LossFor(ns[q], ns[Front(q)].seat), 0) <=> Settled(ns[q])
    BY <1>2, ExactSettled
  <1> QED
    BY <1>1, <1>3 DEF ExactTree, SettledTree

\* Expanding and masking keep a settled tree settled.
LEMMA SettledKept ==
    ASSUME NEW ns, NEW ms, NEW p, IsTree(ns, p), IsTree(ms, p), SettledTree(ns), DOMAIN ns \subseteq DOMAIN ms,
           SameStatistics(ns, ms), \A q \in DOMAIN ns : ms[q].seat = ns[q].seat,
           \A q \in DOMAIN ms \ DOMAIN ns : Untouched(ms[q]) \/ q = Root
    PROVE  SettledTree(ms)
  <1> SUFFICES ASSUME NEW q \in DOMAIN ms \ {Root} PROVE Settled(ms[q])
    BY DEF SettledTree
  <1>1. CASE q \in DOMAIN ns
    <2>1. Settled(ns[q]) /\ ms[q].seat = ns[q].seat
      BY <1>1 DEF SettledTree
    <2>2. /\ ms[q].visits = ns[q].visits /\ ms[q].sum = ns[q].sum
          /\ ms[q].hits = ns[q].hits /\ ms[q].gain = ns[q].gain
      BY <1>1 DEF SameStatistics
    <2> QED
      BY <2>1, <2>2 DEF Settled
  <1>2. CASE q \notin DOMAIN ns
    <2>1. Untouched(ms[q])
      BY <1>2
    <2>2. ForSeat(ms[q].seat, 0) = 0
      BY ForSeatAdds
    <2> QED
      BY <2>1, <2>2 DEF Untouched, Settled
  <1> QED
    BY <1>1, <1>2

\* A root that is made, expanded, masked and noised has no statistics yet.
LEMMA ReadyRootSettled ==
    ASSUME GameIsWellFormed, TreeInv, SettledTree(nodes)
    PROVE  SettledTree(ReadyRoot) /\ IsTree(ReadyRoot, pos)
  <1> DEFINE made == IF HasRoot THEN nodes ELSE [q \in {Root} |-> NewNode(1, Mover[pos])]
             pmf == MaskPolicyToSafeActions(pos, NetworkPolicy(pos))
             ms == Expand(made, Root, pos, pmf)
  <1>1. pos \in Positions /\ Walk(pos, Root) = pos /\ IsTree(nodes, pos)
    BY WalkRoot DEF TreeInv
  <1>2. IsTree(made, pos) /\ Root \in DOMAIN made
    <2>1. CASE HasRoot
      BY <1>1, <2>1 DEF HasRoot
    <2>2. CASE ~HasRoot
      BY <1>1, <2>2, NewTree
    <2> QED
      BY <2>1, <2>2
  <1>3. SettledTree(made)
    <2>1. CASE HasRoot
      BY <2>1
    <2>2. CASE ~HasRoot
      BY <2>2 DEF SettledTree
    <2> QED
      BY <2>1, <2>2
  <1>4. ReadyRoot = ms
    BY DEF ReadyRoot
  <1> HIDE DEF made, pmf
  <1>5. /\ DOMAIN made \subseteq DOMAIN ms /\ SameStatistics(made, ms) /\ SamePriors(made, ms)
        /\ \A q \in DOMAIN ms \ DOMAIN made : Untouched(ms[q])
    BY <1>1, <1>2, ExpandKeeps
  <1> HIDE DEF ms
  <1>6. IsTree(ms, pos)
    BY <1>4, ReadyRootIs DEF Rooted
  <1>7. SettledTree(ms)
    BY <1>2, <1>3, <1>5, <1>6, SettledKept DEF SamePriors
  <1> QED
    BY <1>4, <1>6, <1>7

\* A subtree of a settled tree is settled.
LEMMA SubtreeSettled ==
    ASSUME NEW ns, DOMAIN ns \subseteq Seq(Actions), SettledTree(ns), NEW a \in Actions
    PROVE  SettledTree(Subtree(ns, a))
  <1> DEFINE ms == Subtree(ns, a)
  <1>1. /\ DOMAIN ms = {q \in Seq(Actions) : Cons(a, q) \in DOMAIN ns}
        /\ \A q \in DOMAIN ms : ms[q] = ns[Cons(a, q)]
    BY SubtreeIs
  <1> HIDE DEF ms
  <1>2. \A q \in DOMAIN ms : Cons(a, q) # Root
    BY <1>1, ConsIs DEF Root
  <1>3. SettledTree(ms)
    BY <1>1, <1>2 DEF SettledTree
  <1> QED
    BY <1>3 DEF ms

\* A node's parent is in the tree.
LEMMA FrontIsThere ==
    ASSUME NEW ns, NEW p, IsTree(ns, p), NEW q \in DOMAIN ns, q # Root
    PROVE  Front(q) \in DOMAIN ns /\ q \in Seq(Actions)
  <1>1. q \in Seq(Actions) /\ q # <<>>
    BY DEF IsTree, Closed, Root
  <1>2. Front(q) \in Seq(Actions) /\ Last(q) \in Actions /\ q = Append(Front(q), Last(q))
    BY <1>1, SplitPath
  <1> QED
    BY <1>1, <1>2, ParentIsThere

\* What exactness says of a node depends on its statistics and its seat only.
LEMMA ExactIsKept ==
    ASSUME NEW n, NEW m, NEW loss, NEW k, Exact(n, loss, k), m.visits = n.visits, m.sum = n.sum,
           m.hits = n.hits, m.gain = n.gain, m.seat = n.seat
    PROVE  Exact(m, loss, k)
  BY DEF Exact

\* A descent adds its virtual loss to the nodes it passes, each once.
LEMMA SelectKeepsExact ==
    ASSUME GameIsWellFormed, StatInv, NEW path \in DOMAIN nodes, paths' = Append(paths, path),
           nodes' = [q \in DOMAIN nodes |-> IF q # Root /\ OnPath(q, path)
                                            THEN AddVirtualLoss(nodes[q], Selector(q)) ELSE nodes[q]]
    PROVE  ExactTree(nodes', paths')
  <1>1. TreeInv /\ IsTree(nodes, pos) /\ paths \in Seq(DOMAIN nodes)
    BY DEF StatInv, TreeInv
  <1>2. /\ SameShape(nodes, nodes')
        /\ \A q \in DOMAIN nodes : nodes'[q] = IF q # Root /\ OnPath(q, path)
                                               THEN AddVirtualLoss(nodes[q], Selector(q)) ELSE nodes[q]
    BY <1>1, SelectedTree
  <1> SUFFICES ASSUME NEW q \in DOMAIN nodes, q # Root
               PROVE  Exact(nodes'[q], LossFor(nodes'[q], nodes'[Front(q)].seat), Through(paths', q))
    BY <1>2 DEF ExactTree, SameShape
  <1> DEFINE n == nodes[q]
             m == nodes'[q]
             k == Through(paths, q)
             loss == LossFor(n, Selector(q))
  <1>3. n \in Node /\ m \in Node /\ m.seat = n.seat /\ Front(q) \in DOMAIN nodes
    BY <1>1, <1>2, FrontIsThere DEF SameShape, IsTree, Stands
  <1>4. LossFor(m, nodes'[Front(q)].seat) = loss /\ loss \in Int
    BY <1>2, <1>3, LossIsInt DEF LossFor, Selector, SameShape
  <1>5. Exact(n, loss, k)
    BY DEF StatInv, ExactTree, Selector
  <1>6. k \in Nat /\ Through(paths', q) = IF OnPath(q, path) THEN k + 1 ELSE k
    BY <1>1, HitsAreFinite, ThroughAppend
  <1>7. m = IF OnPath(q, path) THEN AddVirtualLoss(n, Selector(q)) ELSE n
    BY <1>2
  <1> HIDE DEF n, m, k, loss
  <1>8. CASE OnPath(q, path)
    <2>1. /\ m.visits = n.visits + VirtualLoss /\ m.sum = n.sum + loss
          /\ m.hits = n.hits /\ m.gain = n.gain
      BY <1>3, <1>7, <1>8, AddVirtualLossIs DEF loss
    <2>2. Exact(m, loss, k + 1)
      BY <1>3, <1>4, <1>5, <1>6, <2>1, ExactSelected
    <2> QED
      BY <1>4, <1>6, <1>8, <2>2 DEF m
  <1>9. CASE ~OnPath(q, path)
    <2>1. Exact(m, loss, k)
      BY <1>5, <1>7, <1>9
    <2> QED
      BY <1>4, <1>6, <1>9, <2>1 DEF m
  <1> QED
    BY <1>8, <1>9

\* A backup takes it off again and credits the value; the nodes it makes are on
\* no path of the batch.
LEMMA BackupKeepsExact ==
    ASSUME GameIsWellFormed, StatInv, TreeInv', Backup
    PROVE  ExactTree(nodes', paths')
  <1> DEFINE path == Head(paths)
             ms == Credited(path)
             g == ValueForA(Board(path))
  <1>1. /\ TreeInv /\ IsTree(nodes, pos) /\ paths \in Seq(DOMAIN nodes) /\ paths # <<>>
        /\ paths' = Tail(paths) /\ IsTree(nodes', pos)
    BY DEF StatInv, TreeInv, Backup
  <1>2. /\ path \in DOMAIN nodes /\ DOMAIN ms = DOMAIN nodes
        /\ DOMAIN ms \subseteq DOMAIN nodes' /\ SameStatistics(ms, nodes') /\ SamePriors(ms, nodes')
        /\ \A q \in DOMAIN nodes' \ DOMAIN ms : Untouched(nodes'[q])
    BY <1>1, BackupIs
  <1>3. /\ SameShape(nodes, ms)
        /\ \A q \in DOMAIN nodes : ~OnPath(q, path) => ms[q] = nodes[q]
        /\ \A q \in DOMAIN nodes : q # Root /\ OnPath(q, path) =>
              /\ ms[q].visits = nodes[q].visits - VirtualLoss + 1
              /\ ms[q].sum = nodes[q].sum - LossFor(nodes[q], Selector(q)) + ForSeat(nodes[q].seat, g)
              /\ ms[q].hits = nodes[q].hits + 1 /\ ms[q].gain = nodes[q].gain + g
    BY <1>1, <1>2, CreditedTree
  <1>4. nodes[path] \in Node
    BY <1>1, <1>2 DEF IsTree, Stands
  <1>5. g \in Int
    BY <1>1, <1>2, <1>4, CreditIsForSeat
  <1> HIDE DEF ms, g
  <1> SUFFICES ASSUME NEW q \in DOMAIN nodes', q # Root
               PROVE  Exact(nodes'[q], LossFor(nodes'[q], nodes'[Front(q)].seat), Through(paths', q))
    BY DEF ExactTree
  <1>6. CASE q \in DOMAIN nodes
    <2> DEFINE n == nodes[q]
               c == ms[q]
               m == nodes'[q]
               k == Through(paths, q)
               loss == LossFor(n, Selector(q))
    <2>1. Front(q) \in DOMAIN nodes
      BY <1>1, <1>6, FrontIsThere
    <2>2. n \in Node /\ c \in Node /\ c.seat = n.seat /\ m.seat = c.seat
      BY <1>1, <1>2, <1>3, <1>6 DEF SameShape, SamePriors, IsTree, Stands
    <2>3. nodes'[Front(q)].seat = nodes[Front(q)].seat
      BY <1>2, <1>3, <2>1 DEF SameShape, SamePriors
    <2>4. LossFor(m, nodes'[Front(q)].seat) = loss /\ loss \in Int
      BY <2>2, <2>3, LossIsInt DEF LossFor, Selector
    <2>5. Exact(n, loss, k)
      BY <1>6 DEF StatInv, ExactTree, Selector
    <2>6. k \in Nat /\ Through(paths', q) = IF OnPath(q, path) THEN k - 1 ELSE k
      BY <1>1, HitsAreFinite, ThroughTail
    <2>7. m.visits = c.visits /\ m.sum = c.sum /\ m.hits = c.hits /\ m.gain = c.gain
      BY <1>2, <1>6 DEF SameStatistics
    <2>8. CASE OnPath(q, path)
      <3>1. /\ c.visits = n.visits - VirtualLoss + 1 /\ c.sum = n.sum - loss + ForSeat(n.seat, g)
            /\ c.hits = n.hits + 1 /\ c.gain = n.gain + g
        BY <1>3, <1>6, <2>8
      <3> HIDE DEF n, c, m, k, loss
      <3>2. Exact(c, loss, k - 1)
        BY <1>5, <2>2, <2>4, <2>5, <2>6, <3>1, ExactCredited
      <3>3. Exact(m, loss, k - 1)
        BY <2>2, <2>7, <3>2, ExactIsKept
      <3> QED
        BY <2>4, <2>6, <2>8, <3>3 DEF m
    <2>9. CASE ~OnPath(q, path)
      <3>1. c = n
        BY <1>3, <1>6, <2>9
      <3> HIDE DEF n, c, m, k, loss
      <3>2. Exact(m, loss, k)
        BY <2>2, <2>5, <2>7, <3>1, ExactIsKept
      <3> QED
        BY <2>4, <2>6, <2>9, <3>2 DEF m
    <2> QED
      BY <2>8, <2>9
  <1>7. CASE q \notin DOMAIN nodes
    <2>1. Untouched(nodes'[q]) /\ nodes'[q] \in Node /\ q \in Seq(Actions)
      BY <1>1, <1>2, <1>7 DEF IsTree, Stands, Closed
    <2>2. ForSeat(nodes'[q].seat, 0) = 0
      BY ForSeatAdds
    <2>3. Settled(nodes'[q])
      BY <2>1, <2>2 DEF Settled, Untouched
    <2>4. Exact(nodes'[q], LossFor(nodes'[q], nodes'[Front(q)].seat), 0)
      BY <2>1, <2>3, ExactSettled, LossIsInt
    <2>5. paths' \in Seq(DOMAIN nodes)
      BY <1>1, HeadTailProperties
    <2>6. \A i \in 1 .. Len(paths') : paths'[i] \in DOMAIN nodes
      BY <2>5, ElementOfSeq
    <2>7. \A r \in DOMAIN nodes : ~OnPath(q, r)
      BY <1>1, <1>7, <2>1 DEF IsTree, Closed, OnPath
    <2>8. Hits(paths', q) = {}
      BY <2>5, <2>6, <2>7, HitsAreFinite
    <2>9. Through(paths', q) = 0
      BY <2>5, <2>8, HitsAreFinite
    <2> QED
      BY <2>4, <2>9
  <1> QED
    BY <1>6, <1>7

\* Every step keeps the statistics exact.
LEMMA StatNext ==
    ASSUME GameIsWellFormed, StatInv, [Next]_vars
    PROVE  StatInv'
  <1>0. TreeInv /\ TreeInv' /\ ExactTree(nodes, paths) /\ IsTree(nodes, pos) /\ IsTree(nodes', pos')
    BY TreeNext DEF StatInv, TreeInv
  <1> SUFFICES ExactTree(nodes', paths')
    BY <1>0 DEF StatInv
  <1>1. CASE UNCHANGED <<nodes, paths>>
    <2>1. nodes' = nodes /\ paths' = paths
      BY <1>1
    <2> QED
      BY <1>0, <2>1
  <1>2. ASSUME paths = <<>> PROVE SettledTree(nodes)
    BY <1>0, <1>2, ExactBetweenBatches
  <1>3. ASSUME paths' = <<>>, SettledTree(nodes') PROVE ExactTree(nodes', paths')
    BY <1>0, <1>3, ExactBetweenBatches
  <1>4. CASE ReturnPriors
    <2>1. nodes' = ReadyRoot /\ paths = <<>> /\ paths' = <<>>
      BY <1>0, <1>4 DEF ReturnPriors, CanSearch, TreeInv
    <2> QED
      BY <1>0, <1>2, <1>3, <2>1, ReadyRootSettled
  <1>5. CASE BeginSearch
    <2>1. paths = <<>> /\ paths' = <<>> /\ pos' = pos
      BY <1>0, <1>5 DEF BeginSearch, CanSearch, TreeInv
    <2>2. SameShape(ReadyRoot, nodes') /\ SameStatistics(ReadyRoot, nodes')
      BY <1>0, <1>5, SearchedRoot
    <2>3. SettledTree(ReadyRoot) /\ IsTree(ReadyRoot, pos)
      BY <1>0, <1>2, <2>1, ReadyRootSettled
    <2>4. SettledTree(nodes')
      BY <1>0, <2>1, <2>2, <2>3, SettledKept DEF SameShape
    <2> QED
      BY <1>3, <2>1, <2>4
  <1>6. CASE SelectLeaf
    BY <1>6, SelectKeepsExact DEF SelectLeaf
  <1>7. CASE Backup
    BY <1>0, <1>7, BackupKeepsExact
  <1>8. ASSUME NEW action \in Actions, PlayAction(action) PROVE ExactTree(nodes', paths')
    <2>1. paths = <<>> /\ paths' = <<>>
      BY <1>0, <1>8 DEF PlayAction, TreeInv
    <2>2. nodes' = Subtree(nodes, action) \/ nodes' = <<>>
      BY <1>8 DEF PlayAction, SelectAction
    <2>3. SettledTree(<<>>)
      BY DEF SettledTree
    <2>4. SettledTree(Subtree(nodes, action))
      BY <1>0, <1>2, <2>1, SubtreeSettled DEF IsTree, Closed
    <2> QED
      BY <1>3, <2>1, <2>2, <2>3, <2>4
  <1>9. CASE ReturnAtOnce \/ ReturnSolved \/ EndSearch \/ EvaluateLeaves \/ DisableNoise \/ UNCHANGED vars
    <2>1. UNCHANGED <<nodes, paths>>
      BY <1>9, Zenon DEF ReturnAtOnce, ReturnSolved, EndSearch, EvaluateLeaves, DisableNoise, vars, tree
    <2> QED
      BY <1>1, <2>1
  <1> QED
    BY <1>4, <1>5, <1>6, <1>7, <1>8, <1>9 DEF Next

\* For every game graph, batch size and virtual loss: at every moment of a batch
\* a node's visits and value sum are those of the simulations backed up through
\* it, seen from its own seat, plus the virtual loss of the descents under way;
\* between batches no virtual loss remains (mcts.cpp, Search).
THEOREM StatisticsAreExactAlways == Spec => []StatisticsAreExact
  <1>1. StatInv => StatisticsAreExact
    BY Zenon DEF StatInv, ExactTree, StatisticsAreExact, Exact, Pending, Through, Hits, Selector
  <1>2. Init /\ GameIsWellFormed => StatInv
    <2> SUFFICES ASSUME Init, GameIsWellFormed PROVE StatInv
      OBVIOUS
    <2>1. nodes = <<>>
      BY DEF Init
    <2>2. ExactTree(nodes, paths)
      BY <2>1 DEF ExactTree
    <2> QED
      BY <2>2, TreeInit DEF StatInv
  <1> QED
    BY <1>1, <1>2, StatNext, GameIsWellFormed, PTL DEF Spec
=============================================================================
