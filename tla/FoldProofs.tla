----------------------------- MODULE FoldProofs -----------------------------
(***************************************************************************)
(* What FoldLeft does, step by step, for sequences of any length.  The     *)
(* operator that is folded is a parameter: an INSTANCE of this module      *)
(* states the facts of a particular fold.  Its third argument stays the    *)
(* same from the first element to the last.                                *)
(***************************************************************************)
EXTENDS Integers, SequencesExt, SequenceTheorems, WellFoundedInduction, TLAPS

CONSTANT Op(_, _, _)

(* Every non-empty set of naturals has a least element. *)
LEMMA LeastNatural ==
    ASSUME NEW T \in SUBSET Nat, T # {}
    PROVE  \E n \in T : \A m \in T : n <= m
<1>1. PICK n \in T : \A m \in T : ~(<<m, n>> \in OpToRel(<, Nat))
  BY NatLessThanWellFounded, WFMin
<1>2. \A m \in T : ~(m < n)
  BY <1>1 DEF OpToRel
<1>3. QED
  BY <1>2

(* A set with 0 and the successor of each of its members, up to n, has all
   the naturals up to n.                                                   *)
LEMMA UpTo ==
    ASSUME NEW n \in Nat, NEW S, 0 \in S,
           \A k \in 0..n - 1 : k \in S => k + 1 \in S
    PROVE  0..n \subseteq S
<1> DEFINE T == {k \in 0..n : k \notin S}
<1>1. SUFFICES ASSUME T # {} PROVE FALSE
  OBVIOUS
<1>2. PICK k \in T : \A m \in T : k <= m
  <2>1. T \in SUBSET Nat
    OBVIOUS
  <2>2. QED
    BY <1>1, <2>1, LeastNatural
<1>3. k \in 0..n /\ k \notin S /\ k # 0
  OBVIOUS
<1>4. k - 1 \in 0..n - 1 /\ k - 1 \in 0..n /\ k - 1 \in S
  BY <1>2, <1>3
<1>5. (k - 1) + 1 \in S
  BY <1>4
<1>6. QED
  BY <1>3, <1>5

(* A set with the empty sequence and, with a sequence, every sequence that is
   longer by one element has all sequences.                                *)
LEMMA SequenceInduction ==
    ASSUME NEW T, NEW G, << >> \in G,
           \A s \in Seq(T), x \in T : s \in G => Append(s, x) \in G
    PROVE  Seq(T) \subseteq G
<1> SUFFICES ASSUME NEW seq \in Seq(T) PROVE seq \in G
  OBVIOUS
<1> DEFINE n == Len(seq)
           S == {k \in 0..n : \A s \in Seq(T) : Len(s) = k => s \in G}
<1>1. n \in Nat
  OBVIOUS
<1>2. 0 \in S
  BY <1>1
<1>3. ASSUME NEW k \in 0..n - 1, k \in S PROVE k + 1 \in S
  <2>1. ASSUME NEW s \in Seq(T), Len(s) = k + 1 PROVE s \in G
    <3>1. s # << >>
      BY <2>1, <1>1
    <3>2. PICK p \in Seq(T), x \in T : s = Append(p, x)
      BY <3>1, SequenceEmptyOrAppend
    <3>3. Len(p) = k
      BY <2>1, <3>2, <1>1
    <3>4. p \in G
      BY <1>3, <3>3
    <3>5. QED
      BY <3>2, <3>4
  <2>2. k + 1 \in 0..n
    BY <1>1
  <2>3. QED
    BY <2>1, <2>2
<1>4. 0..n \subseteq S
  <2> HIDE DEF S, n
  <2>1. QED
    BY <1>1, <1>2, <1>3, UpTo
<1>5. QED
  BY <1>1, <1>4

-----------------------------------------------------------------------------

(* The recursive function of MapThenFoldSet, over the subsets of 1..n. *)
IsIter(iter, base, c, seq, n) ==
    iter = [s \in SUBSET (1..n) |->
               IF s = {} THEN base
               ELSE Op(iter[s \ {Max(s)}], seq[Max(s)], c)]

LEMMA MaxOfUpTo ==
    ASSUME NEW n \in Nat \ {0}, NEW s \in SUBSET (1..n), n \in s
    PROVE  Max(s) = n
<1>1. \A y \in s : n >= y
  OBVIOUS
<1>2. \A x \in s : (\A y \in s : x >= y) => x = n
  OBVIOUS
<1>3. QED
  BY <1>1, <1>2 DEF Max

LEMMA IterExists ==
    ASSUME NEW base, NEW c, NEW seq, NEW n \in Nat
    PROVE  \E iter : IsIter(iter, base, c, seq, n)
<1> DEFINE S == {m \in 0..n : \E iter : IsIter(iter, base, c, seq, m)}
<1>1. 0 \in S
  <2> DEFINE iter == [s \in SUBSET (1..0) |-> base]
  <2>1. \A s \in SUBSET (1..0) : s = {}
    OBVIOUS
  <2>2. IsIter(iter, base, c, seq, 0)
    BY <2>1 DEF IsIter
  <2>3. QED
    BY <2>2
<1>2. ASSUME NEW m \in 0..n - 1, m \in S PROVE m + 1 \in S
  <2>1. PICK old : IsIter(old, base, c, seq, m)
    BY <1>2
  <2> DEFINE new == [s \in SUBSET (1..m + 1) |->
                        IF m + 1 \in s THEN Op(old[s \ {m + 1}], seq[m + 1], c)
                        ELSE old[s]]
             Step(f, s) == IF s = {} THEN base ELSE Op(f[s \ {Max(s)}], seq[Max(s)], c)
  <2>2. ASSUME NEW s \in SUBSET (1..m + 1) PROVE new[s] = Step(new, s)
    <3>1. CASE m + 1 \in s
      <4>1. Max(s) = m + 1
        BY <3>1, MaxOfUpTo
      <4>2. s \ {m + 1} \in SUBSET (1..m + 1) /\ m + 1 \notin s \ {m + 1}
        OBVIOUS
      <4>3. new[s \ {m + 1}] = old[s \ {m + 1}]
        BY <4>2
      <4>4. new[s] = Op(old[s \ {m + 1}], seq[m + 1], c)
        BY <3>1
      <4>5. QED
        BY <3>1, <4>1, <4>3, <4>4
    <3>2. CASE m + 1 \notin s
      <4>1. s \in SUBSET (1..m)
        BY <3>2
      <4>2. old[s] = Step(old, s)
        BY <2>1, <4>1 DEF IsIter
      <4>3. new[s] = old[s]
        BY <3>2
      <4>4. s \ {Max(s)} \in SUBSET (1..m + 1) /\ m + 1 \notin s \ {Max(s)}
        BY <3>2
      <4>5. new[s \ {Max(s)}] = old[s \ {Max(s)}]
        BY <4>4
      <4>6. QED
        BY <4>2, <4>3, <4>5
    <3>3. QED
      BY <3>1, <3>2
  <2>3. IsIter(new, base, c, seq, m + 1)
    <3> HIDE DEF Step
    <3>1. new = [s \in SUBSET (1..m + 1) |-> new[s]]
      OBVIOUS
    <3>2. new = [s \in SUBSET (1..m + 1) |-> Step(new, s)]
      <4> HIDE DEF new
      <4>1. QED
        BY <2>2, <3>1
    <3>3. QED
      BY <3>2 DEF IsIter, Step
  <2>4. QED
    BY <2>3
<1>3. n \in S
  <2> HIDE DEF S
  <2>1. 0..n \subseteq S
    BY <1>1, <1>2, UpTo
  <2>2. QED
    BY <2>1
<1>4. QED
  BY <1>3

Fold(base, c, seq) == FoldLeft(LAMBDA x, y : Op(x, y, c), base, seq)

(* A fold has intermediate results, each made of the one before it and the
   next element; the last one is the result.                               *)
IsRun(run, base, c, seq) ==
    /\ run = [k \in 0..Len(seq) |-> run[k]]
    /\ run[0] = base
    /\ \A k \in 1..Len(seq) : run[k] = Op(run[k - 1], seq[k], c)

LEMMA FoldRuns ==
    ASSUME NEW base, NEW c, NEW T, NEW seq \in Seq(T)
    PROVE  \E run : IsRun(run, base, c, seq) /\ Fold(base, c, seq) = run[Len(seq)]
<1> DEFINE n == Len(seq)
           iter == CHOOSE iter : IsIter(iter, base, c, seq, n)
           run == [k \in 0..n |-> iter[1..k]]
<1>1. n \in Nat /\ DOMAIN seq = 1..n
  OBVIOUS
<1>2. IsIter(iter, base, c, seq, n)
  BY <1>1, IterExists
<1>3. Fold(base, c, seq) = iter[1..n]
  BY <1>1 DEF Fold, FoldLeft, MapThenFoldSet, IsIter
<1> HIDE DEF iter
<1>4. ASSUME NEW s \in SUBSET (1..n)
      PROVE  iter[s] = IF s = {} THEN base ELSE Op(iter[s \ {Max(s)}], seq[Max(s)], c)
  BY <1>2 DEF IsIter
<1>5. run[0] = base
  <2>1. 1..0 = {} /\ {} \in SUBSET (1..n)
    OBVIOUS
  <2>2. run[0] = iter[1..0]
    BY <1>1
  <2>3. QED
    BY <1>4, <2>1, <2>2
<1>6. ASSUME NEW k \in 1..n PROVE run[k] = Op(run[k - 1], seq[k], c)
  <2>1. 1..k \in SUBSET (1..n) /\ 1..k # {} /\ k \in 1..k /\ k \in Nat \ {0}
    BY <1>1
  <2>2. Max(1..k) = k
    BY <2>1, MaxOfUpTo
  <2>3. (1..k) \ {k} = 1..k - 1
    BY <2>1
  <2>4. iter[1..k] = Op(iter[1..k - 1], seq[k], c)
    BY <1>4, <2>1, <2>2, <2>3
  <2>5. run[k] = iter[1..k] /\ run[k - 1] = iter[1..k - 1]
    BY <1>1, <2>1
  <2>6. QED
    BY <2>4, <2>5
<1>7. run = [k \in 0..n |-> run[k]] /\ run[n] = iter[1..n]
  BY <1>1
<1>8. QED
  <2> HIDE DEF run
  <2>1. IsRun(run, base, c, seq)
    BY <1>5, <1>6, <1>7 DEF IsRun
  <2>2. QED
    BY <1>3, <1>7, <2>1

LEMMA FoldEmpty == \A base, c : Fold(base, c, << >>) = base
<1> SUFFICES ASSUME NEW base, NEW c PROVE Fold(base, c, << >>) = base
  OBVIOUS
<1>1. << >> \in Seq({}) /\ Len(<< >>) = 0
  OBVIOUS
<1>2. PICK run : IsRun(run, base, c, << >>) /\ Fold(base, c, << >>) = run[0]
  BY <1>1, FoldRuns
<1>3. QED
  BY <1>2 DEF IsRun

LEMMA FoldAppend ==
    ASSUME NEW base, NEW c, NEW T, NEW seq \in Seq(T), NEW x \in T
    PROVE  Fold(base, c, Append(seq, x)) = Op(Fold(base, c, seq), x, c)
<1> DEFINE n == Len(seq)
           more == Append(seq, x)
<1>1. /\ n \in Nat /\ more \in Seq(T) /\ Len(more) = n + 1 /\ more[n + 1] = x
      /\ \A i \in 1..n : more[i] = seq[i]
  OBVIOUS
<1>2. PICK run : IsRun(run, base, c, seq) /\ Fold(base, c, seq) = run[n]
  BY FoldRuns
<1> HIDE DEF more
<1>3. PICK new : IsRun(new, base, c, more) /\ Fold(base, c, more) = new[n + 1]
  BY <1>1, FoldRuns
<1> DEFINE G == {k \in 0..n : new[k] = run[k]}
<1>4. 0 \in G
  BY <1>1, <1>2, <1>3 DEF IsRun
<1>5. ASSUME NEW k \in 0..n - 1, k \in G PROVE k + 1 \in G
  <2>1. k + 1 \in 1..n /\ k + 1 \in 1..n + 1 /\ (k + 1) - 1 = k /\ new[k] = run[k]
    BY <1>1, <1>5
  <2>2. run[k + 1] = Op(run[k], seq[k + 1], c)
    BY <1>2, <2>1 DEF IsRun
  <2>3. new[k + 1] = Op(new[k], more[k + 1], c)
    BY <1>1, <1>3, <2>1 DEF IsRun
  <2>4. more[k + 1] = seq[k + 1]
    BY <1>1, <2>1
  <2>5. QED
    BY <1>1, <2>1, <2>2, <2>3, <2>4
<1>6. 0..n \subseteq G
  <2> HIDE DEF G
  <2>1. QED
    BY <1>1, <1>4, <1>5, UpTo
<1>7. new[n] = run[n]
  BY <1>1, <1>6
<1>8. new[n + 1] = Op(new[n], more[n + 1], c)
  <2>1. n + 1 \in 1..Len(more) /\ (n + 1) - 1 = n
    BY <1>1
  <2>2. QED
    BY <1>3, <2>1 DEF IsRun
<1>9. QED
  BY <1>1, <1>2, <1>3, <1>7, <1>8 DEF more

LEMMA FoldOne == ASSUME NEW base, NEW c, NEW x PROVE Fold(base, c, <<x>>) = Op(base, x, c)
<1>1. << >> \in Seq({x}) /\ x \in {x} /\ Append(<< >>, x) = <<x>>
  OBVIOUS
<1>2. Fold(base, c, Append(<< >>, x)) = Op(Fold(base, c, << >>), x, c)
  BY <1>1, FoldAppend
<1>3. QED
  BY <1>1, <1>2, FoldEmpty

(* A fold over two sequences put together goes on with what the first gives. *)
LEMMA FoldConcat ==
    ASSUME NEW base, NEW c, NEW T, NEW p \in Seq(T), NEW q \in Seq(T)
    PROVE  Fold(base, c, p \o q) = Fold(Fold(base, c, p), c, q)
<1> DEFINE G == {s \in Seq(T) : Fold(base, c, p \o s) = Fold(Fold(base, c, p), c, s)}
<1>1. << >> \in G
  <2>1. << >> \in Seq(T) /\ p \o << >> = p
    OBVIOUS
  <2>2. QED
    BY <2>1, FoldEmpty
<1>2. ASSUME NEW s \in Seq(T), NEW x \in T, s \in G PROVE Append(s, x) \in G
  <2>1. Append(s, x) \in Seq(T) /\ p \o s \in Seq(T)
    BY AppendProperties, ConcatProperties
  <2>2. p \o Append(s, x) = Append(p \o s, x)
    OBVIOUS
  <2>3. Fold(base, c, Append(p \o s, x)) = Op(Fold(base, c, p \o s), x, c)
    BY <2>1, FoldAppend
  <2>4. Fold(Fold(base, c, p), c, Append(s, x)) = Op(Fold(Fold(base, c, p), c, s), x, c)
    BY FoldAppend
  <2>5. Fold(base, c, p \o s) = Fold(Fold(base, c, p), c, s)
    BY <1>2
  <2>6. Fold(base, c, p \o Append(s, x)) = Fold(Fold(base, c, p), c, Append(s, x))
    BY <2>2, <2>3, <2>4, <2>5
  <2>7. QED
    BY <2>1, <2>6
<1>3. Seq(T) \subseteq G
  <2> HIDE DEF G
  <2>1. QED
    BY <1>1, <1>2, SequenceInduction
<1>4. QED
  BY <1>3

LEMMA FoldHead ==
    ASSUME NEW base, NEW c, NEW T, NEW q \in Seq(T), q # << >>
    PROVE  Fold(base, c, q) = Fold(Op(base, Head(q), c), c, Tail(q))
<1>1. <<Head(q)>> \in Seq(T) /\ Tail(q) \in Seq(T) /\ q = <<Head(q)>> \o Tail(q)
  BY HeadTailProperties
<1>2. Fold(base, c, <<Head(q)>> \o Tail(q)) = Fold(Fold(base, c, <<Head(q)>>), c, Tail(q))
  <2> DEFINE h == <<Head(q)>>
             t == Tail(q)
  <2>1. h \in Seq(T) /\ t \in Seq(T)
    BY <1>1
  <2> HIDE DEF h, t
  <2>2. Fold(base, c, h \o t) = Fold(Fold(base, c, h), c, t)
    BY <2>1, FoldConcat
  <2>3. QED
    BY <2>2 DEF h, t
<1>3. QED
  BY <1>1, <1>2, FoldOne
=============================================================================
