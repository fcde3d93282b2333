--------------------------- MODULE TextInputProofs ---------------------------
(***************************************************************************)
(* What the templates and the text file do, for every template, every set  *)
(* of messages and any number of lines.                                    *)
(***************************************************************************)
EXTENDS TextInput, Integers, SequenceTheorems, FiniteSetTheorems, TLAPS

(* The two folds of Filled. *)
Slots == INSTANCE FoldProofs WITH Op <- FillSlot
Calls == INSTANCE FoldProofs WITH Op <- LAMBDA text, token, c : FillCall(text, token)

-----------------------------------------------------------------------------
(* FlattenSeq *)

(* The recursive function of FlattenSeq. *)
IsFlatten(f, seqs, n) ==
    f = [i \in 1..n |-> IF i = 1 THEN seqs[i] ELSE f[i - 1] \o seqs[i]]

LEMMA FlattenExists ==
    ASSUME NEW seqs, NEW n \in Nat
    PROVE  \E f : IsFlatten(f, seqs, n)
<1> DEFINE S == {m \in 0..n : \E f : IsFlatten(f, seqs, m)}
<1>1. 0 \in S
  <2>1. IsFlatten(<< >>, seqs, 0)
    BY DEF IsFlatten
  <2>2. QED
    BY <2>1
<1>2. ASSUME NEW m \in 0..n - 1, m \in S PROVE m + 1 \in S
  <2>1. PICK old : IsFlatten(old, seqs, m)
    BY <1>2
  <2> DEFINE new == [i \in 1..m + 1 |->
                        IF i = 1 THEN seqs[i] ELSE old[i - 1] \o seqs[i]]
             Step(f, i) == IF i = 1 THEN seqs[i] ELSE f[i - 1] \o seqs[i]
  <2>2. ASSUME NEW i \in 1..m PROVE new[i] = old[i]
    <3>1. old[i] = Step(old, i)
      BY <2>1 DEF IsFlatten
    <3>2. QED
      BY <3>1
  <2>3. ASSUME NEW i \in 1..m + 1 PROVE new[i] = Step(new, i)
    <3>1. CASE i = 1
      BY <3>1
    <3>2. CASE i # 1
      <4>1. i - 1 \in 1..m
        BY <3>2
      <4>2. new[i - 1] = old[i - 1]
        BY <2>2, <4>1
      <4> HIDE DEF Step
      <4>3. new[i] = old[i - 1] \o seqs[i]
        BY <3>2
      <4>4. QED
        BY <3>2, <4>2, <4>3 DEF Step
    <3>3. QED
      BY <3>1, <3>2
  <2>4. new = [i \in 1..m + 1 |-> new[i]]
    OBVIOUS
  <2>5. new = [i \in 1..m + 1 |-> Step(new, i)]
    <3> HIDE DEF Step, new
    <3>1. QED
      BY <2>3, <2>4
  <2>6. IsFlatten(new, seqs, m + 1)
    BY <2>5 DEF IsFlatten
  <2>7. m + 1 \in 0..n
    OBVIOUS
  <2>8. QED
    <3> HIDE DEF new
    <3>1. QED
      BY <2>6, <2>7
<1>3. 0..n \subseteq S
  <2> HIDE DEF S
  <2>1. QED
    BY <1>1, <1>2, Slots!UpTo
<1>4. QED
  BY <1>3

LEMMA FlattenIs ==
    ASSUME NEW T, NEW seqs \in Seq(T), seqs # << >>
    PROVE  \E f : IsFlatten(f, seqs, Len(seqs)) /\ FlattenSeq(seqs) = f[Len(seqs)]
<1> DEFINE f == CHOOSE f : IsFlatten(f, seqs, Len(seqs))
<1>1. Len(seqs) \in Nat /\ Len(seqs) # 0
  OBVIOUS
<1>2. IsFlatten(f, seqs, Len(seqs))
  BY <1>1, FlattenExists
<1>3. FlattenSeq(seqs) = f[Len(seqs)]
  BY <1>1 DEF FlattenSeq, IsFlatten
<1>4. QED
  <2> HIDE DEF f
  <2>1. QED
    BY <1>2, <1>3

LEMMA FlattenEmpty == FlattenSeq(<< >>) = << >>
  BY DEF FlattenSeq

LEMMA FlattenAppend ==
    ASSUME NEW T, NEW seqs \in Seq(Seq(T)), NEW s \in Seq(T)
    PROVE  FlattenSeq(Append(seqs, s)) = FlattenSeq(seqs) \o s
<1> DEFINE n == Len(seqs)
           more == Append(seqs, s)
<1>1. /\ more \in Seq(Seq(T)) /\ Len(more) = n + 1 /\ more # << >> /\ n \in Nat
      /\ more[n + 1] = s /\ \A i \in 1..n : more[i] = seqs[i]
  BY AppendProperties, LenProperties
<1>2. PICK g : IsFlatten(g, more, n + 1) /\ FlattenSeq(more) = g[n + 1]
  <2> HIDE DEF more
  <2>1. QED
    BY <1>1, FlattenIs
<1> HIDE DEF more
<1>3. \A i \in 1..n + 1 : g[i] = IF i = 1 THEN more[i] ELSE g[i - 1] \o more[i]
  BY <1>2 DEF IsFlatten
<1>4. CASE n = 0
  <2>1. seqs = << >> /\ g[1] = s
    BY <1>1, <1>3, <1>4
  <2>2. << >> \o s = s
    OBVIOUS
  <2>3. QED
    BY <1>1, <1>2, <1>4, <2>1, <2>2, FlattenEmpty DEF more
<1>5. CASE n # 0
  <2>1. PICK f : IsFlatten(f, seqs, n) /\ FlattenSeq(seqs) = f[n]
    BY <1>1, <1>5, FlattenIs
  <2>2. \A i \in 1..n : f[i] = IF i = 1 THEN seqs[i] ELSE f[i - 1] \o seqs[i]
    BY <2>1 DEF IsFlatten
  <2> DEFINE S == {k \in 0..n : k = 0 \/ f[k] = g[k]}
  <2>3. 0 \in S
    BY <1>1
  <2>4. ASSUME NEW k \in 0..n - 1, k \in S PROVE k + 1 \in S
    <3>1. k + 1 \in 1..n /\ k + 1 \in 1..n + 1 /\ (k + 1) - 1 = k
      BY <1>1
    <3>2. more[k + 1] = seqs[k + 1]
      BY <1>1, <3>1
    <3>3. f[k + 1] = IF k + 1 = 1 THEN seqs[k + 1] ELSE f[k] \o seqs[k + 1]
      BY <2>2, <3>1
    <3>4. g[k + 1] = IF k + 1 = 1 THEN more[k + 1] ELSE g[k] \o more[k + 1]
      BY <1>3, <3>1
    <3>5. k = 0 \/ f[k] = g[k]
      BY <2>4
    <3>6. f[k + 1] = g[k + 1]
      BY <3>2, <3>3, <3>4, <3>5
    <3>7. QED
      BY <1>1, <3>1, <3>6
  <2>5. 0..n \subseteq S
    <3> HIDE DEF S
    <3>1. QED
      BY <1>1, <2>3, <2>4, Slots!UpTo
  <2>6. f[n] = g[n]
    <3>1. n \in 0..n
      BY <1>1
    <3>2. n \in S
      BY <2>5, <3>1
    <3>3. QED
      BY <1>5, <3>2
  <2>7. g[n + 1] = g[n] \o s
    <3>1. n + 1 \in 1..n + 1 /\ n + 1 # 1 /\ (n + 1) - 1 = n
      BY <1>1, <1>5
    <3>2. QED
      BY <1>1, <1>3, <3>1
  <2>8. QED
    BY <1>2, <2>1, <2>6, <2>7 DEF more
<1>6. QED
  BY <1>4, <1>5

LEMMA FlattenType ==
    ASSUME NEW T, NEW seqs \in Seq(Seq(T))
    PROVE  FlattenSeq(seqs) \in Seq(T)
<1> DEFINE G == {q \in Seq(Seq(T)) : FlattenSeq(q) \in Seq(T)}
<1>1. << >> \in G
  BY FlattenEmpty, EmptySeq
<1>2. ASSUME NEW q \in Seq(Seq(T)), NEW s \in Seq(T), q \in G
      PROVE  Append(q, s) \in G
  <2>1. FlattenSeq(Append(q, s)) = FlattenSeq(q) \o s
    BY FlattenAppend
  <2>2. Append(q, s) \in Seq(Seq(T))
    BY AppendProperties
  <2>3. FlattenSeq(q) \o s \in Seq(T)
    BY <1>2, ConcatProperties
  <2>4. QED
    BY <2>1, <2>2, <2>3
<1>3. Seq(Seq(T)) \subseteq G
  <2> HIDE DEF G
  <2>1. QED
    BY <1>1, <1>2, Slots!SequenceInduction
<1>4. QED
  BY <1>3

(* Concatenation under a name of its own, which the provers do not unfold. *)
Cat(p, q) == p \o q

LEMMA CatIsGrouped ==
    ASSUME NEW T
    PROVE  \A p, q, r \in Seq(T) : Cat(Cat(p, q), r) = Cat(p, Cat(q, r))
<1> SUFFICES ASSUME NEW p \in Seq(T), NEW q \in Seq(T), NEW r \in Seq(T)
             PROVE  (p \o q) \o r = p \o (q \o r)
  BY DEF Cat
<1> QED
  BY ConcatAssociative, SMTT(30)

LEMMA CatProperties ==
    ASSUME NEW T
    PROVE  \A p, q \in Seq(T) :
               /\ Cat(p, q) \in Seq(T)
               /\ Len(Cat(p, q)) = Len(p) + Len(q)
               /\ \A i \in 1..Len(p) + Len(q) :
                      Cat(p, q)[i] = IF i <= Len(p) THEN p[i] ELSE q[i - Len(p)]
<1> SUFFICES ASSUME NEW p \in Seq(T), NEW q \in Seq(T)
             PROVE  /\ p \o q \in Seq(T)
                    /\ Len(p \o q) = Len(p) + Len(q)
                    /\ \A i \in 1..Len(p) + Len(q) :
                           (p \o q)[i] = IF i <= Len(p) THEN p[i] ELSE q[i - Len(p)]
  BY DEF Cat
<1> QED
  BY ConcatProperties

LEMMA FlattenConcat ==
    ASSUME NEW T, NEW p \in Seq(Seq(T)), NEW q \in Seq(Seq(T))
    PROVE  FlattenSeq(p \o q) = FlattenSeq(p) \o FlattenSeq(q)
<1> DEFINE F(z) == FlattenSeq(z)
           G == {z \in Seq(Seq(T)) : F(p \o z) = F(p) \o F(z)}
<1>0. \A z \in Seq(Seq(T)) : F(z) \in Seq(T)
  BY FlattenType
<1>1. << >> \in G
  <2>1. p \o << >> = p /\ F(<< >>) = << >>
    BY FlattenEmpty, ConcatEmptySeq
  <2>2. F(p) \o << >> = F(p)
    BY <1>0, ConcatEmptySeq
  <2>3. QED
    BY <2>1, <2>2, EmptySeq
<1>2. ASSUME NEW z \in Seq(Seq(T)), NEW s \in Seq(T), z \in G
      PROVE  Append(z, s) \in G
  <2>1. p \o Append(z, s) = Append(p \o z, s)
    OBVIOUS
  <2>2. p \o z \in Seq(Seq(T)) /\ Append(z, s) \in Seq(Seq(T))
    BY ConcatProperties, AppendProperties
  <2>3. \A y \in Seq(Seq(T)) : F(Append(y, s)) = F(y) \o s
    BY FlattenAppend
  <2>4. F(p \o Append(z, s)) = (F(p) \o F(z)) \o s
    BY <1>2, <2>1, <2>2, <2>3
  <2>5. F(Append(z, s)) = F(z) \o s
    BY <2>3
  <2>6. (F(p) \o F(z)) \o s = F(p) \o (F(z) \o s)
    <3>1. F(p) \in Seq(T) /\ F(z) \in Seq(T)
      BY <1>0
    <3>2. \A u, v, w \in Seq(T) : Cat(Cat(u, v), w) = Cat(u, Cat(v, w))
      BY CatIsGrouped
    <3> HIDE DEF F
    <3>3. Cat(Cat(F(p), F(z)), s) = Cat(F(p), Cat(F(z), s))
      BY <3>1, <3>2
    <3>4. QED
      BY <3>3 DEF Cat
  <2>7. QED
    BY <2>2, <2>4, <2>5, <2>6
<1>3. Seq(Seq(T)) \subseteq G
  <2> HIDE DEF G
  <2>1. QED
    BY <1>1, <1>2, Slots!SequenceInduction
<1>4. QED
  BY <1>3

(* A text cut into its tokens is the text. *)
LEMMA FlattenSingletons ==
    ASSUME NEW T, NEW text \in Seq(T)
    PROVE  FlattenSeq([i \in DOMAIN text |-> <<text[i]>>]) = text
<1> DEFINE Cut(t) == [i \in DOMAIN t |-> <<t[i]>>]
           G == {t \in Seq(T) : FlattenSeq(Cut(t)) = t}
<1>1. << >> \in G
  <2>1. Cut(<< >>) = << >>
    OBVIOUS
  <2>2. QED
    BY <2>1, FlattenEmpty, EmptySeq
<1>2. ASSUME NEW t \in Seq(T), NEW x \in T, t \in G
      PROVE  Append(t, x) \in G
  <2>1. Append(t, x) \in Seq(T) /\ Append(t, x) = t \o <<x>> /\ <<x>> \in Seq(T)
    BY AppendProperties, AppendIsConcat
  <2>2. Cut(t) \in Seq(Seq(T))
    <3>1. \A i \in DOMAIN t : <<t[i]>> \in Seq(T)
      OBVIOUS
    <3>2. DOMAIN t = 1..Len(t) /\ Len(t) \in Nat
      OBVIOUS
    <3>3. Cut(t) \in [1..Len(t) -> Seq(T)]
      BY <3>1, <3>2
    <3>4. QED
      BY <3>2, <3>3, SeqDef
  <2>3. Cut(Append(t, x)) = Append(Cut(t), <<x>>)
    OBVIOUS
  <2>4. QED
    BY <1>2, <2>1, <2>2, <2>3, FlattenAppend
<1>3. Seq(T) \subseteq G
  <2> HIDE DEF G
  <2>1. QED
    BY <1>1, <1>2, Slots!SequenceInduction
<1>4. QED
  BY <1>3

-----------------------------------------------------------------------------
(* Replace *)

(* What a token becomes, and the parts a text is put together from. *)
PartOf(x, token, by) == IF x = token THEN by ELSE <<x>>
PartsOf(text, token, by) == [i \in DOMAIN text |-> PartOf(text[i], token, by)]

LEMMA PartsType ==
    ASSUME NEW T, NEW text \in Seq(T), NEW token, NEW by \in Seq(T)
    PROVE  PartsOf(text, token, by) \in Seq(Seq(T))
<1>1. DOMAIN text = 1..Len(text) /\ Len(text) \in Nat
  OBVIOUS
<1>2. \A i \in DOMAIN text : PartOf(text[i], token, by) \in Seq(T)
  BY DEF PartOf
<1>3. PartsOf(text, token, by) \in [1..Len(text) -> Seq(T)]
  BY <1>1, <1>2 DEF PartsOf
<1>4. QED
  BY <1>1, <1>3, SeqDef

LEMMA ReplaceIs ==
    ASSUME NEW text, NEW token, NEW by
    PROVE  Replace(text, token, by) = FlattenSeq(PartsOf(text, token, by))
  BY DEF Replace, PartsOf, PartOf

LEMMA ReplaceType ==
    ASSUME NEW T, NEW text \in Seq(T), NEW token, NEW by \in Seq(T)
    PROVE  Replace(text, token, by) \in Seq(T)
  BY ReplaceIs, PartsType, FlattenType

LEMMA ReplaceEmpty ==
    ASSUME NEW token, NEW by
    PROVE  Replace(<< >>, token, by) = << >>
<1>1. PartsOf(<< >>, token, by) = << >>
  BY DEF PartsOf
<1>2. QED
  BY <1>1, ReplaceIs, FlattenEmpty

LEMMA ReplaceAppend ==
    ASSUME NEW T, NEW text \in Seq(T), NEW x \in T, NEW token, NEW by \in Seq(T)
    PROVE  Replace(Append(text, x), token, by)
               = Replace(text, token, by) \o PartOf(x, token, by)
<1>1. PartsOf(Append(text, x), token, by)
          = Append(PartsOf(text, token, by), PartOf(x, token, by))
  BY DEF PartsOf
<1>2. PartOf(x, token, by) \in Seq(T) /\ PartsOf(text, token, by) \in Seq(Seq(T))
  BY PartsType DEF PartOf
<1>3. QED
  BY <1>1, <1>2, ReplaceIs, FlattenAppend

LEMMA PartsConcat ==
    ASSUME NEW T, NEW a \in Seq(T), NEW b \in Seq(T), NEW token, NEW by \in Seq(T)
    PROVE  PartsOf(a \o b, token, by) = PartsOf(a, token, by) \o PartsOf(b, token, by)
<1> DEFINE P(t) == PartsOf(t, token, by)
           U == Seq(T)
<1>0. \A t \in Seq(T) : P(t) \in Seq(U)
  BY PartsType
<1> HIDE DEF U
<1>1. /\ Cat(a, b) \in Seq(T) /\ Len(Cat(a, b)) = Len(a) + Len(b)
      /\ \A i \in 1..Len(a) + Len(b) :
             Cat(a, b)[i] = IF i <= Len(a) THEN a[i] ELSE b[i - Len(a)]
  BY CatProperties
<1>2. \A t \in Seq(T) : P(t) \in Seq(U) /\ Len(P(t)) = Len(t)
  <2>1. SUFFICES ASSUME NEW t \in Seq(T) PROVE Len(P(t)) = Len(t)
    BY <1>0
  <2>2. DOMAIN P(t) = 1..Len(t) /\ DOMAIN P(t) = 1..Len(P(t))
    BY <1>0, LenProperties DEF PartsOf
  <2>3. Len(t) \in Nat /\ Len(P(t)) \in Nat
    BY <1>0, LenProperties
  <2>4. QED
    BY <2>2, <2>3
<1>3. \A t \in Seq(T) : \A i \in 1..Len(t) : P(t)[i] = PartOf(t[i], token, by)
  BY DEF PartsOf
<1> HIDE DEF P
<1>4. /\ Cat(P(a), P(b)) \in Seq(U) /\ Len(Cat(P(a), P(b))) = Len(a) + Len(b)
      /\ \A i \in 1..Len(a) + Len(b) :
             Cat(P(a), P(b))[i] = IF i <= Len(a) THEN P(a)[i] ELSE P(b)[i - Len(a)]
  <2>1. P(a) \in Seq(U) /\ P(b) \in Seq(U) /\ Len(P(a)) = Len(a) /\ Len(P(b)) = Len(b)
    BY <1>2
  <2>2. /\ Cat(P(a), P(b)) \in Seq(U) /\ Len(Cat(P(a), P(b))) = Len(P(a)) + Len(P(b))
        /\ \A i \in 1..Len(P(a)) + Len(P(b)) :
               Cat(P(a), P(b))[i] = IF i <= Len(P(a)) THEN P(a)[i]
                                                      ELSE P(b)[i - Len(P(a))]
    BY <2>1, CatProperties
  <2>3. QED
    BY <2>1, <2>2
<1>5. ASSUME NEW i \in 1..Len(a) + Len(b) PROVE P(Cat(a, b))[i] = Cat(P(a), P(b))[i]
  <2>1. P(Cat(a, b))[i] = PartOf(Cat(a, b)[i], token, by)
    BY <1>1, <1>3
  <2>2. CASE i <= Len(a)
    <3>1. i \in 1..Len(a)
      BY <2>2
    <3>2. QED
      BY <1>1, <1>3, <1>4, <2>1, <2>2, <3>1
  <2>3. CASE ~(i <= Len(a))
    <3>1. i - Len(a) \in 1..Len(b)
      BY <2>3
    <3>2. QED
      BY <1>1, <1>3, <1>4, <2>1, <2>3, <3>1
  <2>4. QED
    BY <2>2, <2>3
<1>6. Len(P(Cat(a, b))) = Len(Cat(P(a), P(b))) /\ P(Cat(a, b)) \in Seq(U)
  BY <1>1, <1>2, <1>4
<1>7. P(Cat(a, b)) = Cat(P(a), P(b))
  BY <1>1, <1>4, <1>5, <1>6, SeqEqual
<1>8. QED
  BY <1>7 DEF P, Cat

(* The tokens of two texts put together are replaced one text at a time. *)
LEMMA ReplaceConcat ==
    ASSUME NEW T, NEW a \in Seq(T), NEW b \in Seq(T), NEW token, NEW by \in Seq(T)
    PROVE  Replace(a \o b, token, by) = Replace(a, token, by) \o Replace(b, token, by)
<1>1. \A t \in Seq(T) : PartsOf(t, token, by) \in Seq(Seq(T))
  BY PartsType
<1>2. PartsOf(a \o b, token, by) = PartsOf(a, token, by) \o PartsOf(b, token, by)
  BY PartsConcat
<1>3. FlattenSeq(PartsOf(a, token, by) \o PartsOf(b, token, by))
          = FlattenSeq(PartsOf(a, token, by)) \o FlattenSeq(PartsOf(b, token, by))
  BY <1>1, FlattenConcat
<1>4. QED
  BY <1>2, <1>3, ReplaceIs

(* A token that is not in the text changes nothing. *)
LEMMA ReplaceAbsent ==
    ASSUME NEW T, NEW text \in Seq(T), NEW token, NEW by,
           \A i \in DOMAIN text : text[i] # token
    PROVE  Replace(text, token, by) = text
<1>1. PartsOf(text, token, by) = [i \in DOMAIN text |-> <<text[i]>>]
  BY DEF PartsOf, PartOf
<1>2. QED
  BY <1>1, ReplaceIs, FlattenSingletons

LEMMA ReplaceSingle ==
    ASSUME NEW T, NEW x \in T, NEW token, NEW by \in Seq(T)
    PROVE  Replace(<<x>>, token, by) = PartOf(x, token, by)
<1>1. << >> \in Seq(T) /\ Append(<< >>, x) = <<x>>
  OBVIOUS
<1>2. PartOf(x, token, by) \in Seq(T)
  BY DEF PartOf
<1>3. << >> \o PartOf(x, token, by) = PartOf(x, token, by)
  BY <1>2
<1>4. Replace(Append(<< >>, x), token, by)
          = Replace(<< >>, token, by) \o PartOf(x, token, by)
  <2>1. \A q \in Seq(T) : Replace(Append(q, x), token, by)
                              = Replace(q, token, by) \o PartOf(x, token, by)
    BY ReplaceAppend
  <2>2. QED
    BY <1>1, <2>1
<1>5. Replace(<< >>, token, by) = << >>
  BY ReplaceEmpty
<1>6. QED
  BY <1>1, <1>3, <1>4, <1>5

(* In a text put together from parts, a token is replaced part by part. *)
LEMMA ReplaceInParts ==
    ASSUME NEW T, NEW parts \in Seq(Seq(T)), NEW token, NEW by \in Seq(T)
    PROVE  Replace(FlattenSeq(parts), token, by)
               = FlattenSeq([i \in DOMAIN parts |-> Replace(parts[i], token, by)])
<1> DEFINE R(t) == Replace(t, token, by)
           Each(q) == [i \in DOMAIN q |-> R(q[i])]
           G == {q \in Seq(Seq(T)) : R(FlattenSeq(q)) = FlattenSeq(Each(q))}
<1>0. \A t \in Seq(T) : R(t) \in Seq(T)
  BY ReplaceType
<1>1. << >> \in G
  <2>1. Each(<< >>) = << >>
    OBVIOUS
  <2>2. QED
    BY <2>1, FlattenEmpty, ReplaceEmpty, EmptySeq
<1>2. ASSUME NEW q \in Seq(Seq(T)), NEW s \in Seq(T), q \in G
      PROVE  Append(q, s) \in G
  <2>1. Append(q, s) \in Seq(Seq(T))
    BY AppendProperties
  <2>2. Each(Append(q, s)) = Append(Each(q), R(s))
    <3> HIDE DEF R
    <3>1. QED
      OBVIOUS
  <2>3. Each(q) \in Seq(Seq(T))
    <3>1. DOMAIN q = 1..Len(q) /\ Len(q) \in Nat
      BY LenProperties
    <3>2. \A i \in DOMAIN q : q[i] \in Seq(T)
      BY <3>1, ElementOfSeq
    <3>3. Each(q) \in [1..Len(q) -> Seq(T)]
      <4> HIDE DEF R
      <4>1. QED
        BY <1>0, <3>1, <3>2
    <3>4. QED
      BY <3>1, <3>3, SeqDef
  <2>4. FlattenSeq(Append(Each(q), R(s))) = FlattenSeq(Each(q)) \o R(s)
    <3> HIDE DEF R, Each
    <3>1. QED
      BY <1>0, <2>3, FlattenAppend
  <2>5. R(FlattenSeq(Append(q, s))) = R(FlattenSeq(q)) \o R(s)
    <3>1. FlattenSeq(Append(q, s)) = FlattenSeq(q) \o s /\ FlattenSeq(q) \in Seq(T)
      BY FlattenAppend, FlattenType
    <3>2. QED
      BY <3>1, ReplaceConcat
  <2>6. QED
    BY <1>2, <2>1, <2>2, <2>4, <2>5
<1>3. Seq(Seq(T)) \subseteq G
  <2> HIDE DEF G
  <2>1. QED
    BY <1>1, <1>2, Slots!SequenceInduction
<1>4. QED
  BY <1>3

-----------------------------------------------------------------------------
(* Filling a template *)

(* T has every token of the template and of the values that go into it. *)
Suits(template, message, T) ==
    /\ template \in Seq(T) /\ Quote \in T /\ Now \in T
    /\ \A label \in Labels(template) :
           IF message.values[label].type = "string"
           THEN message.values[label].text \in Seq(T)
           ELSE Number(message.values[label].num) \in T

(* What a message fills in: the slots it has a value for, and the calls. *)
IsFillable(token, message) ==
    \/ IsSlot(token) /\ message.values[token[2]].type # "null"
    \/ token = Call("TS")

(* The template with the tokens of S filled in. *)
FilledParts(template, message, S) ==
    [i \in DOMAIN template |-> IF template[i] \in S THEN Expansion(template[i], message)
                                                    ELSE <<template[i]>>]
FilledIn(template, message, S) == FlattenSeq(FilledParts(template, message, S))

LEMMA ExpansionType ==
    ASSUME NEW template, NEW message, NEW T, Suits(template, message, T),
           NEW i \in DOMAIN template
    PROVE  Expansion(template[i], message) \in Seq(T)
<1>1. CASE IsSlot(template[i])
  <2>1. template[i][2] \in Labels(template)
    BY <1>1 DEF Labels
  <2> DEFINE value == message.values[template[i][2]]
  <2>2. Written(value) \in Seq(T)
    <3>1. CASE value.type = "string"
      <4>1. value.text \in Seq(T) /\ <<Quote>> \in Seq(T)
        BY <2>1, <3>1 DEF Suits
      <4>2. <<Quote>> \o value.text \o <<Quote>> \in Seq(T)
        BY <4>1
      <4>3. QED
        BY <3>1, <4>2 DEF Written
    <3>2. CASE value.type # "string"
      BY <2>1, <3>2 DEF Suits, Written
    <3>3. QED
      BY <3>1, <3>2
  <2>3. QED
    BY <1>1, <2>2 DEF Expansion
<1>2. CASE ~IsSlot(template[i])
  BY <1>2 DEF Expansion, Suits
<1>3. QED
  BY <1>1, <1>2

LEMMA FilledPartsType ==
    ASSUME NEW template, NEW message, NEW T, Suits(template, message, T), NEW S
    PROVE  FilledParts(template, message, S) \in Seq(Seq(T))
<1>1. DOMAIN template = 1..Len(template) /\ Len(template) \in Nat
  BY DEF Suits
<1>2. \A i \in DOMAIN template : <<template[i]>> \in Seq(T)
  BY DEF Suits
<1>3. \A i \in DOMAIN template : Expansion(template[i], message) \in Seq(T)
  BY ExpansionType
<1>4. FilledParts(template, message, S) \in [1..Len(template) -> Seq(T)]
  BY <1>1, <1>2, <1>3 DEF FilledParts
<1>5. QED
  BY <1>1, <1>4, SeqDef

(* No slot and no call of the template comes in with a value. *)
LEMMA NothingComesIn ==
    ASSUME NEW template, NEW message, NEW T, Suits(template, message, T),
           message.kind = "json", IsPlain(template, message),
           NEW i \in DOMAIN template, IsFillable(template[i], message),
           NEW j \in DOMAIN template, IsFillable(template[j], message)
    PROVE  \A k \in DOMAIN Expansion(template[i], message) :
               Expansion(template[i], message)[k] # template[j]
<1>0. template[j][1] \in {"slot", "call"}
  BY DEF IsFillable, IsSlot, Call
<1>1. template[j] # Quote /\ template[j] # Now /\ \A n : template[j] # Number(n)
  BY <1>0 DEF Quote, Now, Mark, Number
<1>2. CASE IsSlot(template[i])
  <2> DEFINE label == template[i][2]
             value == message.values[label]
  <2>1. label \in Labels(template)
    BY <1>2 DEF Labels
  <2>2. Expansion(template[i], message) = Written(value)
    BY <1>2 DEF Expansion
  <2>3. CASE value.type = "string"
    <3>1. value.text \in Seq(T)
      BY <2>1, <2>3 DEF Suits
    <3>2. \A k \in DOMAIN value.text : value.text[k] # template[j]
      <4>1. SUFFICES ASSUME NEW k \in DOMAIN value.text, value.text[k] = template[j]
                     PROVE  FALSE
        OBVIOUS
      <4>2. ~Contains(template, value.text[k]) \/ value.text[k][1] = "mark"
        BY <2>1, <2>3 DEF IsPlain
      <4>3. Contains(template, template[j])
        BY DEF Contains, Suits
      <4>4. QED
        BY <1>0, <4>1, <4>2, <4>3
    <3>3. Written(value) = <<Quote>> \o value.text \o <<Quote>>
      BY <2>3 DEF Written
    <3> DEFINE t == value.text
    <3>4. \A k \in DOMAIN (<<Quote>> \o t \o <<Quote>>) :
              \/ (<<Quote>> \o t \o <<Quote>>)[k] = Quote
              \/ \E m \in DOMAIN t : (<<Quote>> \o t \o <<Quote>>)[k] = t[m]
      <4> HIDE DEF t
      <4>1. t \in Seq(T) /\ Quote \in T
        BY <3>1 DEF Suits, t
      <4> HIDE DEF value
      <4>2. SUFFICES ASSUME NEW q, q \in T
                     PROVE  \A k \in DOMAIN (<<q>> \o t \o <<q>>) :
                                \/ (<<q>> \o t \o <<q>>)[k] = q
                                \/ \E m \in DOMAIN t : (<<q>> \o t \o <<q>>)[k] = t[m]
        BY <4>1
      <4>3. SUFFICES ASSUME NEW k \in DOMAIN (<<q>> \o t \o <<q>>)
                     PROVE  \/ (<<q>> \o t \o <<q>>)[k] = q
                            \/ \E m \in DOMAIN t : (<<q>> \o t \o <<q>>)[k] = t[m]
        OBVIOUS
      <4>4. Len(t) \in Nat /\ DOMAIN t = 1..Len(t) /\ k \in 1..Len(t) + 2
        BY <4>1
      <4>5. CASE k = 1 \/ k = Len(t) + 2
        BY <4>1, <4>2, <4>4, <4>5
      <4>6. CASE k \in 2..Len(t) + 1
        BY <4>1, <4>2, <4>4, <4>6
      <4>7. QED
        BY <4>4, <4>5, <4>6
    <3>5. Expansion(template[i], message) = <<Quote>> \o t \o <<Quote>>
      BY <2>2, <3>3
    <3>6. ASSUME NEW k \in DOMAIN (<<Quote>> \o t \o <<Quote>>)
          PROVE  (<<Quote>> \o t \o <<Quote>>)[k] # template[j]
      <4> DEFINE whole == <<Quote>> \o t \o <<Quote>>
      <4>1. whole[k] = Quote \/ \E m \in DOMAIN t : whole[k] = t[m]
        BY <3>4
      <4>2. \A m \in DOMAIN t : t[m] # template[j]
        BY <3>2
      <4> HIDE DEF whole, t
      <4>3. whole[k] # template[j]
        BY <1>1, <4>1, <4>2
      <4>4. QED
        BY <4>3 DEF whole
    <3> HIDE DEF t, value
    <3>7. QED
      BY <3>5, <3>6
  <2>4. CASE value.type # "string"
    BY <1>1, <2>2, <2>4 DEF Written
  <2>5. QED
    BY <2>3, <2>4
<1>3. CASE ~IsSlot(template[i])
  BY <1>1, <1>3 DEF IsFillable, Expansion
<1>4. QED
  BY <1>2, <1>3

(* Replacing one more token of the template, on the text so far, fills it in. *)
LEMMA FillOne ==
    ASSUME NEW template, NEW message, NEW T, Suits(template, message, T),
           message.kind = "json", IsPlain(template, message),
           NEW S, \A token \in S : IsFillable(token, message),
           NEW j \in DOMAIN template, IsFillable(template[j], message)
    PROVE  Replace(FilledIn(template, message, S), template[j],
                   Expansion(template[j], message))
               = FilledIn(template, message, S \cup {template[j]})
<1> DEFINE token == template[j]
           by == Expansion(token, message)
           parts == FilledParts(template, message, S)
           more == FilledParts(template, message, S \cup {token})
<1>1. by \in Seq(T) /\ parts \in Seq(Seq(T)) /\ DOMAIN parts = DOMAIN template
  <2>1. by \in Seq(T)
    BY ExpansionType
  <2>2. parts \in Seq(Seq(T))
    BY FilledPartsType
  <2>3. DOMAIN parts = DOMAIN template
    BY DEF FilledParts
  <2>4. QED
    BY <2>1, <2>2, <2>3
<1>2. ASSUME NEW i \in DOMAIN template
      PROVE  Replace(parts[i], token, by) = more[i]
  <2>1. CASE template[i] \in S
    <3> DEFINE e == Expansion(template[i], message)
    <3>1. parts[i] = e /\ more[i] = e
      BY <2>1 DEF FilledParts
    <3>2. e \in Seq(T)
      BY ExpansionType
    <3>3. \A k \in DOMAIN e : e[k] # token
      BY <2>1, NothingComesIn
    <3> HIDE DEF e, token, by
    <3>4. Replace(e, token, by) = e
      BY <3>2, <3>3, ReplaceAbsent
    <3>5. QED
      BY <3>1, <3>4
  <2>2. CASE template[i] \notin S
    <3>1. parts[i] = <<template[i]>> /\ template[i] \in T
      BY <2>2 DEF FilledParts, Suits
    <3>2. Replace(<<template[i]>>, token, by) = PartOf(template[i], token, by)
      <4> HIDE DEF token, by
      <4>1. QED
        BY <1>1, <3>1, ReplaceSingle
    <3>3. more[i] = PartOf(template[i], token, by)
      BY <2>2 DEF FilledParts, PartOf
    <3>4. QED
      BY <3>1, <3>2, <3>3
  <2>3. QED
    BY <2>1, <2>2
<1>3. Replace(FlattenSeq(parts), token, by)
          = FlattenSeq([i \in DOMAIN parts |-> Replace(parts[i], token, by)])
  <2> HIDE DEF parts, token, by
  <2>1. QED
    BY <1>1, ReplaceInParts
<1>4. [i \in DOMAIN parts |-> Replace(parts[i], token, by)] = more
  <2>1. more = [i \in DOMAIN template |-> more[i]]
    BY DEF FilledParts
  <2> HIDE DEF parts, token, by, more
  <2>2. QED
    BY <1>1, <1>2, <2>1
<1>5. QED
  BY <1>3, <1>4 DEF FilledIn

LEMMA NothingFilled ==
    ASSUME NEW template, NEW message, NEW T, Suits(template, message, T)
    PROVE  FilledIn(template, message, {}) = template
<1>1. FilledParts(template, message, {}) = [i \in DOMAIN template |-> <<template[i]>>]
  BY DEF FilledParts
<1>2. QED
  BY <1>1, FlattenSingletons DEF FilledIn, Suits

(* What becomes of a token: a slot without a value stays where it is. *)
Filling(token, message) ==
    IF IsFillable(token, message) THEN Expansion(token, message) ELSE <<token>>
Result(template, message) ==
    FlattenSeq([i \in DOMAIN template |-> Filling(template[i], message)])

LEMMA AllFilled ==
    ASSUME NEW template, NEW message, NEW S,
           \A i \in DOMAIN template : template[i] \in S <=> IsFillable(template[i], message)
    PROVE  FilledIn(template, message, S) = Result(template, message)
<1>1. FilledParts(template, message, S)
          = [i \in DOMAIN template |-> Filling(template[i], message)]
  BY DEF FilledParts, Filling
<1>2. QED
  BY <1>1 DEF FilledIn, Result

(* The tokens of a kind among the first k of the template. *)
SlotsUpTo(template, message, k) ==
    {template[i] : i \in {n \in 1..k :
         IsSlot(template[n]) /\ message.values[template[n][2]].type # "null"}}
CallsUpTo(template, k) ==
    {template[i] : i \in {n \in 1..k : template[n] = Call("TS")}}

LEMMA SlotsAreFilled ==
    ASSUME NEW template, NEW message, NEW T, Suits(template, message, T),
           message.kind = "json", IsPlain(template, message)
    PROVE  FoldLeft(LAMBDA text, token : FillSlot(text, token, message),
                    template, template)
               = FilledIn(template, message, SlotsUpTo(template, message, Len(template)))
<1> DEFINE n == Len(template)
           In(k) == FilledIn(template, message, SlotsUpTo(template, message, k))
<1>0. n \in Nat /\ DOMAIN template = 1..n
  BY DEF Suits
<1>1. PICK run : /\ Slots!IsRun(run, template, message, template)
                 /\ Slots!Fold(template, message, template) = run[n]
  BY Slots!FoldRuns DEF Suits
<1>2. Slots!Fold(template, message, template)
          = FoldLeft(LAMBDA text, token : FillSlot(text, token, message),
                     template, template)
  BY DEF Slots!Fold, FoldLeft, MapThenFoldSet, Slots!FoldLeft, Slots!MapThenFoldSet,
         Max, Slots!Max
<1> DEFINE G == {k \in 0..n : run[k] = In(k)}
<1>3. 0 \in G
  <2>1. SlotsUpTo(template, message, 0) = {}
    BY DEF SlotsUpTo
  <2>2. run[0] = template
    BY <1>1 DEF Slots!IsRun
  <2>3. run[0] = In(0)
    BY <2>1, <2>2, NothingFilled
  <2> HIDE DEF In
  <2>4. QED
    BY <1>0, <2>3
<1>4. ASSUME NEW k \in 0..n - 1, k \in G PROVE k + 1 \in G
  <2>1. k + 1 \in 1..n /\ k + 1 \in DOMAIN template /\ run[k] = In(k)
    BY <1>0, <1>4
  <2>2. run[k + 1] = FillSlot(run[k], template[k + 1], message)
    <3>1. \A m \in 1..n : run[m] = FillSlot(run[m - 1], template[m], message)
      BY <1>1 DEF Slots!IsRun
    <3>2. k + 1 \in 1..n /\ (k + 1) - 1 = k
      BY <1>0
    <3>3. QED
      BY <3>1, <3>2
  <2> DEFINE has == /\ IsSlot(template[k + 1])
                    /\ message.values[template[k + 1][2]].type # "null"
  <2>3. CASE ~has
    <3>1. run[k + 1] = run[k]
      BY <2>2, <2>3 DEF FillSlot
    <3>2. SlotsUpTo(template, message, k + 1) = SlotsUpTo(template, message, k)
      BY <1>0, <2>3 DEF SlotsUpTo
    <3>3. run[k + 1] = In(k + 1)
      BY <2>1, <3>1, <3>2
    <3> HIDE DEF In
    <3>4. QED
      BY <1>0, <2>1, <3>3
  <2>4. CASE has
    <3>1. run[k + 1] = Replace(run[k], template[k + 1],
                               Expansion(template[k + 1], message))
      BY <2>1, <2>2, <2>4 DEF FillSlot, Expansion
    <3>2. SlotsUpTo(template, message, k + 1)
              = SlotsUpTo(template, message, k) \cup {template[k + 1]}
      BY <1>0, <2>1, <2>4 DEF SlotsUpTo
    <3>3. \A token \in SlotsUpTo(template, message, k) : IsFillable(token, message)
      BY DEF SlotsUpTo, IsFillable
    <3>4. Replace(In(k), template[k + 1], Expansion(template[k + 1], message)) = In(k + 1)
      BY <2>1, <2>4, <3>2, <3>3, FillOne DEF IsFillable
    <3>5. run[k + 1] = In(k + 1)
      BY <2>1, <3>1, <3>4
    <3> HIDE DEF In
    <3>6. QED
      BY <1>0, <2>1, <3>5
  <2>5. QED
    BY <2>3, <2>4
<1>5. 0..n \subseteq G
  <2> HIDE DEF G
  <2>1. QED
    BY <1>0, <1>3, <1>4, Slots!UpTo
<1>6. n \in G
  BY <1>0, <1>5
<1>7. QED
  BY <1>1, <1>2, <1>6

LEMMA CallsAreFilled ==
    ASSUME NEW template, NEW message, NEW T, Suits(template, message, T),
           message.kind = "json", IsPlain(template, message),
           NEW text, text = FilledIn(template, message, SlotsUpTo(template, message, Len(template)))
    PROVE  FoldLeft(FillCall, text, template) = Result(template, message)
<1> DEFINE n == Len(template)
           S == SlotsUpTo(template, message, n)
           In(k) == FilledIn(template, message, S \cup CallsUpTo(template, k))
<1>0. n \in Nat /\ DOMAIN template = 1..n
  BY DEF Suits
<1>1. PICK run : /\ Calls!IsRun(run, text, message, template)
                 /\ Calls!Fold(text, message, template) = run[n]
  BY Calls!FoldRuns DEF Suits
<1>2. Calls!Fold(text, message, template) = FoldLeft(FillCall, text, template)
  BY DEF Calls!Fold, FoldLeft, MapThenFoldSet, Calls!FoldLeft, Calls!MapThenFoldSet,
         Max, Calls!Max
<1> DEFINE G == {k \in 0..n : run[k] = In(k)}
<1>3. 0 \in G
  <2>1. CallsUpTo(template, 0) = {}
    BY DEF CallsUpTo
  <2>2. S \cup CallsUpTo(template, 0) = S
    BY <2>1
  <2>3. run[0] = text
    BY <1>1 DEF Calls!IsRun
  <2>4. run[0] = In(0)
    BY <2>2, <2>3
  <2> HIDE DEF In
  <2>5. QED
    BY <1>0, <2>4
<1>4. ASSUME NEW k \in 0..n - 1, k \in G PROVE k + 1 \in G
  <2>1. k + 1 \in 1..n /\ k + 1 \in DOMAIN template /\ run[k] = In(k)
    BY <1>0, <1>4
  <2>2. run[k + 1] = FillCall(run[k], template[k + 1])
    BY <1>0, <1>1, <2>1 DEF Calls!IsRun
  <2>3. CASE template[k + 1] # Call("TS")
    <3>1. run[k + 1] = run[k]
      BY <2>2, <2>3 DEF FillCall
    <3>2. CallsUpTo(template, k + 1) = CallsUpTo(template, k)
      BY <1>0, <2>3 DEF CallsUpTo
    <3>3. run[k + 1] = In(k + 1)
      BY <2>1, <3>1, <3>2
    <3> HIDE DEF In
    <3>4. QED
      BY <1>0, <2>1, <3>3
  <2>4. CASE template[k + 1] = Call("TS")
    <3>0. ~IsSlot(template[k + 1])
      BY <2>4 DEF IsSlot, Call
    <3>1. run[k + 1] = Replace(run[k], template[k + 1],
                               Expansion(template[k + 1], message))
      BY <2>1, <2>2, <2>4, <3>0 DEF FillCall, Expansion
    <3>2. S \cup CallsUpTo(template, k + 1)
              = (S \cup CallsUpTo(template, k)) \cup {template[k + 1]}
      BY <1>0, <2>1, <2>4 DEF CallsUpTo
    <3>3. \A token \in S \cup CallsUpTo(template, k) : IsFillable(token, message)
      BY DEF SlotsUpTo, CallsUpTo, IsFillable
    <3>4. Replace(In(k), template[k + 1], Expansion(template[k + 1], message)) = In(k + 1)
      BY <2>1, <2>4, <3>2, <3>3, FillOne DEF IsFillable
    <3>5. run[k + 1] = In(k + 1)
      BY <2>1, <3>1, <3>4
    <3> HIDE DEF In
    <3>6. QED
      BY <1>0, <2>1, <3>5
  <2>5. QED
    BY <2>3, <2>4
<1>5. 0..n \subseteq G
  <2> HIDE DEF G
  <2>1. QED
    BY <1>0, <1>3, <1>4, Calls!UpTo
<1>6. run[n] = In(n)
  <2>1. n \in 0..n
    BY <1>0
  <2> HIDE DEF In, n
  <2>2. QED
    BY <1>5, <2>1
<1>7. In(n) = Result(template, message)
  <2>1. \A i \in DOMAIN template :
            template[i] \in S \cup CallsUpTo(template, n) <=> IsFillable(template[i], message)
    BY <1>0 DEF SlotsUpTo, CallsUpTo, IsFillable
  <2>2. QED
    BY <2>1, AllFilled
<1>8. QED
  BY <1>1, <1>2, <1>6, <1>7

(* Replacing the slots one after the other in the text so far and then the
   calls is replacing all of them at once, those left out that have no value. *)
LEMMA FilledIs ==
    ASSUME NEW template, NEW message, NEW T, Suits(template, message, T),
           message.kind = "json", IsPlain(template, message)
    PROVE  Filled(template, message) = Result(template, message)
<1> DEFINE slots == FoldLeft(LAMBDA text, token : FillSlot(text, token, message),
                             template, template)
<1>1. slots = FilledIn(template, message, SlotsUpTo(template, message, Len(template)))
  BY SlotsAreFilled
<1>2. FoldLeft(FillCall, slots, template) = Result(template, message)
  <2> HIDE DEF slots
  <2>1. QED
    BY <1>1, CallsAreFilled
<1>3. QED
  BY <1>2 DEF Filled

LEMMA ResultOfFitting ==
    ASSUME NEW template, NEW message, FitsTemplate(template, message)
    PROVE  Result(template, message) = Rewritten(template, message)
<1>1. ASSUME NEW i \in DOMAIN template
      PROVE  Filling(template[i], message) = Expansion(template[i], message)
  BY DEF FitsTemplate, Filling, IsFillable, Expansion
<1>2. [i \in DOMAIN template |-> Filling(template[i], message)]
          = [i \in DOMAIN template |-> Expansion(template[i], message)]
  BY <1>1
<1>3. QED
  BY <1>2 DEF Result, Rewritten

(* For a message that fits the template and has no string that looks like a
   slot or a call, replacing the slots one after the other in the text so far
   and then the calls (format_msg) is replacing all of them at once.          *)
THEOREM SubstitutionIsSimultaneous ==
    ASSUME NEW template, NEW message, NEW T, Suits(template, message, T),
           FitsTemplate(template, message), IsPlain(template, message)
    PROVE  Filled(template, message) = Rewritten(template, message)
<1>1. message.kind = "json"
  BY DEF FitsTemplate
<1>2. QED
  BY <1>1, FilledIs, ResultOfFitting

-----------------------------------------------------------------------------
(* What the data manager gets: a line and what became of it. *)
Outputs == {[from |-> line, text |-> format_msg(Template, line.says)] :
                line \in {l \in Lines : format_msg(Template, l.says) # Refusal}}

TextTypeInv ==
    /\ TextTypeOK
    /\ Len(file) <= written
    /\ datumQ \in Seq(Outputs)

(* Unless the writer overwrites, the reader has what is at the start of the
   file, and after it met the end only lines written since lie beyond.      *)
ReadFromStart ==
    mode # "overwrite" =>
        /\ offset <= Len(file)
        /\ Len(got) = offset
        /\ \A i \in 1..offset : got[i] = file[i]
        /\ readPc = "empty" =>
            \A i \in DOMAIN file : i > offset => file[i].no \in late

WindowInv == ReadFromStart /\ WipedOnlyInWindow

(* The lines read and those still ahead in the file come in the order they were
   written.  The lines taken do as far as the file could be emptied; if there
   are some to be taken again one of the failures is still to be paid for.   *)
Rising ==
    /\ \A i, j \in DOMAIN file : i < j => file[i].no < file[j].no
    /\ \A i, j \in DOMAIN got : i < j => got[i].no < got[j].no
    /\ \A i \in DOMAIN got : \A j \in DOMAIN file :
           j > offset => got[i].no < file[j].no
    /\ \A i \in DOMAIN taken : taken[i] <= written
    /\ \A i \in DOMAIN got : got[i].no <= written
    /\ \A i \in DOMAIN file : file[i].no <= written
NoneAgain ==
    /\ \A i \in DOMAIN taken : \A j \in DOMAIN file : taken[i] < file[j].no
    /\ \A i \in DOMAIN taken : \A j \in DOMAIN got : taken[i] < got[j].no
Steps == Cardinality(StepsBack(taken))
PaidFor == Steps <= failures /\ (NoneAgain \/ Steps < failures)
InOrder == Rising /\ PaidFor

(* One line at a time, of a program that waits for the file to be emptied. *)
OneByOne ==
    mode = "polite" =>
        /\ Len(file) <= 1
        /\ writing => file = << >>
        /\ \A i \in DOMAIN rawQ : Len(rawQ[i]) = 1
        /\ \A lines \in refused : Len(lines) = 1

LEMMA TextInitInv == Init => TextTypeInv /\ WindowInv /\ InOrder /\ OneByOne
<1> SUFFICES ASSUME Init PROVE TextTypeInv /\ WindowInv /\ InOrder /\ OneByOne
  OBVIOUS
<1>1. \A T : << >> \in Seq(T)
  OBVIOUS
<1>2. Len(<< >>) = 0 /\ DOMAIN << >> = {}
  OBVIOUS
<1>3. TextTypeOK
  <2>1. /\ << >> \in Seq(Lines) /\ << >> \in Seq(Seq(Lines) \ {<< >>})
        /\ << >> \in Seq(1..MaxLines)
    BY <1>1
  <2>2. 0 \in 0..MaxLines /\ 0 \in 0..MaxFailures
    BY TextAssumption
  <2>3. QED
    BY <1>2, <2>1, <2>2, Zenon DEF Init, TextTypeOK
<1>4. TextTypeInv
  BY <1>1, <1>2, <1>3 DEF Init, TextTypeInv
<1>5. WindowInv
  BY <1>2 DEF Init, WindowInv, ReadFromStart, WipedOnlyInWindow
<1>6. InOrder
  <2>1. Rising /\ NoneAgain
    BY <1>2 DEF Init, Rising, NoneAgain
  <2>2. StepsBack(<< >>) = {}
    BY <1>2 DEF StepsBack
  <2>3. Steps = 0 /\ failures = 0
    BY <2>2, FS_EmptySet DEF Init, Steps
  <2>4. QED
    BY <2>1, <2>3 DEF InOrder, PaidFor
<1>7. OneByOne
  BY <1>2 DEF Init, OneByOne
<1>8. QED
  BY <1>4, <1>5, <1>6, <1>7

LEMMA LineType ==
    ASSUME TextTypeInv, NEW message \in Messages, written < MaxLines
    PROVE  Line(written + 1, message) \in Lines /\ written + 1 \in 1..MaxLines
  BY TextAssumption DEF TextTypeInv, TextTypeOK, Line, Lines

LEMMA NumbersType ==
    ASSUME NEW lines \in Seq(Lines)
    PROVE  /\ Numbers(lines) \in Seq(1..MaxLines)
           /\ Len(Numbers(lines)) = Len(lines)
           /\ \A i \in DOMAIN lines : Numbers(lines)[i] = lines[i].no
<1> DEFINE U == 1..MaxLines
<1>1. DOMAIN lines = 1..Len(lines) /\ Len(lines) \in Nat
  BY LenProperties
<1>2. \A i \in DOMAIN lines : lines[i] \in Lines
  BY <1>1, ElementOfSeq
<1>3. \A i \in DOMAIN lines : lines[i].no \in U
  BY <1>2 DEF Lines
<1> HIDE DEF U
<1>4. Numbers(lines) \in [1..Len(lines) -> U]
  BY <1>1, <1>3 DEF Numbers
<1>5. Numbers(lines) \in Seq(U)
  BY <1>1, <1>4, SeqDef
<1>6. Len(Numbers(lines)) = Len(lines)
  BY <1>1, <1>4, <1>5, LenProperties
<1>7. QED
  BY <1>5, <1>6 DEF Numbers, U

LEMMA ChunkType ==
    ASSUME NEW lines \in Seq(Lines), NEW from \in Nat, from < Len(lines)
    PROVE  /\ Chunk(lines, from) \in Seq(Lines)
           /\ Len(Chunk(lines, from)) = Len(lines) - from
           /\ \A i \in 1..Len(lines) - from : Chunk(lines, from)[i] = lines[from + i]
<1>1. Len(lines) \in Nat /\ from + 1 \in 1..Len(lines) /\ Len(lines) \in 1..Len(lines)
  BY LenProperties
<1>2. QED
  BY <1>1, SubSeqProperties DEF Chunk

LEMMA OutcomeIs ==
    ASSUME NEW lines \in Seq(Lines), OutcomeOf(lines) # Refusal
    PROVE  [from |-> lines[1], text |-> OutcomeOf(lines)] \in Outputs
<1>1. Len(lines) = 1
  BY DEF OutcomeOf
<1>2. lines[1] \in Lines
  BY <1>1, ElementOfSeq
<1>3. OutcomeOf(lines) = format_msg(Template, lines[1].says)
  BY <1>1, <1>2 DEF OutcomeOf, Outcome, Lines
<1>4. QED
  BY <1>2, <1>3 DEF Outputs

LEMMA TypeInvStep ==
    ASSUME TextTypeInv, [Next]_vars PROVE TextTypeInv'
<1> USE TextAssumption
<1> DEFINE Filed == Seq(Lines) \ {<< >>}
<1>0. written \in 0..MaxLines /\ MaxLines \in Nat /\ Len(file) <= written
  BY DEF TextTypeInv, TextTypeOK
<1>1. CASE OpenFile
  <2>1. file' = << >> /\ << >> \in Seq(Lines) /\ Len(file') = 0
    BY <1>1 DEF OpenFile
  <2>2. Len(file') <= written'
    BY <1>0, <1>1, <2>1 DEF OpenFile
  <2>3. writing' \in BOOLEAN
    BY <1>1 DEF OpenFile
  <2>4. QED
    BY <1>1, <2>1, <2>2, <2>3, Zenon DEF OpenFile, TextTypeInv, TextTypeOK
<1>2. ASSUME NEW message \in Messages, WriteLine(message) PROVE TextTypeInv'
  <2> DEFINE line == Line(written + 1, message)
  <2>1. line \in Lines /\ written + 1 \in 1..MaxLines
    BY <1>2, LineType DEF WriteLine
  <2>2. file' \in Seq(Lines) /\ Len(file') = Len(file) + 1
    <3> HIDE DEF line
    <3>1. file \in Seq(Lines) /\ file' = Append(file, line)
      BY <1>2 DEF WriteLine, TextTypeInv, TextTypeOK, line
    <3>2. QED
      BY <2>1, <3>1, AppendProperties
  <2>3. Len(file') <= written' /\ written' \in 0..MaxLines
    BY <1>0, <1>2, <2>1, <2>2 DEF WriteLine, TextTypeInv, TextTypeOK
  <2>4. late' \subseteq 1..MaxLines
    BY <1>2, <2>1 DEF WriteLine, TextTypeInv, TextTypeOK
  <2>5. QED
    BY <1>2, <2>2, <2>3, <2>4 DEF WriteLine, TextTypeInv, TextTypeOK
<1>3. CASE ReadChunk
  <2>1. file \in Seq(Lines) /\ got \in Seq(Lines) /\ offset \in Nat /\ offset < Len(file)
        /\ Len(file) \in Nat
    BY <1>3 DEF ReadChunk, AtEnd, TextTypeInv, TextTypeOK
  <2>2. got' \in Seq(Lines)
    BY <1>3, <2>1, ChunkType, ConcatProperties DEF ReadChunk
  <2>3. offset' \in 0..MaxLines
    BY <1>0, <1>3, <2>1 DEF ReadChunk
  <2>4. QED
    BY <1>3, <2>2, <2>3, Zenon DEF ReadChunk, TextTypeInv, TextTypeOK
<1>4. CASE ReadEnd
  <2>1. << >> \in Seq(Lines) /\ 0 \in 0..MaxLines
    OBVIOUS
  <2>2. /\ readPc' \in {"read", "empty"} /\ got' \in Seq(Lines) /\ offset' \in 0..MaxLines
    BY <1>4, <2>1 DEF ReadEnd, TextTypeInv, TextTypeOK
  <2>3. QED
    BY <1>4, <2>2, Zenon DEF ReadEnd, TextTypeInv, TextTypeOK
<1>5. CASE EmptyFile
  <2>1. file \in Seq(Lines) /\ got \in Seq(Lines) /\ rawQ \in Seq(Filed)
        /\ taken \in Seq(1..MaxLines)
    BY DEF TextTypeInv, TextTypeOK
  <2>2. << >> \in Seq(Lines) /\ 0 \in 0..MaxLines /\ Len(<< >>) = 0 /\ << >> \in Seq(Filed)
    OBVIOUS
  <2>3. file' \in Seq(Lines) /\ Len(file') <= written'
    <3>1. written' = written /\ (file' = file \/ file' = << >>)
      BY <1>5 DEF EmptyFile, FileLeft
    <3>2. CASE file' = file
      BY <1>0, <2>1, <3>1, <3>2
    <3>3. CASE file' = << >>
      BY <1>0, <2>2, <3>1, <3>3
    <3>4. QED
      BY <3>1, <3>2, <3>3
  <2>4. rawQ' \in Seq(Filed)
    <3>1. MessagesOf(got) \in Seq(Filed)
      <4>1. CASE got = << >>
        BY <2>2, <4>1 DEF MessagesOf
      <4>2. CASE got # << >>
        <5>1. got \in Filed
          BY <2>1, <4>2
        <5>2. MessagesOf(got) = <<got>>
          BY <4>2 DEF MessagesOf
        <5> HIDE DEF Filed
        <5>3. QED
          BY <5>1, <5>2
      <4>3. QED
        BY <4>1, <4>2
    <3> HIDE DEF Filed
    <3>2. rawQ' = rawQ \o MessagesOf(got)
      BY <1>5 DEF EmptyFile
    <3>3. QED
      BY <2>1, <3>1, <3>2, ConcatProperties
  <2>5. taken' \in Seq(1..MaxLines)
    BY <1>5, <2>1, NumbersType, ConcatProperties DEF EmptyFile
  <2>6. wiped' \subseteq 1..MaxLines
    <3>1. Range(Numbers(file)) \subseteq 1..MaxLines
      BY <2>1, NumbersType DEF Range
    <3>2. QED
      BY <1>5, <3>1 DEF EmptyFile, TextTypeInv, TextTypeOK
  <2>7. failures' \in 0..MaxFailures
    BY <1>5 DEF EmptyFile, TextTypeInv, TextTypeOK
  <2>8. readPc' = "read" /\ got' = << >> /\ offset' = 0
    BY <1>5 DEF EmptyFile
  <2>9. QED
    BY <1>5, <2>2, <2>3, <2>4, <2>5, <2>6, <2>7, <2>8, Zenon
    DEF EmptyFile, TextTypeInv, TextTypeOK
<1>6. CASE HandleMessage
  <2>1. rawQ \in Seq(Filed) /\ rawQ # << >> /\ refused \subseteq Seq(Lines)
        /\ datumQ \in Seq(Outputs)
    BY <1>6 DEF HandleMessage, TextTypeInv, TextTypeOK
  <2> DEFINE lines == Head(rawQ)
  <2>2. lines \in Filed /\ Tail(rawQ) \in Seq(Filed)
    <3> HIDE DEF Filed
    <3>1. QED
      BY <2>1, HeadTailProperties
  <2>3. datumQ' \in Seq(Outputs)
    <3>1. CASE UNCHANGED datumQ
      BY <2>1, <3>1
    <3>2. CASE /\ OutcomeOf(lines) # Refusal
               /\ datumQ' = Append(datumQ, [from |-> lines[1], text |-> OutcomeOf(lines)])
      <4>1. [from |-> lines[1], text |-> OutcomeOf(lines)] \in Outputs
        BY <2>2, <3>2, OutcomeIs
      <4>2. QED
        BY <2>1, <3>2, <4>1, AppendProperties
    <3>3. QED
      BY <1>6, <3>1, <3>2 DEF HandleMessage
  <2>4. \A i \in DOMAIN datumQ' : datumQ'[i].from \in Lines
    <3>1. DOMAIN datumQ' = 1..Len(datumQ')
      BY <2>3, LenProperties
    <3>2. \A i \in DOMAIN datumQ' : datumQ'[i] \in Outputs
      BY <2>3, <3>1, ElementOfSeq
    <3>3. QED
      BY <3>2 DEF Outputs
  <2>5. refused' \subseteq Seq(Lines)
    BY <1>6, <2>1, <2>2 DEF HandleMessage
  <2>6. rawQ' \in Seq(Filed)
    BY <1>6, <2>2 DEF HandleMessage, LeftInQueue
  <2>7. QED
    BY <1>6, <2>3, <2>4, <2>5, <2>6, Zenon DEF HandleMessage, TextTypeInv, TextTypeOK
<1>7. CASE UNCHANGED vars
  BY <1>7, Zenon DEF vars, TextTypeInv, TextTypeOK, Outputs, Lines
<1>8. QED
  BY <1>1, <1>2, <1>3, <1>4, <1>5, <1>6, <1>7 DEF Next, ReadThread

LEMMA TextTypeAlways == Spec => []TextTypeInv
<1>1. Init => TextTypeInv
  BY TextInitInv
<1>2. TextTypeInv /\ [Next]_vars => TextTypeInv'
  BY TypeInvStep
<1>3. QED
  BY <1>1, <1>2, PTL DEF Spec

(* Every variable keeps its type, for any template, messages and bounds. *)
THEOREM TextTypeCorrect == Spec => []TextTypeOK
<1>1. TextTypeInv => TextTypeOK
  BY DEF TextTypeInv
<1>2. QED
  BY <1>1, TextTypeAlways, PTL

-----------------------------------------------------------------------------

(* A read that is not at the end adds what lies beyond the offset. *)
LEMMA ChunkRead ==
    ASSUME TextTypeInv, ReadChunk
    PROVE  /\ Len(got') = Len(got) + (Len(file) - offset)
           /\ \A i \in 1..Len(got) : got'[i] = got[i]
           /\ \A i \in 1..Len(file) - offset : got'[Len(got) + i] = file[offset + i]
           /\ offset \in Nat /\ offset < Len(file) /\ offset' = Len(file)
           /\ Len(got) \in Nat /\ Len(file) \in Nat
           /\ DOMAIN got = 1..Len(got) /\ DOMAIN got' = 1..Len(got')
           /\ DOMAIN file = 1..Len(file)
<1>1. file \in Seq(Lines) /\ got \in Seq(Lines) /\ offset \in Nat /\ offset < Len(file)
      /\ Len(file) \in Nat /\ Len(got) \in Nat
  BY DEF ReadChunk, AtEnd, TextTypeInv, TextTypeOK
<1>2. /\ Chunk(file, offset) \in Seq(Lines)
      /\ Len(Chunk(file, offset)) = Len(file) - offset
      /\ \A i \in 1..Len(file) - offset : Chunk(file, offset)[i] = file[offset + i]
  BY <1>1, ChunkType
<1>3. got' = Cat(got, Chunk(file, offset)) /\ offset' = Len(file)
  BY DEF ReadChunk, Cat
<1> DEFINE c == Chunk(file, offset)
<1> HIDE DEF c
<1>4. /\ Cat(got, c) \in Seq(Lines) /\ Len(Cat(got, c)) = Len(got) + Len(c)
      /\ \A i \in 1..Len(got) + Len(c) :
             Cat(got, c)[i] = IF i <= Len(got) THEN got[i] ELSE c[i - Len(got)]
  BY <1>1, <1>2, CatProperties DEF c
<1>5. got' = Cat(got, c) /\ Len(c) = Len(file) - offset
      /\ \A i \in 1..Len(file) - offset : c[i] = file[offset + i]
  BY <1>2, <1>3 DEF c
<1>6. Len(got') = Len(got) + (Len(file) - offset)
  BY <1>4, <1>5
<1>7. ASSUME NEW i \in 1..Len(got) PROVE got'[i] = got[i]
  <2>1. i \in 1..Len(got) + Len(c) /\ i <= Len(got)
    BY <1>1, <1>5
  <2>2. QED
    BY <1>4, <1>5, <2>1
<1>8. ASSUME NEW i \in 1..Len(file) - offset
      PROVE  got'[Len(got) + i] = file[offset + i]
  <2>1. /\ Len(got) + i \in 1..Len(got) + Len(c) /\ ~(Len(got) + i <= Len(got))
        /\ (Len(got) + i) - Len(got) = i
    BY <1>1, <1>5
  <2>2. QED
    BY <1>4, <1>5, <2>1
<1>9. DOMAIN got = 1..Len(got) /\ DOMAIN file = 1..Len(file) /\ DOMAIN got' = 1..Len(got')
  BY <1>1, <1>4, <1>5, LenProperties
<1>10. QED
  BY <1>1, <1>3, <1>6, <1>7, <1>8, <1>9

LEMMA LineWritten ==
    ASSUME TextTypeInv, NEW message \in Messages, WriteLine(message)
    PROVE  /\ Len(file') = Len(file) + 1 /\ Len(file) \in Nat
           /\ \A i \in 1..Len(file) : file'[i] = file[i]
           /\ file'[Len(file) + 1].no = written + 1
           /\ DOMAIN file = 1..Len(file) /\ DOMAIN file' = 1..Len(file) + 1
           /\ written' = written + 1 /\ written \in Nat
<1> DEFINE line == Line(written + 1, message)
<1>1. line \in Lines /\ line.no = written + 1
  BY LineType DEF WriteLine, Line
<1>2. file \in Seq(Lines) /\ file' = Append(file, line) /\ written' = written + 1
      /\ written \in Nat
  BY TextAssumption DEF WriteLine, TextTypeInv, TextTypeOK
<1> HIDE DEF line
<1>3. /\ file' \in Seq(Lines) /\ Len(file') = Len(file) + 1
      /\ \A i \in 1..Len(file) : file'[i] = file[i]
      /\ file'[Len(file) + 1] = line
  BY <1>1, <1>2, AppendProperties
<1>4. QED
  BY <1>1, <1>2, <1>3, LenProperties

LEMMA WindowStep ==
    ASSUME TextTypeInv, WindowInv, [Next]_vars PROVE WindowInv'
<1>0. /\ file \in Seq(Lines) /\ got \in Seq(Lines) /\ offset \in Nat
      /\ DOMAIN file = 1..Len(file) /\ DOMAIN got = 1..Len(got)
      /\ Len(file) \in Nat /\ Len(got) \in Nat
  BY DEF TextTypeInv, TextTypeOK
<1>1. CASE OpenFile
  <2>1. SUFFICES ASSUME mode # "overwrite" PROVE WindowInv'
    BY <1>1 DEF OpenFile, WindowInv, ReadFromStart, WipedOnlyInWindow
  <2>2. file = << >> /\ file' = << >>
    BY <1>1, <2>1 DEF OpenFile
  <2>3. QED
    BY <1>1, <2>2 DEF OpenFile, WindowInv, ReadFromStart, WipedOnlyInWindow
<1>2. ASSUME NEW message \in Messages, WriteLine(message) PROVE WindowInv'
  <2>1. SUFFICES ASSUME mode # "overwrite" PROVE WindowInv'
    BY <1>2 DEF WriteLine, WindowInv, ReadFromStart, WipedOnlyInWindow
  <2>2. /\ Len(file') = Len(file) + 1
        /\ \A i \in 1..Len(file) : file'[i] = file[i]
        /\ file'[Len(file) + 1].no = written + 1
        /\ DOMAIN file' = 1..Len(file) + 1
    BY <1>2, LineWritten
  <2>3. /\ mode' = mode /\ got' = got /\ offset' = offset /\ readPc' = readPc
        /\ late \subseteq late' /\ wiped' = wiped
        /\ readPc = "empty" => written + 1 \in late'
    BY <1>2 DEF WriteLine
  <2>4. ReadFromStart'
    <3>1. offset <= Len(file')
      BY <1>0, <2>1, <2>2 DEF WindowInv, ReadFromStart
    <3>2. Len(got) = offset /\ \A i \in 1..offset : got[i] = file'[i]
      BY <1>0, <2>1, <2>2 DEF WindowInv, ReadFromStart
    <3>3. ASSUME readPc = "empty", NEW i \in DOMAIN file', i > offset
          PROVE  file'[i].no \in late'
      <4>1. CASE i \in 1..Len(file)
        BY <1>0, <2>1, <2>2, <2>3, <3>3, <4>1 DEF WindowInv, ReadFromStart
      <4>2. CASE i = Len(file) + 1
        BY <2>2, <2>3, <3>3, <4>2
      <4>3. QED
        BY <1>0, <2>2, <4>1, <4>2
    <3>4. QED
      BY <2>3, <3>1, <3>2, <3>3 DEF ReadFromStart
  <2>5. QED
    BY <2>1, <2>3, <2>4 DEF WindowInv, WipedOnlyInWindow
<1>3. CASE ReadChunk
  <2>1. SUFFICES ASSUME mode # "overwrite" PROVE WindowInv'
    BY <1>3 DEF ReadChunk, WindowInv, ReadFromStart, WipedOnlyInWindow
  <2>2. /\ Len(got) = offset /\ offset < Len(file) /\ offset' = Len(file)
        /\ \A i \in 1..offset : got[i] = file[i]
    BY <1>3, <2>1, ChunkRead DEF WindowInv, ReadFromStart
  <2>3. Len(got') = Len(file)
    <3>1. Len(got') = Len(got) + (Len(file) - offset)
      BY <1>3, ChunkRead
    <3>2. QED
      BY <1>0, <2>2, <3>1
  <2>4. ASSUME NEW i \in 1..Len(file) PROVE got'[i] = file[i]
    <3>1. CASE i <= offset
      BY <1>0, <1>3, <2>2, <3>1, ChunkRead
    <3>2. CASE ~(i <= offset)
      <4>1. i - offset \in 1..Len(file) - offset
        BY <1>0, <3>2
      <4>2. got'[Len(got) + (i - offset)] = file[offset + (i - offset)]
        BY <1>3, <4>1, ChunkRead
      <4>3. QED
        BY <1>0, <2>2, <4>2
    <3>3. QED
      BY <3>1, <3>2
  <2>5. UNCHANGED <<mode, file, late, wiped, readPc>> /\ readPc = "read"
    BY <1>3 DEF ReadChunk
  <2>6. QED
    BY <1>0, <2>2, <2>3, <2>4, <2>5 DEF WindowInv, ReadFromStart, WipedOnlyInWindow
<1>4. CASE ReadEnd
  <2>1. CASE readPc' = "empty" /\ UNCHANGED <<got, offset>>
    <3>1. ~(offset < Len(file))
      BY <1>0, <1>4 DEF ReadEnd, AtEnd
    <3>2. UNCHANGED <<mode, file, got, offset, wiped, late>>
      BY <1>4, <2>1 DEF ReadEnd
    <3>3. \A i \in DOMAIN file : ~(i > offset)
      BY <1>0, <3>1
    <3>4. QED
      BY <3>2, <3>3 DEF WindowInv, ReadFromStart, WipedOnlyInWindow
  <2>2. CASE got' = << >> /\ offset' = 0 /\ readPc' = readPc
    <3>1. readPc = "read" /\ UNCHANGED <<mode, file, wiped, late>>
      BY <1>4 DEF ReadEnd
    <3>2. Len(got') = 0 /\ 0 <= Len(file) /\ 1..0 = {}
      BY <1>0, <2>2
    <3>3. QED
      BY <2>2, <3>1, <3>2 DEF WindowInv, ReadFromStart, WipedOnlyInWindow
  <2>3. QED
    BY <1>4, <2>1, <2>2 DEF ReadEnd
<1>5. CASE EmptyFile
  <2>1. ReadFromStart'
    BY <1>0, <1>5 DEF EmptyFile, FileLeft, ReadFromStart
  <2>2. ASSUME mode # "overwrite", NEW n \in Range(Numbers(file)),
               n \notin Range(taken \o Numbers(got))
        PROVE  n \in late
    <3>1. PICK i \in DOMAIN file : n = file[i].no
      BY <1>0, NumbersType DEF Range, Numbers
    <3>2. CASE i <= offset
      <4>1. i \in DOMAIN got /\ got[i].no = n
        BY <1>0, <2>2, <3>1, <3>2 DEF WindowInv, ReadFromStart
      <4>2. n = Numbers(got)[i] /\ i \in 1..Len(Numbers(got))
        BY <1>0, <4>1, NumbersType
      <4>3. Numbers(got) \in Seq(1..MaxLines) /\ taken \in Seq(1..MaxLines)
        BY <1>0, NumbersType DEF TextTypeInv, TextTypeOK
      <4>4. n \in Range(taken \o Numbers(got))
        <5> DEFINE U == 1..MaxLines
                   q == Numbers(got)
        <5>1. q \in Seq(U) /\ taken \in Seq(U) /\ i \in 1..Len(q) /\ q[i] = n
          BY <4>2, <4>3
        <5> HIDE DEF U, q
        <5>2. Len(taken) + i \in DOMAIN (taken \o q) /\ (taken \o q)[Len(taken) + i] = n
          BY <5>1
        <5>3. QED
          BY <5>2 DEF Range, q
      <4>5. QED
        BY <2>2, <4>4
    <3>3. CASE ~(i <= offset)
      BY <1>0, <1>5, <2>2, <3>1, <3>3 DEF EmptyFile, WindowInv, ReadFromStart
    <3>4. QED
      BY <3>2, <3>3
  <2>3. WipedOnlyInWindow'
    BY <1>5, <2>2 DEF EmptyFile, WindowInv, WipedOnlyInWindow
  <2>4. QED
    BY <2>1, <2>3 DEF WindowInv
<1>6. CASE HandleMessage
  BY <1>6 DEF HandleMessage, WindowInv, ReadFromStart, WipedOnlyInWindow
<1>7. CASE UNCHANGED vars
  BY <1>7 DEF vars, WindowInv, ReadFromStart, WipedOnlyInWindow
<1>8. QED
  BY <1>1, <1>2, <1>3, <1>4, <1>5, <1>6, <1>7 DEF Next, ReadThread

(* The gateway removes unread lines only in the window between the end of the
   file and the write that empties it, unless the writer overwrites.         *)
THEOREM WipedInWindow == Spec => []WipedOnlyInWindow
<1>1. Init => WindowInv
  BY TextInitInv
<1>2. TextTypeInv /\ WindowInv /\ [Next]_vars => WindowInv'
  BY WindowStep
<1>3. WindowInv => WipedOnlyInWindow
  BY DEF WindowInv
<1>4. QED
  BY <1>1, <1>2, <1>3, TextTypeAlways, PTL DEF Spec

(* How often a sequence of numbers steps back. *)
LEMMA StepsBackFinite ==
    ASSUME NEW p, Len(p) \in Nat
    PROVE  IsFiniteSet(StepsBack(p)) /\ Cardinality(StepsBack(p)) \in Nat
<1>1. StepsBack(p) \subseteq 1..Len(p)
  BY DEF StepsBack
<1>2. IsFiniteSet(1..Len(p))
  BY FS_Interval
<1>3. IsFiniteSet(StepsBack(p))
  BY <1>1, <1>2, FS_Subset
<1>4. QED
  BY <1>3, FS_CardinalityType

(* It does so once more at most when rising numbers are added, and no more often
   if all of these are greater than the ones before.                          *)
LEMMA StepsBackCat ==
    ASSUME NEW p \in Seq(Nat), NEW q \in Seq(Nat),
           \A i, j \in 1..Len(q) : i < j => q[i] < q[j]
    PROVE  /\ Cardinality(StepsBack(Cat(p, q))) \in Nat
           /\ Cardinality(StepsBack(Cat(p, q))) <= Cardinality(StepsBack(p)) + 1
           /\ (\A i \in 1..Len(p) : \A j \in 1..Len(q) : p[i] < q[j]) =>
                  Cardinality(StepsBack(Cat(p, q))) <= Cardinality(StepsBack(p))
<1> DEFINE pq == Cat(p, q)
           A == StepsBack(p)
           B == StepsBack(pq)
<1>1. /\ pq \in Seq(Nat) /\ Len(pq) = Len(p) + Len(q)
      /\ \A i \in 1..Len(p) + Len(q) :
             pq[i] = IF i <= Len(p) THEN p[i] ELSE q[i - Len(p)]
  BY CatProperties
<1>2. Len(p) \in Nat /\ Len(q) \in Nat /\ Len(pq) \in Nat
  BY <1>1, LenProperties
<1> HIDE DEF pq
<1>3. /\ IsFiniteSet(A) /\ Cardinality(A) \in Nat
      /\ IsFiniteSet(B) /\ Cardinality(B) \in Nat
  BY <1>2, StepsBackFinite
<1>4. ASSUME NEW i \in B
      PROVE  /\ i \in A \/ i = Len(p)
             /\ i = Len(p) => i \in 1..Len(p) /\ 1 \in 1..Len(q) /\ ~(p[i] < q[1])
  <2>1. i \in 1..Len(p) + Len(q) - 1 /\ pq[i] >= pq[i + 1]
    BY <1>1 DEF StepsBack
  <2>2. /\ i \in 1..Len(p) + Len(q) /\ i + 1 \in 1..Len(p) + Len(q)
    BY <1>2, <2>1
  <2>3. CASE i < Len(p)
    <3>1. i <= Len(p) /\ i + 1 <= Len(p) /\ i \in 1..Len(p) - 1
      BY <1>2, <2>2, <2>3
    <3>2. pq[i] = p[i] /\ pq[i + 1] = p[i + 1]
      BY <1>1, <2>2, <3>1
    <3>3. QED
      BY <2>1, <3>1, <3>2 DEF StepsBack
  <2>4. CASE i = Len(p)
    <3>0. /\ i \in 1..Len(p) /\ 1 \in 1..Len(q)
          /\ i <= Len(p) /\ ~(i + 1 <= Len(p)) /\ (i + 1) - Len(p) = 1
      BY <1>2, <2>2, <2>4
    <3>1. pq[i] = p[i] /\ pq[i + 1] = q[1]
      BY <1>1, <2>2, <3>0
    <3>2. p[i] \in Nat /\ q[1] \in Nat
      BY <3>0, ElementOfSeq
    <3>3. QED
      BY <2>1, <2>4, <3>0, <3>1, <3>2
  <2>5. CASE i > Len(p)
    <3>1. /\ i - Len(p) \in 1..Len(q) /\ (i + 1) - Len(p) \in 1..Len(q)
          /\ i - Len(p) < (i + 1) - Len(p) /\ ~(i <= Len(p)) /\ ~(i + 1 <= Len(p))
      BY <1>2, <2>2, <2>5
    <3>2. PICK m, n \in 1..Len(q) : m = i - Len(p) /\ n = (i + 1) - Len(p) /\ m < n
      BY <3>1
    <3>3. pq[i] = q[m] /\ pq[i + 1] = q[n]
      BY <1>1, <2>2, <3>1, <3>2
    <3>4. q[m] < q[n] /\ q[m] \in Nat /\ q[n] \in Nat
      BY <3>2, ElementOfSeq
    <3>5. QED
      BY <2>1, <3>3, <3>4
  <2>6. QED
    BY <1>2, <2>2, <2>3, <2>4, <2>5
<1> HIDE DEF A, B
<1>5. Cardinality(B) <= Cardinality(A) + 1
  <2>1. /\ IsFiniteSet(A \cup {Len(p)})
        /\ \/ Cardinality(A \cup {Len(p)}) = Cardinality(A)
           \/ Cardinality(A \cup {Len(p)}) = Cardinality(A) + 1
    BY <1>3, FS_AddElement
  <2>2. B \subseteq A \cup {Len(p)}
    BY <1>4
  <2>3. /\ Cardinality(B) <= Cardinality(A \cup {Len(p)})
        /\ Cardinality(A \cup {Len(p)}) \in Nat
    BY <2>1, <2>2, FS_Subset, FS_CardinalityType
  <2>4. QED
    BY <1>3, <2>1, <2>3
<1>6. ASSUME \A i \in 1..Len(p) : \A j \in 1..Len(q) : p[i] < q[j]
      PROVE  Cardinality(B) <= Cardinality(A)
  <2>1. B \subseteq A
    BY <1>4, <1>6
  <2>2. QED
    BY <1>3, <2>1, FS_Subset
<1>7. QED
  BY <1>3, <1>5, <1>6 DEF A, B, pq

LEMMA OrderStep ==
    ASSUME TextTypeInv, InOrder, [Next]_vars PROVE InOrder'
<1>0. /\ file \in Seq(Lines) /\ got \in Seq(Lines) /\ taken \in Seq(1..MaxLines)
      /\ offset \in Nat /\ failures \in Nat /\ written \in Nat /\ MaxLines \in Nat
      /\ DOMAIN file = 1..Len(file) /\ DOMAIN got = 1..Len(got)
      /\ Len(file) \in Nat /\ Len(got) \in Nat
      /\ DOMAIN taken = 1..Len(taken) /\ Len(taken) \in Nat
  BY TextAssumption DEF TextTypeInv, TextTypeOK
<1> USE DEF InOrder
<1>10. Rising /\ PaidFor
  OBVIOUS
<1>11. ASSUME UNCHANGED <<taken, failures>>, NoneAgain => NoneAgain'
       PROVE  PaidFor'
  BY <1>10, <1>11 DEF PaidFor, Steps, StepsBack
<1>1. CASE OpenFile
  <2>1. DOMAIN file' = {} /\ UNCHANGED <<taken, failures, got, offset, written>>
    BY <1>1 DEF OpenFile
  <2>2. Rising' /\ (NoneAgain => NoneAgain')
    BY <1>10, <2>1 DEF Rising, NoneAgain
  <2>3. QED
    BY <1>11, <2>1, <2>2
<1>2. ASSUME NEW message \in Messages, WriteLine(message) PROVE InOrder'
  <2>2. /\ DOMAIN file' = 1..Len(file) + 1 /\ written' = written + 1
        /\ \A i \in 1..Len(file) : file'[i] = file[i]
        /\ file'[Len(file) + 1].no = written + 1
    BY <1>2, LineWritten
  <2>3. UNCHANGED <<got, taken, offset, failures>>
    BY <1>2 DEF WriteLine
  <2>4. /\ \A i \in DOMAIN taken : taken[i] \in Nat /\ taken[i] <= written
        /\ \A i \in DOMAIN got : got[i].no \in Nat /\ got[i].no <= written
        /\ \A i \in DOMAIN file : file[i].no \in Nat /\ file[i].no <= written
    <3>0. \A line \in Lines : line.no \in Nat
      BY <1>0 DEF Lines
    <3>1. \A i \in DOMAIN got : got[i].no \in Nat
      BY <1>0, <3>0
    <3>2. \A i \in DOMAIN file : file[i].no \in Nat
      BY <1>0, <3>0
    <3>3. \A i \in DOMAIN taken : taken[i] \in Nat
      BY <1>0
    <3>4. QED
      BY <1>10, <3>1, <3>2, <3>3 DEF Rising
  <2>5. ASSUME NEW i \in DOMAIN file'
        PROVE  \/ i \in DOMAIN file /\ file'[i] = file[i]
               \/ i = Len(file) + 1 /\ file'[i].no = written + 1
    <3> DEFINE n == Len(file)
    <3>1. n \in Nat /\ DOMAIN file = 1..n
      BY <1>0
    <3> HIDE DEF n
    <3>2. i \in 1..n \/ i = n + 1
      BY <2>2, <3>1 DEF n
    <3>3. QED
      BY <2>2, <3>1, <3>2 DEF n
  <2>6. ASSUME NEW i \in DOMAIN file', NEW j \in DOMAIN file', i < j
        PROVE  file'[i].no < file'[j].no
    <3>1. CASE j \in DOMAIN file /\ file'[j] = file[j]
      <4>1. i \in DOMAIN file /\ file'[i] = file[i]
        BY <1>0, <2>2, <2>6, <3>1
      <4>2. QED
        BY <1>10, <2>6, <3>1, <4>1 DEF Rising
    <3>2. CASE j = Len(file) + 1 /\ file'[j].no = written + 1
      <4>1. i \in DOMAIN file /\ file'[i] = file[i]
        BY <1>0, <2>2, <2>6, <3>2
      <4>2. file[i].no \in Nat /\ file[i].no <= written
        BY <2>4, <4>1
      <4>3. QED
        BY <1>0, <3>2, <4>1, <4>2
    <3>3. QED
      BY <2>5, <3>1, <3>2
  <2>7. ASSUME NoneAgain, NEW i \in DOMAIN taken, NEW j \in DOMAIN file'
        PROVE  taken[i] < file'[j].no
    <3>1. CASE j \in DOMAIN file /\ file'[j] = file[j]
      BY <2>7, <3>1 DEF NoneAgain
    <3>2. CASE file'[j].no = written + 1
      BY <1>0, <2>4, <3>2
    <3>3. QED
      BY <2>5, <3>1, <3>2
  <2>8. ASSUME NEW i \in DOMAIN got, NEW j \in DOMAIN file', j > offset
        PROVE  got[i].no < file'[j].no
    <3>1. CASE j \in DOMAIN file /\ file'[j] = file[j]
      BY <1>10, <2>8, <3>1 DEF Rising
    <3>2. CASE file'[j].no = written + 1
      <4>1. got[i].no \in Nat /\ got[i].no <= written
        BY <2>4
      <4>2. QED
        BY <1>0, <3>2, <4>1
    <3>3. QED
      BY <2>5, <3>1, <3>2
  <2>9. /\ \A i \in DOMAIN taken : taken[i] <= written'
        /\ \A i \in DOMAIN got : got[i].no <= written'
        /\ \A i \in DOMAIN file' : file'[i].no <= written'
    <3>0. \A n \in Nat : n <= written => n <= written'
      BY <1>0, <2>2
    <3>1. \A i \in DOMAIN taken : taken[i] <= written'
      BY <2>4, <3>0
    <3>2. \A i \in DOMAIN got : got[i].no <= written'
      BY <2>4, <3>0
    <3>3. written + 1 <= written'
      BY <1>0, <2>2
    <3>4. \A i \in DOMAIN file' : file'[i].no <= written'
      BY <2>4, <2>5, <3>0, <3>3
    <3>5. QED
      BY <3>1, <3>2, <3>4
  <2>10. Rising'
    BY <1>10, <2>3, <2>6, <2>8, <2>9 DEF Rising
  <2>11. NoneAgain => NoneAgain'
    BY <2>3, <2>7 DEF NoneAgain
  <2>12. QED
    BY <1>11, <2>3, <2>10, <2>11
<1>3. CASE ReadChunk
  <2>2. UNCHANGED <<file, taken, written, failures>>
    BY <1>3 DEF ReadChunk
  <2>3. ASSUME NEW i \in DOMAIN got'
        PROVE  \/ i \in DOMAIN got /\ got'[i] = got[i]
               \/ /\ i > Len(got)
                  /\ offset + (i - Len(got)) \in DOMAIN file
                  /\ got'[i] = file[offset + (i - Len(got))]
    <3>1. CASE i <= Len(got)
      BY <1>0, <1>3, <3>1, ChunkRead
    <3>2. CASE ~(i <= Len(got))
      <4> DEFINE k == i - Len(got)
      <4>1. k \in 1..Len(file) - offset /\ Len(got) + k = i /\ i > Len(got)
            /\ offset + k \in DOMAIN file
        <5>1. /\ DOMAIN got' = 1..Len(got') /\ offset < Len(file)
              /\ Len(got') = Len(got) + (Len(file) - offset)
          BY <1>3, ChunkRead
        <5>2. QED
          BY <1>0, <3>2, <5>1
      <4> HIDE DEF k
      <4>2. got'[Len(got) + k] = file[offset + k]
        BY <1>3, <4>1, ChunkRead
      <4>3. QED
        BY <4>1, <4>2 DEF k
    <3>3. QED
      BY <3>1, <3>2
  <2>4. ASSUME NEW i \in DOMAIN got', NEW j \in DOMAIN got', i < j
        PROVE  got'[i].no < got'[j].no
    <3>1. i \in Nat /\ j \in Nat
      BY <1>3, ChunkRead
    <3>2. CASE j \in DOMAIN got /\ got'[j] = got[j]
      BY <1>0, <1>10, <2>3, <2>4, <3>1, <3>2 DEF Rising
    <3>3. CASE /\ j > Len(got) /\ offset + (j - Len(got)) \in DOMAIN file
               /\ got'[j] = file[offset + (j - Len(got))]
      <4>1. offset + (j - Len(got)) > offset
        BY <1>0, <3>1, <3>3
      <4>2. CASE i \in DOMAIN got /\ got'[i] = got[i]
        BY <1>10, <3>3, <4>1, <4>2 DEF Rising
      <4>3. CASE /\ i > Len(got) /\ offset + (i - Len(got)) \in DOMAIN file
                 /\ got'[i] = file[offset + (i - Len(got))]
        <5>1. offset + (i - Len(got)) < offset + (j - Len(got))
          BY <1>0, <2>4, <3>1
        <5>2. QED
          BY <1>10, <3>3, <4>3, <5>1 DEF Rising
      <4>4. QED
        BY <2>3, <4>2, <4>3
    <3>4. QED
      BY <2>3, <3>2, <3>3
  <2>5. ASSUME NoneAgain, NEW i \in DOMAIN taken, NEW j \in DOMAIN got'
        PROVE  taken[i] < got'[j].no
    BY <2>3, <2>5 DEF NoneAgain
  <2>6. ASSUME NEW i \in DOMAIN got' PROVE got'[i].no <= written
    BY <1>10, <2>3 DEF Rising
  <2>7. \A j \in DOMAIN file : ~(j > offset')
    BY <1>0, <1>3, ChunkRead
  <2>8. Rising'
    BY <1>10, <2>2, <2>4, <2>6, <2>7 DEF Rising
  <2>9. NoneAgain => NoneAgain'
    BY <2>2, <2>5 DEF NoneAgain
  <2>10. QED
    BY <1>11, <2>2, <2>8, <2>9
<1>4. CASE ReadEnd
  <2>1. UNCHANGED <<file, taken, written, failures>>
    BY <1>4 DEF ReadEnd
  <2>2. CASE UNCHANGED <<got, offset>>
    BY <1>10, <1>11, <2>1, <2>2 DEF Rising, NoneAgain
  <2>3. CASE got' = << >> /\ offset' = 0
    <3>1. DOMAIN got' = {}
      BY <2>3
    <3>2. Rising' /\ (NoneAgain => NoneAgain')
      BY <1>10, <2>1, <3>1 DEF Rising, NoneAgain
    <3>3. QED
      BY <1>11, <2>1, <3>2
  <2>4. QED
    BY <1>4, <2>2, <2>3 DEF ReadEnd
<1>5. CASE EmptyFile
  <2>1. /\ got' = << >> /\ written' = written /\ DOMAIN got' = {}
        /\ taken' = taken \o Numbers(got)
        /\ \/ file' = << >> /\ failures' = failures
           \/ file' = file /\ failures' = failures + 1
    BY <1>5 DEF EmptyFile, FileLeft
  <2> DEFINE q == Numbers(got)
             U == 1..MaxLines
  <2>2. q \in Seq(U) /\ Len(q) = Len(got) /\ \A i \in DOMAIN got : q[i] = got[i].no
    BY <1>0, NumbersType
  <2> HIDE DEF q, U
  <2>3. taken' = Cat(taken, q) /\ taken \in Seq(U) /\ U \subseteq Nat
    BY <1>0, <2>1 DEF q, U, Cat
  <2>4. taken \in Seq(Nat) /\ q \in Seq(Nat)
    <3>1. \A X, T, s : s \in Seq(X) /\ X \subseteq T => s \in Seq(T)
      OBVIOUS
    <3>2. QED
      BY <2>2, <2>3, <3>1
  <2>5. ASSUME NEW i \in DOMAIN taken' PROVE taken'[i] <= written'
    <3>1. /\ Len(Cat(taken, q)) = Len(taken) + Len(q) /\ Cat(taken, q) \in Seq(Nat)
          /\ \A k \in 1..Len(taken) + Len(q) :
                 Cat(taken, q)[k] = IF k <= Len(taken) THEN taken[k] ELSE q[k - Len(taken)]
      BY <2>4, CatProperties
    <3>2. i \in 1..Len(taken) + Len(q)
      BY <2>3, <3>1
    <3>3. CASE i <= Len(taken)
      BY <1>0, <1>10, <2>1, <2>3, <3>1, <3>2, <3>3 DEF Rising
    <3>4. CASE ~(i <= Len(taken))
      <4>1. i - Len(taken) \in DOMAIN got
        BY <1>0, <2>2, <3>2, <3>4
      <4>2. taken'[i] = got[i - Len(taken)].no
        BY <2>2, <2>3, <3>1, <3>2, <3>4, <4>1
      <4>3. QED
        BY <1>10, <2>1, <4>1, <4>2 DEF Rising
    <3>5. QED
      BY <3>3, <3>4
  <2>6. Rising'
    <3>1. DOMAIN << >> = {}
      OBVIOUS
    <3>2. \A i, j \in DOMAIN file' : i < j => file'[i].no < file'[j].no
      BY <1>10, <2>1, <3>1 DEF Rising
    <3>3. \A i \in DOMAIN file' : file'[i].no <= written'
      BY <1>10, <2>1, <3>1 DEF Rising
    <3>4. QED
      BY <2>1, <2>5, <3>2, <3>3 DEF Rising
  <2>7. \A i, j \in 1..Len(q) : i < j => q[i] < q[j]
    BY <1>0, <1>10, <2>2 DEF Rising
  <2>8. NoneAgain => \A i \in 1..Len(taken) : \A j \in 1..Len(q) : taken[i] < q[j]
    BY <1>0, <2>2 DEF NoneAgain
  <2> DEFINE now == Cardinality(StepsBack(taken))
             then == Cardinality(StepsBack(Cat(taken, q)))
  <2>9. /\ then \in Nat /\ then <= now + 1 /\ (NoneAgain => then <= now)
    BY <2>4, <2>7, <2>8, StepsBackCat
  <2>10. now \in Nat
    BY <1>0, StepsBackFinite
  <2>11. now <= failures /\ (NoneAgain \/ now < failures)
    BY <1>10 DEF PaidFor, Steps
  <2>12. Steps' = then
    BY <2>3 DEF Steps, StepsBack
  <2> HIDE DEF now, then
  <2>13. then <= failures
    BY <1>0, <2>9, <2>10, <2>11
  <2>14. CASE file' = << >> /\ failures' = failures
    <3>1. DOMAIN file' = {}
      BY <2>14
    <3>2. NoneAgain'
      BY <2>1, <3>1 DEF NoneAgain
    <3>3. QED
      BY <2>6, <2>12, <2>13, <2>14, <3>2 DEF PaidFor
  <2>15. CASE failures' = failures + 1
    <3>1. then <= failures' /\ then < failures'
      BY <1>0, <2>9, <2>13, <2>15
    <3>2. QED
      BY <2>6, <2>12, <3>1 DEF PaidFor
  <2>16. QED
    BY <2>1, <2>14, <2>15
<1>6. CASE UNCHANGED <<file, got, offset, taken, written, failures>>
  BY <1>10, <1>11, <1>6 DEF Rising, NoneAgain
<1>7. CASE HandleMessage \/ UNCHANGED vars
  BY <1>6, <1>7 DEF HandleMessage, vars
<1>8. QED
  BY <1>1, <1>2, <1>3, <1>4, <1>5, <1>7 DEF Next, ReadThread

(* Lines are taken in the order they were written, and again from an earlier one
   no more often than the file could not be emptied.                         *)
THEOREM LinesTakenInOrder == Spec => []LinesInOrder
<1>1. Init => InOrder
  BY TextInitInv
<1>2. TextTypeInv /\ InOrder /\ [Next]_vars => InOrder'
  BY OrderStep
<1>3. InOrder => LinesInOrder
  BY DEF InOrder, PaidFor, Steps, LinesInOrder
<1>4. QED
  BY <1>1, <1>2, <1>3, TextTypeAlways, PTL DEF Spec

-----------------------------------------------------------------------------

(* The tokens of the template and of the values a message has for it. *)
TokensOf(message) ==
    Range(Template) \cup {Quote, Now}
        \cup {Number(message.values[label].num) : label \in Labels(Template)}
        \cup UNION {Range(message.values[label].text) : label \in Labels(Template)}

LEMMA TemplateSuits ==
    ASSUME NEW message \in Messages, message.kind = "json"
    PROVE  Suits(Template, message, TokensOf(message))
<1> DEFINE T == TokensOf(message)
<1>1. \A X, q : q \in Seq(X) /\ X \subseteq T => q \in Seq(T)
  <2>1. SUFFICES ASSUME NEW X, X \subseteq T, NEW q \in Seq(X) PROVE q \in Seq(T)
    OBVIOUS
  <2> HIDE DEF T
  <2>2. QED
    BY <2>1
<1>2. Template \in Seq(T)
  BY <1>1, TextAssumption DEF IsText, TokensOf
<1>3. ASSUME NEW label \in Labels(Template)
      PROVE  IF message.values[label].type = "string"
             THEN message.values[label].text \in Seq(T)
             ELSE Number(message.values[label].num) \in T
  <2>1. CASE message.values[label].type = "string"
    <3>1. message.values[label].text \in Seq(Range(message.values[label].text))
      BY <2>1, TextAssumption DEF IsText
    <3>2. Range(message.values[label].text) \subseteq T
      BY DEF TokensOf
    <3> HIDE DEF T
    <3>3. QED
      BY <1>1, <2>1, <3>1, <3>2
  <2>2. CASE message.values[label].type # "string"
    BY <2>2 DEF TokensOf
  <2>3. QED
    BY <2>1, <2>2
<1>4. QED
  BY <1>2, <1>3 DEF Suits, TokensOf

(* What a message that fits the template comes out as is the template with
   all its slots replaced at once.                                         *)
THEOREM OutputFollowsTemplate == Spec => []WrittenAsTemplate
<1>1. ASSUME TextTypeInv PROVE WrittenAsTemplate
  <2>1. SUFFICES ASSUME NEW i \in DOMAIN datumQ,
                        IsPlain(Template, datumQ[i].from.says),
                        FitsTemplate(Template, datumQ[i].from.says)
                 PROVE  datumQ[i].text = Rewritten(Template, datumQ[i].from.says)
    BY DEF WrittenAsTemplate
  <2>2. datumQ[i] \in Outputs
    BY <1>1 DEF TextTypeInv
  <2>3. PICK line \in Lines :
            /\ datumQ[i] = [from |-> line, text |-> format_msg(Template, line.says)]
            /\ format_msg(Template, line.says) # Refusal
    BY <2>2 DEF Outputs
  <2> DEFINE message == line.says
  <2>4. message \in Messages /\ datumQ[i].from.says = message
    BY <2>3 DEF Lines
  <2>5. datumQ[i].text = Filled(Template, message)
    BY <2>3 DEF format_msg
  <2> HIDE DEF message
  <2>6. message.kind = "json"
    BY <2>1, <2>4 DEF FitsTemplate
  <2>7. Suits(Template, message, TokensOf(message))
    BY <2>4, <2>6, TemplateSuits
  <2>8. Filled(Template, message) = Rewritten(Template, message)
    BY <2>1, <2>4, <2>7, SubstitutionIsSimultaneous
  <2>9. QED
    BY <2>4, <2>5, <2>8
<1>2. QED
  BY <1>1, TextTypeAlways, PTL

-----------------------------------------------------------------------------
(* JSON, token by token *)

(* The end of the text is outside its strings; what IsJson asks of its tokens;
   what a token must be to go on from there.                               *)
Open(text) == Outside(text, Len(text) + 1)
Sound(text) ==
    /\ \A i \in DOMAIN text : Outside(text, i) => text[i][1] \in {"mark", "number"}
    /\ \A i \in 2..Len(text) :
        /\ text[i] = Quote /\ text[i - 1] = Quote => Outside(text, i - 1)
        /\ text[i] = Colon /\ Outside(text, i) => text[i - 1] = Quote
Joins(text, x) ==
    /\ x[1] \in {"mark", "number"}
    /\ text # << >> =>
        /\ x = Quote => Last(text) # Quote
        /\ x = Colon => Last(text) = Quote

LEMMA JsonIs == \A text : IsJson(text) <=> text # << >> /\ Open(text) /\ Sound(text)
  BY DEF IsJson, Open, Sound

LEMMA QuotesStep ==
    ASSUME NEW text, NEW i \in Nat \ {0}
    PROVE  /\ QuotesBefore(text, i) \in Nat
           /\ QuotesBefore(text, i + 1)
                  = IF text[i] = Quote THEN QuotesBefore(text, i) + 1
                                       ELSE QuotesBefore(text, i)
<1> DEFINE S(n) == {j \in 1..n - 1 : text[j] = Quote}
<1>1. IsFiniteSet(S(i)) /\ Cardinality(S(i)) \in Nat
  <2>1. IsFiniteSet(1..i - 1) /\ S(i) \in SUBSET (1..i - 1)
    BY FS_Interval
  <2> HIDE DEF S
  <2>2. IsFiniteSet(S(i))
    BY <2>1, FS_Subset
  <2>3. QED
    BY <2>2, FS_CardinalityType
<1>2. i \notin S(i)
  OBVIOUS
<1>3. S(i + 1) = IF text[i] = Quote THEN S(i) \cup {i} ELSE S(i)
  OBVIOUS
<1> HIDE DEF S
<1>4. Cardinality(S(i) \cup {i}) = Cardinality(S(i)) + 1
  BY <1>1, <1>2, FS_AddElement
<1>5. Cardinality(S(i + 1)) = IF text[i] = Quote THEN Cardinality(S(i)) + 1
                                                  ELSE Cardinality(S(i))
  BY <1>3, <1>4
<1>6. QED
  BY <1>1, <1>5 DEF QuotesBefore, S

LEMMA OutsideStep ==
    ASSUME NEW text, NEW i \in Nat \ {0}
    PROVE  Outside(text, i + 1) <=> IF text[i] = Quote THEN ~Outside(text, i)
                                                       ELSE Outside(text, i)
<1>1. \A n \in Nat : (n + 1) % 2 = 0 <=> ~(n % 2 = 0)
  OBVIOUS
<1>2. QED
  BY <1>1, QuotesStep DEF Outside

LEMMA JsonEmpty == Open(<< >>) /\ Sound(<< >>)
<1>1. {j \in 1..(0 + 1) - 1 : << >>[j] = Quote} = {}
  OBVIOUS
<1>2. QuotesBefore(<< >>, 0 + 1) = 0
  BY <1>1, FS_EmptySet DEF QuotesBefore
<1>3. Len(<< >>) = 0 /\ DOMAIN << >> = {} /\ 0 % 2 = 0
  OBVIOUS
<1>4. Outside(<< >>, 0 + 1)
  BY <1>2, <1>3 DEF Outside
<1>5. QED
  BY <1>3, <1>4 DEF Open, Sound

LEMMA OutsideAppend ==
    ASSUME NEW T, NEW text \in Seq(T), NEW x \in T, NEW i \in 1..Len(text) + 1
    PROVE  Outside(Append(text, x), i) <=> Outside(text, i)
<1>1. {j \in 1..i - 1 : Append(text, x)[j] = Quote} = {j \in 1..i - 1 : text[j] = Quote}
  OBVIOUS
<1>2. QED
  BY <1>1 DEF Outside, QuotesBefore

LEMMA OpenAppend ==
    ASSUME NEW T, NEW text \in Seq(T), NEW x \in T
    PROVE  Open(Append(text, x)) <=> IF x = Quote THEN ~Open(text) ELSE Open(text)
<1> DEFINE n == Len(text) + 1
           more == Append(text, x)
<1>1. n \in Nat \ {0} /\ n \in 1..n /\ Len(more) = n /\ more[n] = x
  OBVIOUS
<1>2. Outside(more, n) <=> Outside(text, n)
  BY <1>1, OutsideAppend
<1> HIDE DEF n, more
<1>3. Outside(more, n + 1) <=> IF x = Quote THEN ~Outside(more, n) ELSE Outside(more, n)
  BY <1>1, OutsideStep
<1>4. QED
  BY <1>1, <1>2, <1>3 DEF Open, n, more

LEMMA OutsideLast ==
    ASSUME NEW T, NEW text \in Seq(T), text # << >>, Last(text) = Quote
    PROVE  Outside(text, Len(text)) <=> ~Open(text)
<1> DEFINE n == Len(text)
<1>1. n \in Nat \ {0} /\ text[n] = Quote
  BY DEF Last
<1>2. QED
  BY <1>1, OutsideStep DEF Open

LEMMA SoundAppend ==
    ASSUME NEW T, NEW text \in Seq(T), NEW x \in T
    PROVE  Sound(Append(text, x)) <=> Sound(text) /\ (Open(text) => Joins(text, x))
<1> DEFINE n == Len(text)
           more == Append(text, x)
           Fine(t, i) == Outside(t, i) => t[i][1] \in {"mark", "number"}
           Next2(t, i) == /\ t[i] = Quote /\ t[i - 1] = Quote => Outside(t, i - 1)
                          /\ t[i] = Colon /\ Outside(t, i) => t[i - 1] = Quote
<1>1. /\ n \in Nat /\ Len(more) = n + 1 /\ more[n + 1] = x
      /\ DOMAIN text = 1..n /\ DOMAIN more = 1..n + 1
      /\ \A i \in 1..n : more[i] = text[i]
  OBVIOUS
<1>2. \A i \in 1..n + 1 : Outside(more, i) <=> Outside(text, i)
  BY OutsideAppend
<1>3. \A i \in 1..n : Fine(more, i) <=> Fine(text, i)
  BY <1>1, <1>2
<1>4. \A i \in 2..n : Next2(more, i) <=> Next2(text, i)
  <2> HIDE DEF more, n
  <2>1. ASSUME NEW i \in 2..n PROVE Next2(more, i) <=> Next2(text, i)
    <3>1. i \in 1..n /\ i - 1 \in 1..n /\ i \in 1..n + 1 /\ i - 1 \in 1..n + 1
      BY <1>1
    <3>2. QED
      BY <1>1, <1>2, <3>1
  <2>2. QED
    BY <2>1
<1>5. Fine(more, n + 1) <=> (Open(text) => x[1] \in {"mark", "number"})
  <2>1. n + 1 \in 1..n + 1
    BY <1>1
  <2>2. QED
    BY <1>1, <1>2, <2>1 DEF Open
<1>6. ASSUME text # << >>
      PROVE  /\ n + 1 \in 2..n + 1
             /\ Next2(more, n + 1) <=>
                    (Open(text) => /\ x = Quote => Last(text) # Quote
                                   /\ x = Colon => Last(text) = Quote)
  <2>1. n \in 1..n /\ n + 1 \in 1..n + 1 /\ n \in 1..n + 1 /\ (n + 1) - 1 = n
        /\ n + 1 \in 2..n + 1
    BY <1>1, <1>6
  <2>2. more[n] = Last(text) /\ (Outside(more, n) <=> Outside(text, n))
        /\ (Outside(more, n + 1) <=> Open(text))
    BY <1>1, <1>2, <2>1 DEF Last, Open
  <2>3. Last(text) = Quote => (Outside(text, n) <=> ~Open(text))
    BY <1>6, OutsideLast
  <2>4. Quote # Colon
    BY DEF Quote, Colon, Mark
  <2> HIDE DEF more, n
  <2>5. QED
    BY <1>1, <2>1, <2>2, <2>3, <2>4
<1>7. text = << >> => n = 0
  OBVIOUS
<1>8. Sound(more) <=> /\ \A i \in 1..n + 1 : Fine(more, i)
                      /\ \A i \in 2..n + 1 : Next2(more, i)
  BY <1>1 DEF Sound
<1>9. Sound(text) <=> /\ \A i \in 1..n : Fine(text, i)
                      /\ \A i \in 2..n : Next2(text, i)
  BY <1>1 DEF Sound
<1> HIDE DEF Fine, Next2, more
<1>10. (\A i \in 1..n + 1 : Fine(more, i))
           <=> (\A i \in 1..n : Fine(more, i)) /\ Fine(more, n + 1)
  <2>1. \A i \in 1..n + 1 : i \in 1..n \/ i = n + 1
    BY <1>1
  <2>2. 1..n \subseteq 1..n + 1 /\ n + 1 \in 1..n + 1
    BY <1>1
  <2> HIDE DEF n
  <2>3. QED
    BY <2>1, <2>2
<1>11. CASE text = << >>
  <2>1. n = 0 /\ 2..n + 1 = {} /\ 2..n = {}
    BY <1>7, <1>11
  <2>2. QED
    BY <1>3, <1>5, <1>8, <1>9, <1>10, <1>11, <2>1 DEF Joins, more
<1>12. CASE text # << >>
  <2>1. (\A i \in 2..n + 1 : Next2(more, i))
            <=> (\A i \in 2..n : Next2(more, i)) /\ Next2(more, n + 1)
    <3>1. \A i \in 2..n + 1 : i \in 2..n \/ i = n + 1
      BY <1>1
    <3>2. 2..n \subseteq 2..n + 1 /\ n + 1 \in 2..n + 1
      BY <1>1, <1>6, <1>12
    <3> HIDE DEF n
    <3>3. QED
      BY <3>1, <3>2
  <2>2. (\A i \in 2..n : Next2(more, i)) <=> (\A i \in 2..n : Next2(text, i))
    BY <1>4
  <2>3. (\A i \in 1..n : Fine(more, i)) <=> (\A i \in 1..n : Fine(text, i))
    BY <1>3
  <2> HIDE DEF n
  <2>4. Sound(more) <=> /\ Sound(text)
                        /\ Fine(more, n + 1) /\ Next2(more, n + 1)
    BY <1>8, <1>9, <1>10, <2>1, <2>2, <2>3
  <2>5. QED
    BY <1>5, <1>6, <1>12, <2>4 DEF Joins, more
<1>13. QED
  BY <1>11, <1>12

-----------------------------------------------------------------------------
(* The strings of a message, put in quotes *)

(* What is wrong at one token stays wrong. *)
LEMMA SoundPrefix ==
    ASSUME NEW T, NEW text \in Seq(T)
    PROVE  \A s \in Seq(T) : Sound(Cat(text, s)) => Sound(text)
<1> DEFINE G == {s \in Seq(T) : Sound(Cat(text, s)) => Sound(text)}
<1>1. << >> \in G
  BY DEF Cat
<1>2. ASSUME NEW s \in Seq(T), NEW x \in T, s \in G PROVE Append(s, x) \in G
  <2>1. Append(s, x) \in Seq(T) /\ Cat(text, s) \in Seq(T)
    BY AppendProperties, CatProperties
  <2>2. Cat(text, Append(s, x)) = Append(Cat(text, s), x)
    BY DEF Cat
  <2>3. Sound(Append(Cat(text, s), x)) => Sound(Cat(text, s))
    BY <2>1, SoundAppend
  <2>4. QED
    BY <1>2, <2>1, <2>2, <2>3
<1>3. Seq(T) \subseteq G
  <2> HIDE DEF G
  <2>1. QED
    BY <1>1, <1>2, Slots!SequenceInduction
<1>4. QED
  BY <1>3

(* Inside a string anything may come, but for a quote, which ends it; what JSON
   could not go on with may not follow then.                               *)
HasQuote(s) == \E i \in DOMAIN s : s[i] = Quote
LEMMA InString ==
    ASSUME NEW T, NEW text \in Seq(T), Sound(text), ~Open(text)
    PROVE  \A s \in Seq(T) :
               IF ~HasQuote(s) THEN Sound(Cat(text, s)) /\ ~Open(Cat(text, s))
               ELSE StopsAtQuotes(s) =>
                        \/ ~Sound(Cat(text, s))
                        \/ Open(Cat(text, s)) /\ Last(s) = Quote
<1> DEFINE On(s) == Cat(text, s)
           Ok(s) == IF ~HasQuote(s) THEN Sound(On(s)) /\ ~Open(On(s))
                    ELSE StopsAtQuotes(s) => \/ ~Sound(On(s))
                                             \/ Open(On(s)) /\ Last(s) = Quote
           G == {s \in Seq(T) : Ok(s)}
<1>1. << >> \in G
  <2>1. ~HasQuote(<< >>) /\ Cat(text, << >>) = text
    BY DEF HasQuote, Cat
  <2>2. QED
    BY <2>1
<1>2. ASSUME NEW s \in Seq(T), NEW x \in T, s \in G PROVE Append(s, x) \in G
  <2> DEFINE more == Append(s, x)
  <2>1. more \in Seq(T) /\ On(s) \in Seq(T)
    BY AppendProperties, CatProperties
  <2>2. On(more) = Append(On(s), x)
    BY DEF Cat
  <2>3. /\ Sound(On(more)) <=> Sound(On(s)) /\ (Open(On(s)) => Joins(On(s), x))
        /\ Open(On(more)) <=> IF x = Quote THEN ~Open(On(s)) ELSE Open(On(s))
    BY <2>1, <2>2, SoundAppend, OpenAppend
  <2>4. HasQuote(more) <=> HasQuote(s) \/ x = Quote
    <3>1. /\ DOMAIN s = 1..Len(s) /\ DOMAIN more = 1..Len(s) + 1 /\ Len(s) \in Nat
          /\ more[Len(s) + 1] = x /\ \A i \in 1..Len(s) : more[i] = s[i]
      OBVIOUS
    <3> HIDE DEF more
    <3>2. QED
      BY <3>1 DEF HasQuote
  <2>5. Last(more) = x
    BY DEF Last
  <2>6. CASE ~HasQuote(s)
    <3>1. Sound(On(s)) /\ ~Open(On(s))
      BY <1>2, <2>6
    <3>2. Sound(On(more)) /\ (Open(On(more)) <=> x = Quote) /\ (HasQuote(more) <=> x = Quote)
      <4> HIDE DEF On, more
      <4>1. QED
        BY <2>3, <2>4, <2>6, <3>1
    <3>3. Ok(more)
      <4> HIDE DEF On, more
      <4>1. QED
        BY <2>5, <3>2
    <3>4. QED
      BY <2>1, <3>3
  <2>7. CASE HasQuote(s)
    <3>1. SUFFICES ASSUME StopsAtQuotes(more) PROVE ~Sound(On(more))
      BY <2>1, <2>4, <2>7
    <3>2. s # << >> /\ Len(s) \in Nat /\ Len(s) # 0
      BY <2>7 DEF HasQuote
    <3>3. /\ Len(more) = Len(s) + 1 /\ more[Len(s)] = Last(s) /\ more[Len(s) + 1] = x
          /\ \A i \in 1..Len(s) : more[i] = s[i]
      BY <3>2 DEF Last
    <3>4. StopsAtQuotes(s)
      <4> HIDE DEF more
      <4>1. QED
        BY <3>1, <3>2, <3>3 DEF StopsAtQuotes
    <3>5. CASE ~Sound(On(s))
      BY <2>3, <3>5
    <3>6. CASE Open(On(s)) /\ Last(s) = Quote
      <4>1. x = Quote \/ x[1] \notin {"mark", "number"}
        <5>1. Len(s) \in 1..Len(more) - 1
          BY <3>2, <3>3
        <5> HIDE DEF more
        <5>2. QED
          BY <3>1, <3>3, <3>6, <5>1 DEF StopsAtQuotes
      <4>2. On(s) # << >> /\ Last(On(s)) = Quote
        <5> DEFINE on == On(s)
        <5>1. /\ Len(on) = Len(text) + Len(s) /\ on \in Seq(T)
              /\ \A i \in 1..Len(text) + Len(s) :
                     on[i] = IF i <= Len(text) THEN text[i] ELSE s[i - Len(text)]
          BY CatProperties
        <5> HIDE DEF on
        <5>2. Len(text) \in Nat
          OBVIOUS
        <5>3. /\ Len(on) \in 1..Len(text) + Len(s) /\ ~(Len(on) <= Len(text))
              /\ Len(on) - Len(text) = Len(s)
          BY <3>2, <5>1, <5>2
        <5>4. on[Len(on)] = s[Len(s)]
          BY <5>1, <5>3
        <5>5. on # << >>
          BY <5>1, <5>3
        <5>6. QED
          BY <3>6, <5>4, <5>5 DEF Last, on
      <4>3. ~Joins(On(s), x)
        BY <4>1, <4>2 DEF Joins
      <4>4. QED
        BY <2>3, <3>6, <4>3
    <3>7. QED
      BY <1>2, <2>7, <3>4, <3>5, <3>6
  <2>8. QED
    BY <2>6, <2>7
<1>3. Seq(T) \subseteq G
  <2> HIDE DEF G
  <2>1. QED
    BY <1>1, <1>2, Slots!SequenceInduction
<1>4. QED
  BY <1>3

LEMMA LastAppended ==
    ASSUME NEW T, NEW text \in Seq(T), NEW x \in T
    PROVE  /\ Append(text, x) \in Seq(T) /\ Append(text, x) # << >>
           /\ Last(Append(text, x)) = x
<1>1. Append(text, x) \in Seq(T) /\ Len(Append(text, x)) = Len(text) + 1
      /\ Append(text, x)[Len(text) + 1] = x /\ Len(text) \in Nat
  BY AppendProperties
<1>2. QED
  BY <1>1 DEF Last

(* A string put in quotes, outside of the strings before it. *)
LEMMA AddString ==
    ASSUME NEW T, NEW text \in Seq(T), NEW s \in Seq(T), Quote \in T,
           Sound(text), Open(text), text # << >> => Last(text) # Quote,
           NEW new, new = Append(Cat(Append(text, Quote), s), Quote)
    PROVE  /\ new \in Seq(T) /\ new # << >> /\ Last(new) = Quote
           /\ ~HasQuote(s) => Sound(new) /\ Open(new)
           /\ HasQuote(s) /\ StopsAtQuotes(s) => ~Sound(new)
<1> DEFINE opened == Append(text, Quote)
           on == Cat(opened, s)
<1>0. Quote[1] = "mark" /\ Quote # Colon
  BY DEF Quote, Mark, Colon
<1>1. opened \in Seq(T) /\ Sound(opened) /\ ~Open(opened)
      /\ opened # << >> /\ Last(opened) = Quote
  <2>1. Joins(text, Quote)
    BY <1>0 DEF Joins
  <2>2. QED
    BY <2>1, SoundAppend, OpenAppend, LastAppended
<1> HIDE DEF opened
<1>2. on \in Seq(T)
  BY <1>1, CatProperties
<1>3. IF ~HasQuote(s) THEN Sound(on) /\ ~Open(on)
      ELSE StopsAtQuotes(s) => ~Sound(on) \/ (Open(on) /\ Last(s) = Quote)
  BY <1>1, InString
<1>4. HasQuote(s) /\ Last(s) = Quote => on # << >> /\ Last(on) = Quote
  <2>1. SUFFICES ASSUME HasQuote(s), Last(s) = Quote PROVE on # << >> /\ Last(on) = Quote
    OBVIOUS
  <2>2. Len(s) \in Nat /\ Len(s) # 0 /\ Len(opened) \in Nat
    BY <1>1, <2>1 DEF HasQuote
  <2>3. /\ Len(on) = Len(opened) + Len(s)
        /\ \A i \in 1..Len(opened) + Len(s) :
               on[i] = IF i <= Len(opened) THEN opened[i] ELSE s[i - Len(opened)]
    BY <1>1, CatProperties
  <2> HIDE DEF on
  <2>4. /\ Len(on) \in 1..Len(opened) + Len(s) /\ ~(Len(on) <= Len(opened))
        /\ Len(on) - Len(opened) = Len(s)
    BY <2>2, <2>3
  <2>5. on[Len(on)] = s[Len(s)] /\ on # << >>
    BY <1>2, <2>3, <2>4
  <2>6. QED
    BY <2>1, <2>5 DEF Last
<1>5. new = Append(on, Quote)
  BY DEF opened
<1> HIDE DEF on
<1>6. /\ Sound(new) <=> Sound(on) /\ (Open(on) => Joins(on, Quote))
      /\ Open(new) <=> ~Open(on)
      /\ new \in Seq(T) /\ new # << >> /\ Last(new) = Quote
  BY <1>2, <1>5, SoundAppend, OpenAppend, LastAppended
<1>7. on # << >> /\ Last(on) = Quote => ~Joins(on, Quote)
  BY DEF Joins
<1>8. QED
  BY <1>3, <1>4, <1>6, <1>7

(* An empty string can only go where JSON has room for a value. *)
LEMMA AddEmptyString ==
    ASSUME NEW T, NEW text \in Seq(T), Quote \in T,
           NEW new, new = Append(Append(text, Quote), Quote)
    PROVE  /\ new \in Seq(T) /\ new # << >> /\ Last(new) = Quote
           /\ Open(new) <=> Open(text)
           /\ Sound(new) => /\ Sound(text) /\ Open(text)
                            /\ text # << >> => Last(text) # Quote
<1> DEFINE opened == Append(text, Quote)
<1>1. /\ Sound(opened) <=> Sound(text) /\ (Open(text) => Joins(text, Quote))
      /\ Open(opened) <=> ~Open(text)
      /\ opened \in Seq(T) /\ opened # << >> /\ Last(opened) = Quote
  BY SoundAppend, OpenAppend, LastAppended
<1> HIDE DEF opened
<1>2. /\ Sound(new) <=> Sound(opened) /\ (Open(opened) => Joins(opened, Quote))
      /\ Open(new) <=> ~Open(opened)
      /\ new \in Seq(T) /\ new # << >> /\ Last(new) = Quote
  <2> HIDE DEF opened
  <2>1. new = Append(opened, Quote)
    BY DEF opened
  <2>2. QED
    BY <1>1, <2>1, SoundAppend, OpenAppend, LastAppended
<1>3. ~Joins(opened, Quote)
  BY <1>1 DEF Joins
<1>4. Joins(text, Quote) /\ text # << >> => Last(text) # Quote
  BY DEF Joins
<1>5. QED
  BY <1>1, <1>2, <1>3, <1>4

-----------------------------------------------------------------------------
(* The template with its slots filled, token by token *)

Mapped(t, F) == FlattenSeq([i \in DOMAIN t |-> F[t[i]]])

LEMMA MappedEmpty == \A F : Mapped(<< >>, F) = << >>
<1> SUFFICES ASSUME NEW F PROVE Mapped(<< >>, F) = << >>
  OBVIOUS
<1>1. [i \in DOMAIN << >> |-> F[<< >>[i]]] = << >>
  OBVIOUS
<1>2. QED
  BY <1>1, FlattenEmpty DEF Mapped

Fills(F, U, T) == F \in [U -> Seq(T)]

LEMMA MappedType ==
    ASSUME NEW T, NEW U, NEW F, Fills(F, U, T), NEW t \in Seq(U)
    PROVE  [i \in DOMAIN t |-> F[t[i]]] \in Seq(Seq(T)) /\ Mapped(t, F) \in Seq(T)
<1>1. DOMAIN t = 1..Len(t) /\ Len(t) \in Nat /\ \A i \in DOMAIN t : t[i] \in U
  OBVIOUS
<1>2. [i \in DOMAIN t |-> F[t[i]]] \in [1..Len(t) -> Seq(T)]
  BY <1>1 DEF Fills
<1>3. [i \in DOMAIN t |-> F[t[i]]] \in Seq(Seq(T))
  BY <1>1, <1>2, SeqDef
<1>4. QED
  BY <1>3, FlattenType DEF Mapped

LEMMA MappedAppend ==
    ASSUME NEW T, NEW U, NEW F, Fills(F, U, T), NEW t \in Seq(U), NEW x \in U
    PROVE  Mapped(Append(t, x), F) = Cat(Mapped(t, F), F[x])
<1> DEFINE parts == [i \in DOMAIN t |-> F[t[i]]]
<1>1. [i \in DOMAIN Append(t, x) |-> F[Append(t, x)[i]]] = Append(parts, F[x])
  <2>1. /\ DOMAIN t = 1..Len(t) /\ Len(t) \in Nat
        /\ DOMAIN Append(t, x) = 1..Len(t) + 1
        /\ \A i \in 1..Len(t) : Append(t, x)[i] = t[i]
        /\ Append(t, x)[Len(t) + 1] = x
    OBVIOUS
  <2>2. parts = [i \in 1..Len(t) |-> F[t[i]]]
    BY <2>1
  <2>3. Len(parts) = Len(t)
    BY <2>1, <2>2
  <2>4. Append(parts, F[x]) = [i \in 1..Len(t) + 1 |-> IF i = Len(t) + 1 THEN F[x] ELSE parts[i]]
    BY <2>1, <2>2, <2>3
  <2>5. \A i \in 1..Len(t) + 1 :
            F[Append(t, x)[i]] = IF i = Len(t) + 1 THEN F[x] ELSE parts[i]
    BY <2>1, <2>2
  <2> HIDE DEF parts
  <2>6. QED
    BY <2>1, <2>4, <2>5
<1>2. parts \in Seq(Seq(T)) /\ F[x] \in Seq(T)
  <2>1. parts \in Seq(Seq(T))
    BY MappedType
  <2> HIDE DEF parts
  <2>2. QED
    BY <2>1 DEF Fills
<1> HIDE DEF parts
<1>3. FlattenSeq(Append(parts, F[x])) = FlattenSeq(parts) \o F[x]
  BY <1>2, FlattenAppend
<1>4. QED
  BY <1>1, <1>3 DEF Mapped, Cat, parts

(* The template with empty strings and that with the values of a message. *)
Blank(template) ==
    [x \in Range(template) |-> IF IsSlot(x) THEN <<Quote, Quote>>
                               ELSE IF x = Call("TS") THEN <<Now>> ELSE <<x>>]
Given(template, message) == [x \in Range(template) |-> Filling(x, message)]

(* The value of a slot suits it. *)
FitsSlot(x, message) ==
    IsSlot(x) => LET value == message.values[x[2]]
                 IN  /\ value.type # "null"
                     /\ value.type = "string" => ~HasQuote(value.text)

(* After the text t, x is no colon that follows a value which is no string. *)
Follows(x, t, message) ==
    x = Colon /\ t # << >> /\ IsSlot(Last(t)) =>
        message.values[Last(t)[2]].type = "string"

(* A message fits a longer template when it fits it up to the last token, and
   there.                                                                  *)
LEMMA FitsAppend ==
    ASSUME NEW U, NEW message, message.kind = "json", NEW t \in Seq(U), NEW x \in U,
           \A y \in U : IsCall(y) => y = Call("TS"),
           \A y \in U : IsSlot(y) /\ message.values[y[2]].type = "string" =>
               \E T : message.values[y[2]].text \in Seq(T)
    PROVE  FitsTemplate(Append(t, x), message) <=>
               FitsTemplate(t, message) /\ FitsSlot(x, message) /\ Follows(x, t, message)
<1> DEFINE n == Len(t)
           more == Append(t, x)
           Named(q, i) == IsSlot(q[i]) /\ i < Len(q) /\ q[i + 1] = Colon =>
                              message.values[q[i][2]].type = "string"
<1>1. /\ n \in Nat /\ DOMAIN t = 1..n /\ DOMAIN more = 1..n + 1 /\ Len(more) = n + 1
      /\ more[n + 1] = x /\ \A i \in 1..n : more[i] = t[i] /\ t[i] \in U
  OBVIOUS
<1>2. \A y \in U : IsSlot(y) /\ message.values[y[2]].type = "string" =>
          (Contains(message.values[y[2]].text, Quote)
               <=> HasQuote(message.values[y[2]].text))
  <2>1. SUFFICES ASSUME NEW T, NEW s \in Seq(T) PROVE Contains(s, Quote) <=> HasQuote(s)
    OBVIOUS
  <2>2. DOMAIN s = 1..Len(s)
    OBVIOUS
  <2>3. QED
    BY <2>2 DEF Contains, HasQuote
<1>3. ASSUME NEW q \in Seq(U)
      PROVE  FitsTemplate(q, message) <=>
                 \A i \in 1..Len(q) : FitsSlot(q[i], message) /\ Named(q, i)
  <2>1. DOMAIN q = 1..Len(q) /\ \A i \in 1..Len(q) : q[i] \in U
    OBVIOUS
  <2>2. QED
    BY <1>2, <2>1 DEF FitsTemplate, FitsSlot
<1>4. more \in Seq(U)
  OBVIOUS
<1>5. \A i \in 1..n : i # n => (Named(more, i) <=> Named(t, i))
  <2>1. \A m \in Nat : \A i \in 1..m : i # m => i + 1 \in 1..m /\ i < m /\ i < m + 1
    OBVIOUS
  <2> HIDE DEF more
  <2>2. ASSUME NEW i \in 1..n, i # n PROVE Named(more, i) <=> Named(t, i)
    <3>1. i + 1 \in 1..n /\ i < n /\ i < n + 1
      BY <1>1, <2>1, <2>2
    <3>2. QED
      BY <1>1, <3>1
  <2>3. QED
    BY <2>2
<1>6. n # 0 => /\ n \in 1..n /\ t # << >> /\ Named(t, n)
               /\ Named(more, n) <=> Follows(x, t, message)
  <2>1. SUFFICES ASSUME n # 0
                 PROVE  /\ n \in 1..n /\ t # << >> /\ Named(t, n)
                        /\ Named(more, n) <=> Follows(x, t, message)
    OBVIOUS
  <2>2. n \in 1..n /\ t # << >> /\ ~(n < n) /\ n < n + 1
    BY <1>1, <2>1
  <2>3. more[n] = t[n] /\ more[n + 1] = x /\ Len(more) = n + 1 /\ Last(t) = t[n]
    BY <1>1, <2>2 DEF Last
  <2>4. Named(t, n)
    BY <2>2
  <2> HIDE DEF more
  <2>5. Named(more, n) <=> (IsSlot(t[n]) /\ x = Colon =>
                                message.values[t[n][2]].type = "string")
    <3> HIDE DEF n
    <3>1. QED
      BY <2>2, <2>3
  <2>6. QED
    BY <2>2, <2>3, <2>4, <2>5 DEF Follows
<1>7. Named(more, n + 1) /\ (n = 0 => t = << >>)
  BY <1>1
<1>8. \A i \in 1..n + 1 : i \in 1..n \/ i = n + 1
  BY <1>1
<1>9. 1..n \subseteq 1..n + 1 /\ n + 1 \in 1..n + 1
  BY <1>1
<1>10. FitsTemplate(more, message) <=>
          /\ \A i \in 1..n : FitsSlot(t[i], message) /\ Named(more, i)
          /\ FitsSlot(x, message)
  <2> HIDE DEF n, Named
  <2>1. FitsTemplate(more, message) <=>
            \A i \in 1..n + 1 : FitsSlot(more[i], message) /\ Named(more, i)
    BY <1>1, <1>3, <1>4
  <2> HIDE DEF more
  <2>2. QED
    BY <1>1, <1>7, <1>8, <1>9, <2>1
<1>11. FitsTemplate(t, message) <=>
           \A i \in 1..n : FitsSlot(t[i], message) /\ Named(t, i)
  BY <1>3
<1> HIDE DEF more, Named, n
<1>12. CASE n = 0
  <2>1. t = << >> /\ 1..n = {}
    BY <1>7, <1>12
  <2>2. QED
    BY <1>10, <1>11, <2>1 DEF more, Follows
<1>13. CASE n # 0
  <2>1. (\A i \in 1..n : FitsSlot(t[i], message) /\ Named(more, i))
            <=> (\A i \in 1..n : FitsSlot(t[i], message) /\ Named(t, i)) /\ Named(more, n)
    BY <1>5, <1>6, <1>13
  <2>2. QED
    BY <1>6, <1>10, <1>11, <1>13, <2>1 DEF more
<1>14. QED
  BY <1>12, <1>13

(* What goes in for a token is made of the tokens of the template and the
   message.                                                              *)
LEMMA FillingsOf ==
    ASSUME NEW template, NEW message, NEW T, Suits(template, message, T),
           NEW x \in Range(template)
    PROVE  /\ x \in T
           /\ Blank(template)[x] \in Seq(T)
           /\ Given(template, message)[x] = Filling(x, message)
           /\ Given(template, message)[x] \in Seq(T)
<1>1. PICK i \in DOMAIN template : x = template[i]
  BY DEF Range
<1>2. x \in T /\ Quote \in T /\ Now \in T
  BY <1>1 DEF Suits
<1>3. <<x>> \in Seq(T) /\ <<Now>> \in Seq(T) /\ <<Quote, Quote>> \in Seq(T)
  BY <1>2
<1>4. Expansion(x, message) \in Seq(T)
  BY <1>1, ExpansionType
<1>5. Filling(x, message) \in Seq(T)
  BY <1>3, <1>4 DEF Filling
<1>6. Given(template, message)[x] = Filling(x, message)
  BY DEF Given
<1>7. Blank(template)[x] \in Seq(T)
  BY <1>3 DEF Blank
<1>8. QED
  BY <1>2, <1>5, <1>6, <1>7

LEMMA FillingsType ==
    ASSUME NEW template, NEW message, NEW T, Suits(template, message, T)
    PROVE  /\ Fills(Blank(template), Range(template), T)
           /\ Fills(Given(template, message), Range(template), T)
<1>1. \A x \in Range(template) : Blank(template)[x] \in Seq(T)
  BY FillingsOf
<1>2. \A x \in Range(template) : Given(template, message)[x] \in Seq(T)
  BY FillingsOf
<1>3. QED
  BY <1>1, <1>2 DEF Blank, Given, Fills

(* The text with the values goes along with the text with empty strings. *)
Agree(e, r, t, message) ==
    /\ Sound(r)
    /\ Open(r) <=> Open(e)
    /\ t = << >> => e = << >> /\ r = << >>
    /\ t # << >> =>
        /\ e # << >> /\ r # << >>
        /\ IF IsSlot(Last(t))
           THEN /\ Open(e) /\ Last(e) = Quote
                /\ Last(r) = Quote <=> message.values[Last(t)[2]].type = "string"
           ELSE Last(r) = Last(e)

LEMMA TokensDiffer ==
    /\ Quote # Colon /\ Now # Quote /\ Now # Colon
    /\ \A n : Number(n) # Quote /\ Number(n) # Colon /\ Number(n)[1] = "number"
    /\ Quote[1] = "mark"
    /\ \A x : IsSlot(x) => x # Quote /\ x # Colon /\ x[1] \notin {"mark", "number"}
  BY DEF Quote, Colon, Now, Number, Mark, IsSlot

(* The value of a slot is made of tokens in T; what StopsAtQuotes says of it. *)
ValueIn(x, message, T) ==
    IF message.values[x[2]].type = "string"
    THEN message.values[x[2]].text \in Seq(T)
    ELSE Number(message.values[x[2]].num) \in T
StopsInSlot(x, message) ==
    message.values[x[2]].type = "string" => StopsAtQuotes(message.values[x[2]].text)

(* A slot keeps the two texts together, if its value suits it. *)
LEMMA SlotStep ==
    ASSUME NEW T, NEW U, NEW message, NEW e \in Seq(T), NEW r \in Seq(T), NEW t \in Seq(U),
           Quote \in T, Agree(e, r, t, message),
           NEW x \in U, IsSlot(x), x \in T, ValueIn(x, message, T),
           NEW blank, blank = Append(Append(e, Quote), Quote), Sound(blank),
           NEW new, new = Cat(r, Filling(x, message))
    PROVE  /\ FitsSlot(x, message) => Agree(blank, new, Append(t, x), message)
           /\ ~FitsSlot(x, message) /\ StopsInSlot(x, message) => ~Sound(new)
<1> DEFINE value == message.values[x[2]]
           tx == Append(t, x)
<1>1. tx # << >> /\ Last(tx) = x
  BY LastAppended
<1>2. /\ blank \in Seq(T) /\ blank # << >> /\ Last(blank) = Quote
      /\ Open(blank) /\ Open(e) /\ (e # << >> => Last(e) # Quote)
  BY AddEmptyString
<1>3. Sound(r) /\ Open(r) /\ (r # << >> => Last(r) # Quote)
  BY <1>2 DEF Agree
<1>4. Agree(blank, new, tx, message) <=>
          /\ Sound(new) /\ Open(new) /\ new # << >>
          /\ Last(new) = Quote <=> value.type = "string"
  BY <1>1, <1>2 DEF Agree
<1> HIDE DEF tx
<1>5. CASE value.type = "null"
  <2>1. Filling(x, message) = <<x>>
    <3>1. x # Call("TS")
      BY DEF IsSlot, Call
    <3>2. QED
      BY <1>5, <3>1 DEF Filling, IsFillable
  <2>2. new = Append(r, x)
    BY <2>1 DEF Cat
  <2>3. ~Joins(r, x)
    BY TokensDiffer DEF Joins
  <2>4. ~Sound(new)
    BY <1>3, <2>2, <2>3, SoundAppend
  <2>5. ~FitsSlot(x, message)
    BY <1>5 DEF FitsSlot
  <2>6. QED
    BY <2>4, <2>5
<1>6. CASE value.type = "string"
  <2> DEFINE s == value.text
  <2>1. Filling(x, message) = <<Quote>> \o s \o <<Quote>> /\ s \in Seq(T)
    BY <1>6 DEF Filling, IsFillable, Expansion, Written, ValueIn
  <2>2. FitsSlot(x, message) <=> ~HasQuote(s)
    BY <1>6 DEF FitsSlot
  <2> HIDE DEF s
  <2>3. new = Append(Cat(Append(r, Quote), s), Quote)
    <3> DEFINE q == <<Quote>>
               rq == Append(r, Quote)
    <3>1. q \in Seq(T) /\ rq \in Seq(T) /\ rq = Cat(r, q)
      BY DEF Cat
    <3>2. new = Cat(r, Cat(Cat(q, s), q))
      BY <2>1 DEF Cat
    <3>3. \A p : p \in Seq(T) => Append(p, Quote) = Cat(p, q)
      BY DEF Cat
    <3> HIDE DEF q, rq
    <3>4. \A u, v \in Seq(T) : Cat(u, v) \in Seq(T)
      BY CatProperties
    <3>5. \A u, v, w \in Seq(T) : Cat(Cat(u, v), w) = Cat(u, Cat(v, w))
      BY CatIsGrouped
    <3>6. new = Cat(Cat(rq, s), q)
      <4>1. Cat(Cat(q, s), q) = Cat(q, Cat(s, q)) /\ Cat(s, q) \in Seq(T)
        BY <2>1, <3>1, <3>4, <3>5
      <4>2. Cat(r, Cat(q, Cat(s, q))) = Cat(rq, Cat(s, q))
        BY <3>1, <3>5, <4>1
      <4>3. Cat(rq, Cat(s, q)) = Cat(Cat(rq, s), q)
        BY <2>1, <3>1, <3>5
      <4>4. QED
        BY <3>2, <4>1, <4>2, <4>3
    <3>7. QED
      BY <2>1, <3>1, <3>3, <3>4, <3>6 DEF rq
  <2>4. /\ new # << >> /\ Last(new) = Quote
        /\ ~HasQuote(s) => Sound(new) /\ Open(new)
        /\ HasQuote(s) /\ StopsAtQuotes(s) => ~Sound(new)
    BY <1>3, <2>1, <2>3, AddString
  <2>5. QED
    BY <1>4, <1>6, <2>2, <2>4 DEF s, tx, StopsInSlot
<1>7. CASE value.type # "null" /\ value.type # "string"
  <2> DEFINE y == Number(value.num)
  <2>1. Filling(x, message) = <<y>> /\ y \in T
    BY <1>7 DEF Filling, IsFillable, Expansion, Written, ValueIn
  <2>2. FitsSlot(x, message)
    BY <1>7 DEF FitsSlot
  <2>3. y # Quote /\ y # Colon /\ y[1] = "number"
    BY TokensDiffer
  <2> HIDE DEF y
  <2>4. new = Append(r, y)
    BY <2>1 DEF Cat
  <2>5. Joins(r, y)
    BY <2>3 DEF Joins
  <2>6. Sound(new) /\ Open(new) /\ new # << >> /\ Last(new) = y
    <3>1. Sound(Append(r, y)) <=> Sound(r) /\ (Open(r) => Joins(r, y))
      BY <2>1, SoundAppend
    <3>2. Open(Append(r, y)) <=> IF y = Quote THEN ~Open(r) ELSE Open(r)
      BY <2>1, OpenAppend
    <3>3. Append(r, y) # << >> /\ Last(Append(r, y)) = y
      BY <2>1, LastAppended
    <3>4. QED
      BY <1>3, <2>3, <2>4, <2>5, <3>1, <3>2, <3>3
  <2>7. QED
    BY <1>4, <1>7, <2>2, <2>3, <2>6 DEF tx
<1>8. QED
  BY <1>5, <1>6, <1>7

ColonAs(x, y) == y = Colon <=> x = Colon

(* So does any other token, if it is no colon after a value that is no string. *)
LEMMA TokenStep ==
    ASSUME NEW T, NEW U, NEW message, NEW e \in Seq(T), NEW r \in Seq(T), NEW t \in Seq(U),
           Agree(e, r, t, message),
           NEW x \in U, ~IsSlot(x), NEW y \in T, ColonAs(x, y),
           NEW blank, blank = Append(e, y), Sound(blank),
           NEW new, new = Append(r, y)
    PROVE  /\ Follows(x, t, message) => Agree(blank, new, Append(t, x), message)
           /\ ~Follows(x, t, message) => ~Sound(new)
<1> DEFINE tx == Append(t, x)
<1>1. tx # << >> /\ Last(tx) = x
  BY LastAppended
<1>2. /\ blank # << >> /\ Last(blank) = y /\ (Open(e) => Joins(e, y))
      /\ Open(blank) <=> IF y = Quote THEN ~Open(e) ELSE Open(e)
  BY SoundAppend, OpenAppend, LastAppended
<1>3. /\ new # << >> /\ Last(new) = y
      /\ Open(new) <=> IF y = Quote THEN ~Open(r) ELSE Open(r)
      /\ Sound(new) <=> Sound(r) /\ (Open(r) => Joins(r, y))
  BY SoundAppend, OpenAppend, LastAppended
<1> HIDE DEF tx
<1>4. ASSUME Follows(x, t, message) PROVE Agree(blank, new, tx, message)
  <2>1. Sound(new)
    <3>1. SUFFICES ASSUME Open(r) PROVE Joins(r, y)
      BY <1>3 DEF Agree
    <3>2. Joins(e, y)
      BY <1>2, <3>1 DEF Agree
    <3>3. CASE t = << >>
      BY <3>2, <3>3 DEF Agree
    <3>4. CASE t # << >> /\ IsSlot(Last(t))
      <4>1. /\ e # << >> /\ r # << >> /\ Last(e) = Quote
            /\ Last(r) = Quote <=> message.values[Last(t)[2]].type = "string"
        BY <3>4 DEF Agree
      <4>2. y # Quote /\ y[1] \in {"mark", "number"}
        BY <3>2, <4>1 DEF Joins
      <4>3. y = Colon => Last(r) = Quote
        BY <1>4, <3>4, <4>1 DEF Follows, ColonAs
      <4>4. QED
        BY <4>2, <4>3 DEF Joins
    <3>5. CASE t # << >> /\ ~IsSlot(Last(t))
      <4>1. e # << >> /\ r # << >> /\ Last(r) = Last(e)
        BY <3>5 DEF Agree
      <4>2. QED
        BY <3>2, <4>1 DEF Joins
    <3>6. QED
      BY <3>3, <3>4, <3>5
  <2>2. Open(new) <=> Open(blank)
    BY <1>2, <1>3 DEF Agree
  <2>3. QED
    BY <1>1, <1>2, <1>3, <2>1, <2>2 DEF Agree
<1>5. ASSUME ~Follows(x, t, message) PROVE ~Sound(new)
  <2>1. x = Colon /\ t # << >> /\ IsSlot(Last(t))
        /\ message.values[Last(t)[2]].type # "string"
    BY <1>5 DEF Follows
  <2>2. Open(r) /\ r # << >> /\ Last(r) # Quote
    BY <2>1 DEF Agree
  <2>3. ~Joins(r, y)
    BY <2>1, <2>2 DEF Joins, ColonAs
  <2>4. QED
    BY <1>3, <2>2, <2>3
<1>6. QED
  BY <1>4, <1>5 DEF tx

LEMMA SlotValue ==
    ASSUME NEW template, NEW message, NEW T, Suits(template, message, T),
           message.kind = "json", NEW x \in Range(template), IsSlot(x)
    PROVE  /\ ValueIn(x, message, T)
           /\ StaysInQuotes(template, message) => StopsInSlot(x, message)
<1>1. x[2] \in Labels(template)
  BY DEF Labels, Range
<1>2. QED
  BY <1>1 DEF Suits, StaysInQuotes, ValueIn, StopsInSlot

(* As long as the message fits, its text goes along with the text with empty
   strings; where it does not, the text is no JSON from there on.          *)
LEMMA TemplateAgrees ==
    ASSUME NEW template, NEW message, NEW T, Suits(template, message, T),
           message.kind = "json",
           \A i \in DOMAIN template : IsCall(template[i]) => template[i] = Call("TS")
    PROVE  \A t \in Seq(Range(template)) :
               Sound(Mapped(t, Blank(template))) =>
                   IF FitsTemplate(t, message)
                   THEN Agree(Mapped(t, Blank(template)),
                              Mapped(t, Given(template, message)), t, message)
                   ELSE StaysInQuotes(template, message) =>
                            ~Sound(Mapped(t, Given(template, message)))
<1> DEFINE U == Range(template)
           B == Blank(template)
           M == Given(template, message)
           Stays == StaysInQuotes(template, message)
           Ok(t) == Sound(Mapped(t, B)) =>
                        IF FitsTemplate(t, message)
                        THEN Agree(Mapped(t, B), Mapped(t, M), t, message)
                        ELSE Stays => ~Sound(Mapped(t, M))
           G == {t \in Seq(U) : Ok(t)}
<1>0. /\ Fills(B, U, T) /\ Fills(M, U, T) /\ Quote \in T /\ Now \in T
  BY FillingsType DEF Suits
<1>1. << >> \in G
  <2>1. Mapped(<< >>, B) = << >> /\ Mapped(<< >>, M) = << >>
    BY MappedEmpty
  <2>2. Agree(<< >>, << >>, << >>, message)
    BY JsonEmpty DEF Agree
  <2>3. FitsTemplate(<< >>, message)
    BY DEF FitsTemplate
  <2> HIDE DEF B, M, U
  <2>4. QED
    BY <2>1, <2>2, <2>3
<1>2. ASSUME NEW t \in Seq(U), NEW x \in U, t \in G PROVE Append(t, x) \in G
  <2> DEFINE e == Mapped(t, B)
             r == Mapped(t, M)
             tx == Append(t, x)
             blank == Mapped(tx, B)
             new == Mapped(tx, M)
  <2>1. /\ e \in Seq(T) /\ r \in Seq(T) /\ B[x] \in Seq(T) /\ M[x] \in Seq(T)
        /\ blank = Cat(e, B[x]) /\ new = Cat(r, M[x]) /\ tx \in Seq(U)
    <3> HIDE DEF B, M, U
    <3>1. e \in Seq(T) /\ r \in Seq(T)
      BY <1>0, MappedType
    <3>2. B[x] \in Seq(T) /\ M[x] \in Seq(T)
      BY <1>0 DEF Fills
    <3>3. blank = Cat(e, B[x])
      BY <1>0, MappedAppend
    <3>4. new = Cat(r, M[x])
      BY <1>0, MappedAppend
    <3>5. tx \in Seq(U)
      OBVIOUS
    <3> HIDE DEF e, r, blank, new, tx
    <3>6. QED
      BY <3>1, <3>2, <3>3, <3>4, <3>5
  <2>2. SUFFICES ASSUME Sound(blank)
                 PROVE  IF FitsTemplate(tx, message) THEN Agree(blank, new, tx, message)
                        ELSE Stays => ~Sound(new)
    <3> HIDE DEF blank, new, tx, Stays
    <3>1. QED
      BY <2>1 DEF blank, new, tx
  <2>3. Sound(e) /\ (Sound(new) => Sound(r))
    <3> HIDE DEF e, r, B, M, blank, new
    <3>1. QED
      BY <2>1, <2>2, SoundPrefix
  <2>4. FitsTemplate(tx, message) <=>
            FitsTemplate(t, message) /\ FitsSlot(x, message) /\ Follows(x, t, message)
    <3>1. \A y \in U : IsCall(y) => y = Call("TS")
      BY DEF Range
    <3>2. \A y \in U : IsSlot(y) /\ message.values[y[2]].type = "string" =>
              \E S : message.values[y[2]].text \in Seq(S)
      BY SlotValue DEF ValueIn
    <3> HIDE DEF U
    <3>3. QED
      BY <3>1, <3>2, FitsAppend
  <2>5. CASE ~FitsTemplate(t, message)
    <3>1. Stays => ~Sound(r)
      BY <1>2, <2>3, <2>5
    <3> HIDE DEF blank, new, tx, r, e, Stays
    <3>2. QED
      BY <2>3, <2>4, <2>5, <3>1
  <2>6. CASE FitsTemplate(t, message)
    <3>1. Agree(e, r, t, message)
      BY <1>2, <2>3, <2>6
    <3>2. CASE IsSlot(x)
      <4>1. ValueIn(x, message, T) /\ (Stays => StopsInSlot(x, message))
        BY <3>2, SlotValue
      <4>2. x \in T /\ M[x] = Filling(x, message)
        BY FillingsOf
      <4>3. B[x] = <<Quote, Quote>>
        BY <3>2 DEF Blank
      <4>4. blank = Append(Append(e, Quote), Quote)
        <5>1. Cat(e, <<Quote, Quote>>) = Append(Append(e, Quote), Quote)
          <6> HIDE DEF e
          <6>1. SUFFICES ASSUME NEW q \in T
                         PROVE  e \o <<q, q>> = Append(Append(e, q), q)
            BY <1>0 DEF Cat
          <6>2. QED
            BY <2>1
        <5>2. QED
          BY <2>1, <4>3, <5>1
      <4>5. x # Colon
        BY <3>2, TokensDiffer
      <4> HIDE DEF e, r, blank, new, tx, B, M, Stays, U
      <4>6. new = Cat(r, Filling(x, message))
        BY <2>1, <4>2
      <4>7. /\ FitsSlot(x, message) => Agree(blank, new, Append(t, x), message)
            /\ ~FitsSlot(x, message) /\ StopsInSlot(x, message) => ~Sound(new)
        <5>1. /\ e \in Seq(T) /\ r \in Seq(T) /\ t \in Seq(U) /\ x \in U
              /\ Quote \in T /\ x \in T /\ IsSlot(x) /\ ValueIn(x, message, T)
          BY <1>0, <2>1, <3>2, <4>1, <4>2
        <5>2. Sound(blank)
          BY <2>2
        <5>3. QED
          BY <3>1, <4>4, <4>6, <5>1, <5>2, SlotStep, Zenon
      <4>8. QED
        BY <2>4, <2>6, <4>1, <4>5, <4>7 DEF tx, Follows
    <3>3. CASE ~IsSlot(x)
      <4> DEFINE y == IF x = Call("TS") THEN Now ELSE x
      <4>1. B[x] = <<y>> /\ M[x] = <<y>>
        <5>1. Filling(x, message) = <<y>>
          BY <3>3 DEF Filling, IsFillable, Expansion
        <5>2. M[x] = Filling(x, message)
          BY FillingsOf
        <5>3. B[x] = <<y>>
          BY <3>3 DEF Blank
        <5>4. QED
          BY <5>1, <5>2, <5>3
      <4>2. y \in T
        BY <1>0, FillingsOf
      <4>3. ColonAs(x, y)
        <5> HIDE DEF e, r, blank, new, tx, B, M, Stays, U
        <5>1. Call("TS") # Colon /\ Now # Colon
          BY TokensDiffer DEF Call, Colon, Mark
        <5>2. QED
          BY <5>1 DEF ColonAs
      <4>4. FitsSlot(x, message)
        BY <3>3 DEF FitsSlot
      <4> HIDE DEF e, r, blank, new, tx, B, M, Stays, U, y, G, Ok
      <4>5. blank = Append(e, y) /\ new = Append(r, y)
        BY <2>1, <4>1, <4>2 DEF Cat
      <4>6. /\ Follows(x, t, message) => Agree(blank, new, Append(t, x), message)
            /\ ~Follows(x, t, message) => ~Sound(new)
        <5>1. /\ e \in Seq(T) /\ r \in Seq(T) /\ t \in Seq(U)
              /\ x \in U /\ ~IsSlot(x) /\ y \in T
          BY <2>1, <3>3, <4>2
        <5>2. Sound(blank)
          BY <2>2
        <5>3. QED
          BY <3>1, <4>3, <4>5, <5>1, <5>2, TokenStep, Zenon
      <4>7. QED
        BY <2>4, <2>6, <4>4, <4>6 DEF tx
    <3>4. QED
      BY <3>2, <3>3
  <2>7. QED
    BY <2>5, <2>6
<1>3. Seq(U) \subseteq G
  <2> HIDE DEF G, U
  <2>1. QED
    BY <1>1, <1>2, Slots!SequenceInduction
<1>4. QED
  BY <1>3

LEMMA BlankIs ==
    ASSUME NEW template, NEW T, template \in Seq(T)
    PROVE  /\ template \in Seq(Range(template))
           /\ Rewritten(template, Json([label \in Labels(template) |-> Str(<< >>)]))
                  = Mapped(template, Blank(template))
           /\ \A message : Result(template, message)
                               = Mapped(template, Given(template, message))
<1> DEFINE m == Json([label \in Labels(template) |-> Str(<< >>)])
<1>1. /\ DOMAIN template = 1..Len(template) /\ Len(template) \in Nat
      /\ \A i \in DOMAIN template : template[i] \in Range(template)
  BY DEF Range
<1>2. template \in Seq(Range(template))
  <2>1. template = [i \in 1..Len(template) |-> template[i]]
    OBVIOUS
  <2>2. template \in [1..Len(template) -> Range(template)]
    BY <1>1, <2>1
  <2>3. QED
    BY <1>1, <2>2, SeqDef
<1>3. ASSUME NEW i \in DOMAIN template
      PROVE  Expansion(template[i], m) = Blank(template)[template[i]]
  <2>1. CASE IsSlot(template[i])
    <3>1. template[i][2] \in Labels(template)
      BY <2>1 DEF Labels
    <3>2. m.values[template[i][2]] = Str(<< >>)
      BY <3>1 DEF Json
    <3> HIDE DEF m
    <3>3. Written(Str(<< >>)) = <<Quote, Quote>>
      <4>1. ASSUME NEW U, NEW q \in U PROVE <<q>> \o << >> \o <<q>> = <<q, q>>
        <5> DEFINE two == <<q>> \o <<q>>
        <5>1. <<q>> \o << >> = <<q>>
          OBVIOUS
        <5>2. two \in Seq(U) /\ Len(two) = 2 /\ two[1] = q /\ two[2] = q
          OBVIOUS
        <5> HIDE DEF two
        <5>3. two = <<two[1], two[2]>>
          BY <5>2
        <5>4. QED
          BY <5>1, <5>2, <5>3 DEF two
      <4>2. Str(<< >>).type = "string" /\ Str(<< >>).text = << >>
        BY DEF Str
      <4>3. QED
        BY <4>1, <4>2, Quote \in {Quote} DEF Written
    <3>4. Expansion(template[i], m) = <<Quote, Quote>>
      BY <2>1, <3>2, <3>3 DEF Expansion
    <3>5. QED
      BY <1>1, <2>1, <3>4 DEF Blank
  <2>2. CASE ~IsSlot(template[i])
    BY <1>1, <2>2 DEF Expansion, Blank
  <2>3. QED
    BY <2>1, <2>2
<1>4. Rewritten(template, m) = Mapped(template, Blank(template))
  <2> HIDE DEF m
  <2>1. [i \in DOMAIN template |-> Expansion(template[i], m)]
            = [i \in DOMAIN template |-> Blank(template)[template[i]]]
    BY <1>3
  <2>2. QED
    BY <2>1 DEF Rewritten, Mapped
<1>5. ASSUME NEW message
      PROVE  Result(template, message) = Mapped(template, Given(template, message))
  <2>1. \A i \in DOMAIN template :
            Filling(template[i], message) = Given(template, message)[template[i]]
    BY <1>1 DEF Given
  <2>2. [i \in DOMAIN template |-> Filling(template[i], message)]
            = [i \in DOMAIN template |-> Given(template, message)[template[i]]]
    BY <2>1
  <2>3. QED
    BY <2>2 DEF Result, Mapped
<1>6. QED
  BY <1>2, <1>4, <1>5

(* Of a sound template and a message no string of which looks like a slot: one
   that fits comes out as JSON (format_msg), whatever the numbers and lengths
   of its values; and if no string of it goes on as JSON after a quote, only
   one that fits comes out at all.                                           *)
THEOREM JsonIfFitting ==
    ASSUME NEW template, NEW message, NEW T, Suits(template, message, T),
           MakesJson(template), IsPlain(template, message)
    PROVE  /\ FitsTemplate(template, message) => format_msg(template, message) # Refusal
           /\ StaysInQuotes(template, message) =>
                  (format_msg(template, message) # Refusal => FitsTemplate(template, message))
<1>1. CASE message.kind # "json"
  BY <1>1 DEF FitsTemplate, format_msg
<1>2. CASE message.kind = "json"
  <2> DEFINE e == Mapped(template, Blank(template))
             r == Mapped(template, Given(template, message))
             Fits == FitsTemplate(template, message)
  <2>1. /\ template \in Seq(Range(template))
        /\ Rewritten(template, Json([label \in Labels(template) |-> Str(<< >>)])) = e
        /\ Result(template, message) = r
    BY BlankIs DEF Suits
  <2>2. Filled(template, message) = r
    BY <1>2, <2>1, FilledIs
  <2>3. e # << >> /\ Open(e) /\ Sound(e)
    BY <2>1, JsonIs DEF MakesJson
  <2>4. IF Fits THEN Agree(e, r, template, message)
        ELSE StaysInQuotes(template, message) => ~Sound(r)
    BY <1>2, <2>1, <2>3, TemplateAgrees DEF MakesJson
  <2>5. template # << >>
    BY <2>3, MappedEmpty
  <2>6. format_msg(template, message) # Refusal <=> IsJson(r)
    BY <1>2, <2>2, JsonIs DEF format_msg, Refusal
  <2> HIDE DEF e, r
  <2>7. Fits => IsJson(r)
    BY <2>3, <2>4, <2>5, JsonIs DEF Agree
  <2>8. StaysInQuotes(template, message) /\ ~Fits => ~IsJson(r)
    BY <2>4, JsonIs
  <2>9. QED
    BY <2>6, <2>7, <2>8
<1>3. QED
  BY <1>1, <1>2

-----------------------------------------------------------------------------
(* What is refused *)

(* What was refused is what the template makes nothing of. *)
RefusedInv == \A lines \in refused : OutcomeOf(lines) = Refusal

LEMMA RefusedStep == RefusedInv /\ [Next]_vars => RefusedInv'
<1> SUFFICES ASSUME RefusedInv, [Next]_vars PROVE RefusedInv'
  OBVIOUS
<1>1. CASE UNCHANGED refused
  BY <1>1 DEF RefusedInv
<1>2. CASE HandleMessage
  <2>1. CASE OutcomeOf(Head(rawQ)) = Refusal /\ refused' = refused \cup {Head(rawQ)}
    BY <2>1 DEF RefusedInv
  <2>2. QED
    BY <1>1, <1>2, <2>1 DEF HandleMessage
<1>3. CASE OpenFile \/ (\E message \in Messages : WriteLine(message)) \/ ReadThread
  BY <1>1, <1>3 DEF OpenFile, WriteLine, ReadThread, ReadChunk, ReadEnd, EmptyFile
<1>4. CASE UNCHANGED vars
  BY <1>1, <1>4 DEF vars
<1>5. QED
  BY <1>2, <1>3, <1>4 DEF Next

LEMMA RefusedAlways == Spec => []RefusedInv
<1>1. Init => RefusedInv
  BY DEF Init, RefusedInv
<1>2. QED
  BY <1>1, RefusedStep, PTL DEF Spec

LEMMA OneByOneStep ==
    ASSUME TextTypeInv, WindowInv, OneByOne, [Next]_vars PROVE OneByOne'
<1>0. /\ file \in Seq(Lines) /\ got \in Seq(Lines) /\ rawQ \in Seq(Seq(Lines) \ {<< >>})
      /\ offset \in Nat /\ Len(file) \in Nat /\ Len(got) \in Nat
  BY DEF TextTypeInv, TextTypeOK
<1>1. mode' = mode
  BY DEF Next, OpenFile, WriteLine, ReadThread, ReadChunk, ReadEnd, EmptyFile,
         HandleMessage, vars
<1>2. SUFFICES ASSUME mode = "polite" PROVE OneByOne'
  BY <1>1 DEF OneByOne
<1>3. /\ Len(file) <= 1 /\ (writing => file = << >>)
      /\ \A i \in DOMAIN rawQ : Len(rawQ[i]) = 1
      /\ \A lines \in refused : Len(lines) = 1
  BY <1>2 DEF OneByOne
<1>4. ASSUME UNCHANGED <<file, writing, rawQ, refused>> PROVE OneByOne'
  BY <1>3, <1>4 DEF OneByOne
<1>5. CASE OpenFile
  <2>1. Len(<< >>) = 0
    OBVIOUS
  <2>2. file' = << >> /\ UNCHANGED <<rawQ, refused>>
    BY <1>5 DEF OpenFile
  <2>3. QED
    BY <1>3, <2>1, <2>2 DEF OneByOne
<1>6. ASSUME NEW message \in Messages, WriteLine(message) PROVE OneByOne'
  <2>1. file = << >> /\ writing' = FALSE /\ UNCHANGED <<rawQ, refused>>
    BY <1>2, <1>3, <1>6 DEF WriteLine
  <2>2. Len(file') = Len(file) + 1
    BY <1>6, LineWritten
  <2>3. Len(file') <= 1
    BY <2>1, <2>2
  <2>4. QED
    BY <1>3, <2>1, <2>3 DEF OneByOne
<1>7. CASE ReadChunk \/ ReadEnd
  BY <1>4, <1>7 DEF ReadChunk, ReadEnd
<1>8. CASE EmptyFile
  <2>1. /\ file' = file \/ file' = << >>
        /\ rawQ' = Cat(rawQ, MessagesOf(got)) /\ UNCHANGED <<writing, refused>>
    BY <1>8 DEF EmptyFile, FileLeft, Cat
  <2>2. Len(file') <= 1 /\ (writing' => file' = << >>)
    <3>1. Len(<< >>) = 0
      OBVIOUS
    <3>2. QED
      BY <1>3, <2>1, <3>1
  <2>3. Len(got) <= 1
    <3>1. Len(got) = offset /\ offset <= Len(file)
      BY <1>2 DEF WindowInv, ReadFromStart
    <3>2. QED
      BY <1>0, <1>3, <3>1
  <2>4. CASE got = << >>
    <3>1. MessagesOf(got) = << >>
      BY <2>4 DEF MessagesOf
    <3>2. rawQ' = rawQ
      BY <1>0, <2>1, <3>1 DEF Cat
    <3>3. QED
      BY <1>3, <2>1, <2>2, <3>2 DEF OneByOne
  <2>5. CASE got # << >>
    <3>1. got \in Seq(Lines) \ {<< >>} /\ Len(got) = 1 /\ MessagesOf(got) = <<got>>
      BY <1>0, <2>3, <2>5 DEF MessagesOf
    <3>2. \A U, q, e : q \in Seq(U) /\ e \in U => Cat(q, <<e>>) = Append(q, e)
      BY DEF Cat
    <3>3. rawQ' = Append(rawQ, got)
      BY <1>0, <2>1, <3>1, <3>2
    <3>4. \A U, q, e : q \in Seq(U) /\ e \in U =>
              /\ DOMAIN q = 1..Len(q)
              /\ DOMAIN Append(q, e) = 1..Len(q) + 1
              /\ Append(q, e)[Len(q) + 1] = e
              /\ \A i \in 1..Len(q) : Append(q, e)[i] = q[i]
      OBVIOUS
    <3>5. /\ DOMAIN rawQ = 1..Len(rawQ) /\ DOMAIN rawQ' = 1..Len(rawQ) + 1
          /\ rawQ'[Len(rawQ) + 1] = got /\ \A i \in 1..Len(rawQ) : rawQ'[i] = rawQ[i]
      BY <1>0, <3>1, <3>3, <3>4
    <3>6. \A n \in Nat : \A i \in 1..n + 1 : i \in 1..n \/ i = n + 1
      OBVIOUS
    <3>7. \A i \in DOMAIN rawQ' : Len(rawQ'[i]) = 1
      BY <1>0, <1>3, <3>1, <3>5, <3>6, LenProperties
    <3>8. QED
      BY <1>3, <2>1, <2>2, <3>7 DEF OneByOne
  <2>6. QED
    BY <2>4, <2>5
<1>9. CASE HandleMessage
  <2>1. /\ rawQ # << >> /\ rawQ' = Tail(rawQ) /\ UNCHANGED <<file, writing>>
        /\ refused' \subseteq refused \cup {Head(rawQ)}
    BY <1>9 DEF HandleMessage, LeftInQueue
  <2>2. \A U, q : q \in Seq(U) /\ q # << >> =>
            /\ 1 \in DOMAIN q /\ Head(q) = q[1]
            /\ \A i \in DOMAIN Tail(q) : i + 1 \in DOMAIN q /\ Tail(q)[i] = q[i + 1]
    OBVIOUS
  <2>3. /\ Len(Head(rawQ)) = 1
        /\ \A i \in DOMAIN rawQ' : Len(rawQ'[i]) = 1
    BY <1>0, <1>3, <2>1, <2>2
  <2>4. QED
    BY <1>3, <2>1, <2>3 DEF OneByOne
<1>10. CASE UNCHANGED vars
  BY <1>4, <1>10 DEF vars
<1>11. QED
  BY <1>5, <1>6, <1>7, <1>8, <1>9, <1>10 DEF Next, ReadThread

LEMMA OneByOneAlways == Spec => []OneByOne
<1>1. Init => WindowInv /\ OneByOne
  BY TextInitInv
<1>2. TextTypeInv /\ WindowInv /\ [Next]_vars => WindowInv'
  BY WindowStep
<1>3. TextTypeInv /\ WindowInv /\ OneByOne /\ [Next]_vars => OneByOne'
  BY OneByOneStep
<1>4. QED
  BY <1>1, <1>2, <1>3, TextTypeAlways, PTL DEF Spec

LEMMA NoFittingLineRefused ==
    ASSUME TextTypeInv, RefusedInv, OneByOne, MakesJson(Template)
    PROVE  NoneRefusedThatFits
<1>1. SUFFICES ASSUME NEW lines \in refused, Len(lines) = 1,
                      IsPlain(Template, lines[1].says),
                      FitsTemplate(Template, lines[1].says)
               PROVE  FALSE
  BY DEF NoneRefusedThatFits, OneByOne
<1> DEFINE message == lines[1].says
<1>2. message \in Messages
  <2>1. lines \in Seq(Lines)
    BY DEF TextTypeInv, TextTypeOK
  <2>2. lines[1] \in Lines
    BY <1>1, <2>1
  <2>3. QED
    BY <2>2 DEF Lines
<1>3. format_msg(Template, message) = Refusal
  BY <1>1, <1>2 DEF RefusedInv, OutcomeOf, Outcome
<1>4. message.kind = "json"
  BY <1>1 DEF FitsTemplate
<1> HIDE DEF message
<1>5. Suits(Template, message, TokensOf(message))
  BY <1>2, <1>4, TemplateSuits
<1>6. IsPlain(Template, message) /\ FitsTemplate(Template, message)
  BY <1>1 DEF message
<1>7. QED
  BY <1>3, <1>5, <1>6, JsonIfFitting

LEMMA NoMisfitPassed ==
    ASSUME TextTypeInv, MakesJson(Template)
    PROVE  NonePassedThatDoesNotFit
<1>1. SUFFICES ASSUME NEW i \in DOMAIN datumQ,
                      IsPlain(Template, datumQ[i].from.says),
                      StaysInQuotes(Template, datumQ[i].from.says)
               PROVE  FitsTemplate(Template, datumQ[i].from.says)
  BY DEF NonePassedThatDoesNotFit
<1>2. datumQ[i] \in Outputs
  BY DEF TextTypeInv
<1>3. PICK line \in Lines :
          /\ datumQ[i] = [from |-> line, text |-> format_msg(Template, line.says)]
          /\ format_msg(Template, line.says) # Refusal
  BY <1>2 DEF Outputs
<1> DEFINE message == line.says
<1>4. message \in Messages /\ datumQ[i].from.says = message
  BY <1>3 DEF Lines
<1>5. format_msg(Template, message) # Refusal
  BY <1>3
<1> HIDE DEF message
<1>6. message.kind = "json"
  BY <1>5 DEF format_msg
<1>7. Suits(Template, message, TokensOf(message))
  BY <1>4, <1>6, TemplateSuits
<1>8. IsPlain(Template, message) /\ StaysInQuotes(Template, message)
  BY <1>1, <1>4
<1>9. QED
  BY <1>4, <1>5, <1>7, <1>8, JsonIfFitting

(* With a template that is itself sound, whatever the devices send: no line that
   fits it and was read alone is refused, all the lines of a program that waits
   are read alone (original_data_handle_thread passes on what format_msg makes
   of them), and a line that does not fit is passed on only if one of its
   strings has a quote in it and goes on as JSON after that.                *)
THEOREM RefusalHasCause ==
    ASSUME MakesJson(Template) PROVE Spec => []RefusedForCause
<1>1. TextTypeInv /\ RefusedInv /\ OneByOne => RefusedForCause
  BY NoFittingLineRefused, NoMisfitPassed DEF RefusedForCause
<1>2. QED
  BY <1>1, TextTypeAlways, RefusedAlways, OneByOneAlways, PTL
=============================================================================
