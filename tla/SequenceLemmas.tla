--------------------------- MODULE SequenceLemmas ---------------------------
(***************************************************************************)
(* Lemmas about the operators that fold and flatten sequences, for         *)
(* sequences of every length.                                              *)
(*                                                                         *)
(* FoldLeft and FlattenSeq are defined by a CHOOSE of a function; the      *)
(* lemmas give them as steps, element by element.  What holds of sequences *)
(* of every length is shown with SetInduction: the set of the numbers for  *)
(* which a formula holds contains 0 and, with n, n + 1.                    *)
(***************************************************************************)
EXTENDS Integers, SequencesExt, SequenceTheorems, WellFoundedInduction, TLAPS
-----------------------------------------------------------------------------
(* Folds and flattened sequences.  FoldLeft and FlattenSeq are defined by a
   CHOOSE of a function; the lemmas give them as steps, element by element. *)

\* Induction for a set of numbers.
LEMMA SetInduction ==
    ASSUME NEW S, 0 \in S, \A n \in Nat : n \in S => n + 1 \in S
    PROVE  Nat \subseteq S
  <1> DEFINE R == OpToRel(<, Nat)
             T == Nat \ S
  <1>1. IsWellFoundedOn(R, Nat)
    BY NatLessThanWellFounded
  <1>2. \A x, y \in Nat : <<x, y>> \in R <=> x < y
    BY DEF OpToRel
  <1> HIDE DEF R
  <1>3. ASSUME T # {} PROVE FALSE
    <2>1. PICK x \in T : \A y \in T : ~ (<<y, x>> \in R)
      BY <1>1, <1>3, WFMin
    <2>2. x # 0 /\ x - 1 \in Nat /\ x - 1 < x
      BY <2>1
    <2>3. x - 1 \in S
      BY <1>2, <2>1, <2>2
    <2>4. QED
      BY <2>1, <2>2, <2>3
  <1>4. QED
    BY <1>3

\* What FoldLeft's function on sets of indices satisfies.
IsFold(it, step, base, s, n) ==
    \A S \in SUBSET (1..n) :
        it[S] = IF S = {} THEN base ELSE step[<<it[S \ {Max(S)}], s[Max(S)]>>]

\* The greatest of a set that has a greatest element.
LEMMA MaxIs ==
    ASSUME NEW S \in SUBSET Nat, NEW m \in S, \A y \in S : m >= y
    PROVE  Max(S) = m
  <1>1. \E x \in S : \A y \in S : x >= y
    OBVIOUS
  <1>2. Max(S) \in S /\ \A y \in S : Max(S) >= y
    BY <1>1 DEF Max
  <1>3. Max(S) \in Nat /\ m \in Nat /\ Max(S) >= m /\ m >= Max(S)
    BY <1>2
  <1>4. QED
    BY <1>3

\* A finite set of numbers has a greatest element.
LEMMA MaxIn ==
    ASSUME NEW n \in Nat, NEW S \in SUBSET (1..n), S # {}
    PROVE  Max(S) \in S
  <1> DEFINE P == {m \in Nat : \A T \in SUBSET (1..m) : T # {} => Max(T) \in T}
  <1>1. 0 \in P
    <2>1. 1..0 = {}
      OBVIOUS
    <2>2. QED
      BY <2>1
  <1>2. ASSUME NEW m \in Nat, m \in P PROVE m + 1 \in P
    <2> SUFFICES ASSUME NEW T \in SUBSET (1..(m + 1)), T # {} PROVE Max(T) \in T
      OBVIOUS
    <2>1. CASE m + 1 \in T
      <3>1. T \in SUBSET Nat /\ \A y \in T : m + 1 >= y
        OBVIOUS
      <3>2. Max(T) = m + 1
        BY <2>1, <3>1, MaxIs
      <3>3. QED
        BY <2>1, <3>2
    <2>2. CASE m + 1 \notin T
      <3>1. T \in SUBSET (1..m)
        BY <2>2
      <3>2. QED
        BY <1>2, <3>1
    <2>3. QED
      BY <2>1, <2>2
  <1> HIDE DEF P
  <1>3. Nat \subseteq P
    BY <1>1, <1>2, SetInduction
  <1>4. QED
    BY <1>3 DEF P

\* There is a function that folds the first n elements of s.
LEMMA FoldExists ==
    ASSUME NEW A, NEW E, NEW base \in A, NEW step \in [A \X E -> A],
           NEW n \in Nat, NEW s \in [1..n -> E]
    PROVE  \E g \in [SUBSET (1..n) -> A] : IsFold(g, step, base, s, n)
  <1> DEFINE Q(m) == m <= n => \E g \in [SUBSET (1..m) -> A] :
                                  IsFold(g, step, base, s, m)
             P == {m \in Nat : Q(m)}
  <1>1. Q(0)
    <2> DEFINE g == [S \in SUBSET (1..0) |-> base]
    <2>1. g \in [SUBSET (1..0) -> A]
      OBVIOUS
    <2>2. \A S \in SUBSET (1..0) : S = {}
      OBVIOUS
    <2>3. IsFold(g, step, base, s, 0)
      BY <2>2 DEF IsFold
    <2>4. QED
      BY <2>1, <2>3
  <1>2. ASSUME NEW m \in Nat, Q(m) PROVE Q(m + 1)
    <2> SUFFICES ASSUME m + 1 <= n
                 PROVE  \E g \in [SUBSET (1..(m + 1)) -> A] :
                            IsFold(g, step, base, s, m + 1)
      OBVIOUS
    <2>0. m <= n
      OBVIOUS
    <2>1. PICK f \in [SUBSET (1..m) -> A] : IsFold(f, step, base, s, m)
      BY <1>2, <2>0, Zenon
    <2> DEFINE g == [S \in SUBSET (1..(m + 1)) |->
                        IF m + 1 \in S THEN step[<<f[S \ {m + 1}], s[m + 1]>>]
                                       ELSE f[S]]
    <2>2. \A S \in SUBSET (1..(m + 1)) :
              /\ S \ {m + 1} \in SUBSET (1..m)
              /\ m + 1 \notin S => S \in SUBSET (1..m)
      OBVIOUS
    <2>3. \A S \in SUBSET (1..m) : g[S] = f[S]
      OBVIOUS
    <2>4. g \in [SUBSET (1..(m + 1)) -> A]
      <3> SUFFICES ASSUME NEW S \in SUBSET (1..(m + 1)) PROVE g[S] \in A
        OBVIOUS
      <3>1. s[m + 1] \in E
        OBVIOUS
      <3>2. CASE m + 1 \in S
        <4>1. f[S \ {m + 1}] \in A
          BY <2>1, <2>2
        <4>2. <<f[S \ {m + 1}], s[m + 1]>> \in A \X E
          BY <3>1, <4>1
        <4>3. QED
          BY <3>2, <4>2
      <3>3. CASE m + 1 \notin S
        BY <2>1, <2>2, <3>3
      <3>4. QED
        BY <3>2, <3>3
    <2>5. IsFold(g, step, base, s, m + 1)
      <3> SUFFICES ASSUME NEW S \in SUBSET (1..(m + 1))
                   PROVE  g[S] = IF S = {} THEN base
                                 ELSE step[<<g[S \ {Max(S)}], s[Max(S)]>>]
        BY DEF IsFold
      <3>1. CASE m + 1 \in S
        <4>1. Max(S) = m + 1
          BY <3>1, MaxIs
        <4>2. g[S \ {m + 1}] = f[S \ {m + 1}]
          BY <2>2, <2>3
        <4>3. g[S] = step[<<f[S \ {m + 1}], s[m + 1]>>]
          BY <3>1
        <4>4. QED
          BY <3>1, <4>1, <4>2, <4>3
      <3>2. CASE m + 1 \notin S
        <4>1. S \in SUBSET (1..m) /\ S \ {Max(S)} \in SUBSET (1..m)
          BY <2>2, <3>2
        <4>2. g[S] = f[S] /\ g[S \ {Max(S)}] = f[S \ {Max(S)}]
          BY <2>3, <4>1
        <4>3. f[S] = IF S = {} THEN base ELSE step[<<f[S \ {Max(S)}], s[Max(S)]>>]
          BY <2>1, <4>1 DEF IsFold
        <4>4. QED
          BY <4>2, <4>3
      <3>3. QED
        BY <3>1, <3>2
    <2>6. QED
      BY <2>4, <2>5
  <1> HIDE DEF Q
  <1>3. 0 \in P /\ \A m \in Nat : m \in P => m + 1 \in P
    BY <1>1, <1>2
  <1> HIDE DEF P
  <1>4. Nat \subseteq P
    BY <1>3, SetInduction
  <1>5. Q(n)
    BY <1>4 DEF P
  <1>6. n <= n
    OBVIOUS
  <1>7. QED
    BY <1>5, <1>6, Zenon DEF Q

\* f[k] is what step, from base, makes of the first k elements of s.
IsRun(f, A, step, base, s) ==
    /\ f \in [0..Len(s) -> A]
    /\ f[0] = base
    /\ \A k \in 1..Len(s) : f[k] = step[<<f[k - 1], s[k]>>]

Run(A, step, base, s) == (CHOOSE f : IsRun(f, A, step, base, s))[Len(s)]

\* Two runs over sequences that begin with the same n elements agree so far.
LEMMA RunsAgree ==
    ASSUME NEW A, NEW step, NEW base, NEW s, NEW t, NEW n \in Nat,
           Len(s) \in Nat, Len(t) \in Nat, n <= Len(s), n <= Len(t),
           \A i \in 1..n : s[i] = t[i],
           NEW f, IsRun(f, A, step, base, s), NEW g, IsRun(g, A, step, base, t)
    PROVE  \A k \in 0..n : f[k] = g[k]
  <1> DEFINE P == {k \in Nat : k <= n => f[k] = g[k]}
  <1>1. 0 \in P
    BY DEF IsRun
  <1>2. ASSUME NEW k \in Nat, k \in P PROVE k + 1 \in P
    <2> SUFFICES ASSUME k + 1 <= n PROVE f[k + 1] = g[k + 1]
      OBVIOUS
    <2>1. k + 1 \in 1..Len(s) /\ k + 1 \in 1..Len(t) /\ k + 1 \in 1..n /\ (k + 1) - 1 = k
      OBVIOUS
    <2>2. f[k] = g[k]
      BY <1>2
    <2>3. f[k + 1] = step[<<f[k], s[k + 1]>>] /\ g[k + 1] = step[<<g[k], t[k + 1]>>]
      BY <2>1 DEF IsRun
    <2>4. QED
      BY <2>1, <2>2, <2>3
  <1> HIDE DEF P
  <1>3. Nat \subseteq P
    BY <1>1, <1>2, SetInduction
  <1>4. QED
    BY <1>3 DEF P

\* A run is the one that Run chooses.
LEMMA RunIs ==
    ASSUME NEW A, NEW step, NEW base, NEW s, Len(s) \in Nat,
           NEW f, IsRun(f, A, step, base, s)
    PROVE  Run(A, step, base, s) = f[Len(s)]
  <1> DEFINE g == CHOOSE f_1 : IsRun(f_1, A, step, base, s)
  <1>1. IsRun(g, A, step, base, s)
    OBVIOUS
  <1> HIDE DEF g
  <1>2. Len(s) <= Len(s) /\ \A i \in 1..Len(s) : s[i] = s[i]
    OBVIOUS
  <1>3. \A k \in 0..Len(s) : f[k] = g[k]
    BY <1>1, <1>2, RunsAgree
  <1>4. f[Len(s)] = g[Len(s)]
    BY <1>3
  <1>5. QED
    BY <1>4 DEF Run, g

\* 1..k is what is left of 1..(k + 1) without its greatest element.
LEMMA Initial ==
    ASSUME NEW k \in Nat, k # 0
    PROVE  Max(1..k) = k /\ (1..k) \ {k} = 1..(k - 1) /\ 1..k # {}
  <1>1. k \in 1..k /\ 1..k \in SUBSET Nat /\ \A y \in 1..k : k >= y
    OBVIOUS
  <1>2. Max(1..k) = k
    BY <1>1, MaxIs
  <1>3. QED
    BY <1>1, <1>2

\* step goes on from A with elements of E.
IsStep(step, A, E) == step \in [A \X E -> A]

\* The function of FoldLeft, where its values are in A.
Folds(it, A, step, base, s) ==
    /\ it[{}] = base
    /\ \A S \in SUBSET (1..Len(s)) : S # {} /\ it[S \ {Max(S)}] \in A =>
           it[S] = step[<<it[S \ {Max(S)}], s[Max(S)]>>]

\* What FoldLeft's function gives at 1..k is a run.
LEMMA FoldIsRun ==
    ASSUME NEW A, NEW E, NEW base \in A, NEW step, IsStep(step, A, E), NEW s \in Seq(E),
           NEW it, Folds(it, A, step, base, s)
    PROVE  /\ IsRun([k \in 0..Len(s) |-> it[1..k]], A, step, base, s)
           /\ it[1..Len(s)] = Run(A, step, base, s)
  <1> DEFINE f == [k \in 0..Len(s) |-> it[1..k]]
             P == {k \in Nat : k <= Len(s) => it[1..k] \in A}
  <1>1. Len(s) \in Nat /\ \A i \in 1..Len(s) : s[i] \in E
    BY LenProperties, ElementOfSeq
  <1>2. it[1..0] = base
    <2>1. 1..0 = {}
      OBVIOUS
    <2>2. QED
      BY <2>1 DEF Folds
  <1>3. ASSUME NEW k \in 1..Len(s), it[1..(k - 1)] \in A
        PROVE  it[1..k] = step[<<it[1..(k - 1)], s[k]>>] /\ it[1..k] \in A
    <2>1. k \in Nat /\ k # 0 /\ 1..k \in SUBSET (1..Len(s))
      BY <1>1
    <2>2. Max(1..k) = k /\ (1..k) \ {k} = 1..(k - 1) /\ 1..k # {}
      BY <2>1, Initial
    <2>3. it[(1..k) \ {Max(1..k)}] \in A
      BY <1>3, <2>2
    <2>4. it[1..k] = step[<<it[(1..k) \ {Max(1..k)}], s[Max(1..k)]>>]
      BY <2>1, <2>2, <2>3 DEF Folds
    <2>5. it[1..k] = step[<<it[1..(k - 1)], s[k]>>]
      BY <2>2, <2>4
    <2>6. <<it[1..(k - 1)], s[k]>> \in A \X E
      BY <1>1, <1>3
    <2>7. QED
      BY <2>5, <2>6 DEF IsStep
  <1>4. Nat \subseteq P
    <2>1. 0 \in P
      BY <1>2
    <2>2. ASSUME NEW k \in Nat, k \in P PROVE k + 1 \in P
      <3> SUFFICES ASSUME k + 1 <= Len(s) PROVE it[1..(k + 1)] \in A
        OBVIOUS
      <3>1. k + 1 \in 1..Len(s) /\ (k + 1) - 1 = k /\ it[1..k] \in A
        BY <1>1, <2>2
      <3>2. QED
        BY <1>3, <3>1
    <2> HIDE DEF P
    <2>3. QED
      BY <2>1, <2>2, SetInduction
  <1>5. \A k \in 0..Len(s) : it[1..k] \in A
    BY <1>1, <1>4
  <1>6. IsRun(f, A, step, base, s)
    <2>1. f \in [0..Len(s) -> A] /\ f[0] = base
      BY <1>1, <1>2, <1>5
    <2>2. ASSUME NEW k \in 1..Len(s) PROVE f[k] = step[<<f[k - 1], s[k]>>]
      <3>1. k \in 0..Len(s) /\ k - 1 \in 0..Len(s)
        BY <1>1
      <3>2. f[k] = it[1..k] /\ f[k - 1] = it[1..(k - 1)] /\ it[1..(k - 1)] \in A
        BY <1>5, <3>1
      <3>3. it[1..k] = step[<<it[1..(k - 1)], s[k]>>]
        BY <1>3, <3>2
      <3>4. QED
        BY <3>2, <3>3
    <2> HIDE DEF f
    <2>3. QED
      BY <2>1, <2>2 DEF IsRun
  <1>7. f[Len(s)] = it[1..Len(s)]
    BY <1>1
  <1> HIDE DEF f
  <1>8. Run(A, step, base, s) = f[Len(s)]
    BY <1>1, <1>6, RunIs
  <1>9. QED
    BY <1>6, <1>7, <1>8 DEF f

\* So its value at all indices is that of the run.
LEMMA FoldValue ==
    ASSUME NEW A, NEW E, NEW base \in A, NEW step, IsStep(step, A, E), NEW s \in Seq(E),
           NEW it, Folds(it, A, step, base, s)
    PROVE  it[1..Len(s)] = Run(A, step, base, s)
  BY FoldIsRun

\* What is folded at each set of indices: all of it is known.
Total(g, A, E, step, base, s) ==
    /\ g \in [SUBSET (1..Len(s)) -> A]
    /\ g[{}] = base
    /\ \A S \in SUBSET (1..Len(s)) : S # {} =>
           /\ s[Max(S)] \in E
           /\ g[S \ {Max(S)}] \in A
           /\ g[S] = step[<<g[S \ {Max(S)}], s[Max(S)]>>]

\* A function that folds a sequence exists, and has values in A everywhere.
LEMMA TotalExists ==
    ASSUME NEW A, NEW E, NEW base \in A, NEW step, IsStep(step, A, E), NEW s \in Seq(E)
    PROVE  \E g : Total(g, A, E, step, base, s)
  <1>1. Len(s) \in Nat /\ s \in [1..Len(s) -> E] /\ step \in [A \X E -> A]
    BY LenProperties DEF IsStep
  <1>2. PICK g \in [SUBSET (1..Len(s)) -> A] : IsFold(g, step, base, s, Len(s))
    BY <1>1, FoldExists
  <1>3. g[{}] = base
    BY <1>2 DEF IsFold
  <1>4. ASSUME NEW S \in SUBSET (1..Len(s)), S # {}
        PROVE  /\ s[Max(S)] \in E
               /\ g[S \ {Max(S)}] \in A
               /\ g[S] = step[<<g[S \ {Max(S)}], s[Max(S)]>>]
    <2>1. Max(S) \in S
      BY <1>1, <1>4, MaxIn
    <2>2. s[Max(S)] \in E /\ g[S \ {Max(S)}] \in A
      BY <1>1, <2>1
    <2>3. g[S] = step[<<g[S \ {Max(S)}], s[Max(S)]>>]
      BY <1>2, <1>4 DEF IsFold
    <2>4. QED
      BY <2>2, <2>3
  <1>5. QED
    BY <1>3, <1>4 DEF Total

\* Every sequence has a run.
LEMMA RunExists ==
    ASSUME NEW A, NEW E, NEW base \in A, NEW step \in [A \X E -> A], NEW s \in Seq(E)
    PROVE  \E f : IsRun(f, A, step, base, s)
  <1>1. Len(s) \in Nat /\ s \in [1..Len(s) -> E]
    BY LenProperties
  <1>2. PICK g \in [SUBSET (1..Len(s)) -> A] : IsFold(g, step, base, s, Len(s))
    BY <1>1, FoldExists
  <1>3. g[{}] = base
    BY <1>2 DEF IsFold
  <1>4. \A S \in SUBSET (1..Len(s)) : S # {} => g[S] = step[<<g[S \ {Max(S)}], s[Max(S)]>>]
    BY <1>2 DEF IsFold
  <1>5. IsRun([k \in 0..Len(s) |-> g[1..k]], A, step, base, s)
    <2>1. IsStep(step, A, E) /\ Folds(g, A, step, base, s)
      BY <1>3, <1>4 DEF IsStep, Folds
    <2>2. QED
      BY <2>1, FoldIsRun
  <1>6. QED
    BY <1>5

\* Nothing leaves base as it is; one more element is one more step.
LEMMA RunEmpty ==
    ASSUME NEW A, NEW E, NEW base \in A, NEW step \in [A \X E -> A]
    PROVE  Run(A, step, base, <<>>) = base
  <1>1. <<>> \in Seq(E) /\ Len(<<>>) = 0 /\ Len(<<>>) \in Nat
    BY EmptySeq
  <1>2. PICK f : IsRun(f, A, step, base, <<>>)
    BY <1>1, RunExists
  <1>3. Run(A, step, base, <<>>) = f[Len(<<>>)]
    BY <1>1, <1>2, RunIs
  <1>4. QED
    BY <1>1, <1>2, <1>3 DEF IsRun

\* The run over one more element is one more step.
LEMMA RunAppend ==
    ASSUME NEW A, NEW E, NEW base \in A, NEW step, IsStep(step, A, E), NEW s \in Seq(E),
           NEW e \in E
    PROVE  /\ Run(A, step, base, s) \in A
           /\ Run(A, step, base, Append(s, e)) = step[<<Run(A, step, base, s), e>>]
  <1> DEFINE t == Append(s, e)
             n == Len(s)
  <1>1. n = Len(s) /\ n \in Nat /\ t \in Seq(E) /\ Len(t) = n + 1
    BY LenProperties, AppendProperties
  <1>2. (\A i \in 1..n : s[i] = t[i]) /\ t[n + 1] = e
    BY AppendProperties
  <1>3. PICK f : IsRun(f, A, step, base, s)
    BY RunExists DEF IsStep
  <1> HIDE DEF t, n
  <1>4. PICK g : IsRun(g, A, step, base, t)
    BY <1>1, RunExists DEF IsStep
  <1>5. f[n] = g[n]
    <2>1. n \in Nat /\ Len(s) \in Nat /\ Len(t) \in Nat /\ n <= Len(s) /\ n <= Len(t)
      BY <1>1
    <2>0. \A i \in 1..n : s[i] = t[i]
      BY <1>2
    <2>2. \A k \in 0..n : f[k] = g[k]
      BY ONLY <2>0, <1>3, <1>4, <2>1, RunsAgree
    <2>3. QED
      BY <1>1, <2>2
  <1>6. Run(A, step, base, s) = f[n] /\ Run(A, step, base, t) = g[n + 1]
    BY <1>1, <1>3, <1>4, RunIs
  <1>7. f[n] \in A
    BY <1>1, <1>3 DEF IsRun
  <1>8. n + 1 \in 1..Len(t) /\ (n + 1) - 1 = n
    BY <1>1
  <1>9. g[n + 1] = step[<<g[n], e>>]
    BY <1>2, <1>4, <1>8 DEF IsRun
  <1>10. QED
    BY <1>5, <1>6, <1>7, <1>9 DEF t

\* A function that goes on with step as long as its values are in A is a run.
LEMMA ChainIsRun ==
    ASSUME NEW A, NEW E, NEW base \in A, NEW step \in [A \X E -> A], NEW s \in Seq(E),
           NEW f, f = [k \in 0..Len(s) |-> f[k]], f[0] = base,
           \A k \in 1..Len(s) : f[k - 1] \in A => f[k] = step[<<f[k - 1], s[k]>>]
    PROVE  IsRun(f, A, step, base, s)
  <1> DEFINE P == {k \in Nat : k <= Len(s) => f[k] \in A}
  <1>1. Len(s) \in Nat /\ \A i \in 1..Len(s) : s[i] \in E
    BY LenProperties, ElementOfSeq
  <1>2. Nat \subseteq P
    <2>1. 0 \in P
      OBVIOUS
    <2>2. ASSUME NEW k \in Nat, k \in P PROVE k + 1 \in P
      <3> SUFFICES ASSUME k + 1 <= Len(s) PROVE f[k + 1] \in A
        OBVIOUS
      <3>1. k + 1 \in 1..Len(s) /\ (k + 1) - 1 = k /\ f[k] \in A
        BY <1>1, <2>2
      <3>2. f[k + 1] = step[<<f[k], s[k + 1]>>]
        BY <3>1
      <3>3. <<f[k], s[k + 1]>> \in A \X E
        BY <1>1, <3>1
      <3>4. QED
        BY <3>2, <3>3
    <2> HIDE DEF P
    <2>3. QED
      BY <2>1, <2>2, SetInduction
  <1>3. \A k \in 0..Len(s) : f[k] \in A
    BY <1>1, <1>2
  <1>4. f \in [0..Len(s) -> A]
    BY <1>3
  <1>5. ASSUME NEW k \in 1..Len(s) PROVE f[k] = step[<<f[k - 1], s[k]>>]
    <2>1. k - 1 \in 0..Len(s)
      BY <1>1
    <2>2. QED
      BY <1>3, <2>1
  <1>6. QED
    BY <1>4, <1>5 DEF IsRun

\* FlattenSeq is the run of \o.
Joining(S) == [x \in Seq(S) \X Seq(S) |-> x[1] \o x[2]]

\* FlattenSeq is the run that joins.
LEMMA FlattenIsRun ==
    ASSUME NEW S, NEW ss \in Seq(Seq(S))
    PROVE  FlattenSeq(ss) = Run(Seq(S), Joining(S), <<>>, ss)
  <1> DEFINE n == Len(ss)
             Body(f) == [i \in 1..Len(ss) |-> IF i = 1 THEN ss[i] ELSE f[i - 1] \o ss[i]]
             F == CHOOSE f : f = Body(f)
  <1>1. n \in Nat /\ \A i \in 1..n : ss[i] \in Seq(S)
    BY LenProperties, ElementOfSeq
  <1>2. <<>> \in Seq(S) /\ Joining(S) \in [Seq(S) \X Seq(S) -> Seq(S)]
    <2>1. \A x \in Seq(S) \X Seq(S) : x[1] \o x[2] \in Seq(S)
      BY ConcatProperties
    <2>2. QED
      BY <2>1, EmptySeq DEF Joining
  <1>3. \A x, y \in Seq(S) : Joining(S)[<<x, y>>] = x \o y
    BY DEF Joining
  <1>4. PICK g : IsRun(g, Seq(S), Joining(S), <<>>, ss)
    BY <1>2, RunExists
  <1>5. /\ g[0] = <<>> /\ \A k \in 0..n : g[k] \in Seq(S)
        /\ \A k \in 1..n : g[k] = g[k - 1] \o ss[k]
    <2>1. g[0] = <<>> /\ \A k \in 0..n : g[k] \in Seq(S)
      BY <1>4 DEF IsRun
    <2>2. ASSUME NEW k \in 1..n PROVE g[k] = g[k - 1] \o ss[k]
      <3>1. k - 1 \in 0..n
        BY <1>1
      <3>2. QED
        BY <1>1, <1>3, <1>4, <2>1, <3>1 DEF IsRun
    <2>3. QED
      BY <2>1, <2>2
  <1>6. \E f : f = Body(f)
    <2> DEFINE h == [i \in 1..n |-> g[i]]
    <2>1. ASSUME NEW i \in 1..n
          PROVE  h[i] = IF i = 1 THEN ss[i] ELSE h[i - 1] \o ss[i]
      <3>1. CASE i = 1
        <4>0. 1 \in 1..n /\ 1 - 1 = 0
          BY <3>1
        <4>1. g[1] = <<>> \o ss[1]
          BY <1>5, <4>0
        <4>2. g[1] = ss[1]
          BY <1>1, <3>1, <4>1, ConcatEmptySeq
        <4>3. QED
          BY <3>1, <4>2
      <3>2. CASE i # 1
        <4>1. i - 1 \in 1..n
          BY <1>1, <3>2
        <4>2. QED
          BY <1>5, <3>2, <4>1
      <3>3. QED
        BY <3>1, <3>2
    <2>2. h = Body(h)
      BY <2>1
    <2>3. QED
      BY <2>2
  <1>7. F = Body(F)
    BY <1>6
  <1> HIDE DEF F
  <1>8. CASE n = 0
    <2>1. ss = <<>>
      BY <1>8, EmptySeq
    <2>2. FlattenSeq(ss) = <<>>
      BY <1>8, <2>1 DEF FlattenSeq
    <2>3. QED
      BY <1>2, <2>1, <2>2, RunEmpty
  <1>9. CASE n # 0
    <2> DEFINE f == [k \in 0..n |-> IF k = 0 THEN <<>> ELSE F[k]]
    <2>1. FlattenSeq(ss) = F[n]
      BY <1>9 DEF FlattenSeq, F
    <2>2. ASSUME NEW k \in 1..n, f[k - 1] \in Seq(S)
          PROVE  f[k] = Joining(S)[<<f[k - 1], ss[k]>>]
      <3>1. k \in 0..n /\ k - 1 \in 0..n /\ f[k] = F[k]
        BY <1>1
      <3>2. Joining(S)[<<f[k - 1], ss[k]>>] = f[k - 1] \o ss[k]
        BY <1>1, <1>3, <2>2
      <3>3. F[k] = IF k = 1 THEN ss[k] ELSE F[k - 1] \o ss[k]
        BY <1>7
      <3>4. CASE k = 1
        <4>1. f[k - 1] = <<>> /\ <<>> \o ss[k] = ss[k]
          BY <1>1, <3>1, <3>4, ConcatEmptySeq
        <4>2. QED
          BY <3>1, <3>2, <3>3, <3>4, <4>1
      <3>5. CASE k # 1
        <4>1. f[k - 1] = F[k - 1]
          BY <3>1, <3>5
        <4>2. QED
          BY <3>1, <3>2, <3>3, <3>5, <4>1
      <3>6. QED
        BY <3>4, <3>5
    <2>3. f = [k \in 0..Len(ss) |-> f[k]] /\ f[0] = <<>>
      BY <1>1
    <2>4. f[n] = F[n]
      BY <1>1, <1>9
    <2> HIDE DEF f
    <2>5. IsRun(f, Seq(S), Joining(S), <<>>, ss)
      BY <1>2, <2>2, <2>3, ChainIsRun
    <2>6. Run(Seq(S), Joining(S), <<>>, ss) = f[Len(ss)]
      BY <1>1, <2>5, RunIs
    <2>7. QED
      BY <2>1, <2>4, <2>6
  <1>10. QED
    BY <1>8, <1>9

\* FlattenSeq, one element at a time.
LEMMA FlattenProperties ==
    ASSUME NEW S, NEW ss \in Seq(Seq(S)), NEW s \in Seq(S)
    PROVE  /\ FlattenSeq(ss) \in Seq(S)
           /\ FlattenSeq(Append(ss, s)) = FlattenSeq(ss) \o s
           /\ FlattenSeq(<<>>) = <<>>
  <1>1. <<>> \in Seq(S) /\ Joining(S) \in [Seq(S) \X Seq(S) -> Seq(S)]
    <2>1. \A x \in Seq(S) \X Seq(S) : x[1] \o x[2] \in Seq(S)
      BY ConcatProperties
    <2>2. QED
      BY <2>1, EmptySeq DEF Joining
  <1>2. Append(ss, s) \in Seq(Seq(S)) /\ <<>> \in Seq(Seq(S))
    BY AppendProperties, EmptySeq
  <1>3. /\ Run(Seq(S), Joining(S), <<>>, ss) \in Seq(S)
        /\ Run(Seq(S), Joining(S), <<>>, Append(ss, s))
              = Joining(S)[<<Run(Seq(S), Joining(S), <<>>, ss), s>>]
    <2> DEFINE A == Seq(S)
               step == Joining(S)
               base == <<>>
    <2>1. base \in A /\ IsStep(step, A, A) /\ ss \in Seq(A) /\ s \in A
      BY <1>1 DEF IsStep
    <2> HIDE DEF A, step, base
    <2>2. /\ Run(A, step, base, ss) \in A
          /\ Run(A, step, base, Append(ss, s)) = step[<<Run(A, step, base, ss), s>>]
      BY <2>1, RunAppend
    <2>3. QED
      BY <2>2 DEF A, step, base
  <1>4. Run(Seq(S), Joining(S), <<>>, <<>>) = <<>>
    BY <1>1, RunEmpty
  <1>5. \A x, y \in Seq(S) : Joining(S)[<<x, y>>] = x \o y
    BY DEF Joining
  <1>6. QED
    BY <1>2, <1>3, <1>4, <1>5, FlattenIsRun

\* What f gives for each element, in a row.
Each(f, s) == FlattenSeq([i \in DOMAIN s |-> f[s[i]]])
IsMap(f, E, S) == f \in [E -> Seq(S)]

\* Nothing comes of no elements.
LEMMA EachEmpty ==
    ASSUME NEW f
    PROVE  Each(f, <<>>) = <<>>
  <1>1. [i \in DOMAIN <<>> |-> f[<<>>[i]]] = <<>>
    OBVIOUS
  <1>2. FlattenSeq(<<>>) = <<>>
    BY EmptySeq, FlattenProperties
  <1>3. QED
    BY <1>1, <1>2 DEF Each

\* What comes of one more element is added at the end.
LEMMA EachProperties ==
    ASSUME NEW E, NEW S, NEW f, IsMap(f, E, S), NEW s \in Seq(E), NEW e \in E
    PROVE  /\ Each(f, <<>>) = <<>>
           /\ Each(f, s) \in Seq(S)
           /\ Each(f, Append(s, e)) = Each(f, s) \o f[e]
  <1> DEFINE m == [i \in DOMAIN s |-> f[s[i]]]
             t == Append(s, e)
             k == [i \in DOMAIN t |-> f[t[i]]]
             n == Len(s)
  <1>1. n \in Nat /\ DOMAIN s = 1..n /\ \A i \in 1..n : s[i] \in E
    BY LenProperties, ElementOfSeq
  <1>2. \A x \in E : f[x] \in Seq(S)
    BY DEF IsMap
  <1>3. /\ t \in Seq(E) /\ Len(t) = n + 1 /\ DOMAIN t = 1..(n + 1)
        /\ \A i \in 1..n : t[i] = s[i]
        /\ t[n + 1] = e
    BY AppendProperties, LenProperties
  <1>4. m \in Seq(Seq(S)) /\ Len(m) = n
    BY <1>1, <1>2
  <1>5. f[e] \in Seq(S)
    BY <1>2
  <1>6. k = Append(m, f[e])
    <2> DEFINE a == Append(m, f[e])
    <2>1. a \in Seq(Seq(S)) /\ Len(a) = n + 1 /\ (\A i \in 1..n : a[i] = m[i]) /\ a[n + 1] = f[e]
      BY <1>4, <1>5, AppendProperties
    <2>2. k \in Seq(Seq(S)) /\ Len(k) = n + 1
      <3>1. \A i \in 1..(n + 1) : t[i] \in E
        BY <1>3, ElementOfSeq
      <3> HIDE DEF t
      <3>2. QED
        BY <1>1, <1>2, <1>3, <3>1
    <2>3. \A i \in 1..(n + 1) : k[i] = a[i]
      <3> SUFFICES ASSUME NEW i \in 1..(n + 1) PROVE k[i] = a[i]
        OBVIOUS
      <3>1. k[i] = f[t[i]]
        BY <1>3
      <3>2. CASE i = n + 1
        BY <1>3, <2>1, <3>1, <3>2
      <3>3. CASE i # n + 1
        <4>1. i \in 1..n
          BY <1>1, <3>3
        <4>2. a[i] = f[s[i]]
          BY <1>1, <2>1, <4>1
        <4>3. QED
          BY <1>3, <3>1, <4>1, <4>2
      <3>4. QED
        BY <3>2, <3>3
    <2> HIDE DEF a, k
    <2>4. QED
      BY <1>1, <2>1, <2>2, <2>3, SeqEqual DEF a
  <1>7. [i \in DOMAIN <<>> |-> f[<<>>[i]]] = <<>>
    OBVIOUS
  <1> HIDE DEF m, k, t
  <1>8. /\ FlattenSeq(m) \in Seq(S)
        /\ FlattenSeq(Append(m, f[e])) = FlattenSeq(m) \o f[e]
        /\ FlattenSeq(<<>>) = <<>>
    BY <1>4, <1>5, FlattenProperties
  <1>9. QED
    BY <1>6, <1>7, <1>8 DEF Each, m, k, t

\* What comes of a single element.
LEMMA EachOne ==
    ASSUME NEW E, NEW S, NEW f, IsMap(f, E, S), NEW e \in E
    PROVE  Each(f, <<e>>) = f[e] /\ f[e] \in Seq(S)
  <1>1. <<>> \in Seq(E) /\ Append(<<>>, e) = <<e>> /\ f[e] \in Seq(S)
    BY DEF IsMap
  <1>2. Each(f, <<>>) = <<>> /\ Each(f, Append(<<>>, e)) = Each(f, <<>>) \o f[e]
    <2> DEFINE z == <<>>
    <2>1. z \in Seq(E)
      BY <1>1
    <2> HIDE DEF z
    <2>2. Each(f, <<>>) = <<>> /\ Each(f, Append(z, e)) = Each(f, z) \o f[e]
      BY <2>1, EachProperties
    <2>3. QED
      BY <2>2 DEF z
  <1>3. <<>> \o f[e] = f[e]
    BY <1>1, ConcatEmptySeq
  <1>4. QED
    BY <1>1, <1>2, <1>3

\* Appending to the second of two sequences.
LEMMA ConcatAppend ==
    ASSUME NEW E, NEW s \in Seq(E), NEW t \in Seq(E), NEW e \in E
    PROVE  s \o Append(t, e) = Append(s \o t, e)
  <1>1. <<e>> \in Seq(E)
    OBVIOUS
  <1>2. Append(t, e) = t \o <<e>>
    BY AppendIsConcat
  <1>3. s \o t \in Seq(E)
    BY ConcatProperties
  <1>4. Append(s \o t, e) = (s \o t) \o <<e>>
    BY <1>3, AppendIsConcat
  <1>5. (s \o t) \o <<e>> = s \o (t \o <<e>>)
    BY <1>1, ConcatAssociative
  <1>6. QED
    BY <1>2, <1>4, <1>5

\* Two singletons make a pair.
LEMMA PairIs ==
    ASSUME NEW a, NEW b
    PROVE  <<a>> \o <<b>> = <<a, b>>
  <1> DEFINE S == {a, b}
             x == <<a>>
             y == <<b>>
             z == <<a, b>>
  <1>1. /\ x \in Seq(S) /\ Len(x) = 1 /\ x[1] = a
        /\ y \in Seq(S) /\ Len(y) = 1 /\ y[1] = b
        /\ z \in Seq(S) /\ Len(z) = 2 /\ z[1] = a /\ z[2] = b
    OBVIOUS
  <1> HIDE DEF S, x, y, z
  <1>2. /\ x \o y \in Seq(S) /\ Len(x \o y) = 2
        /\ (x \o y)[1] = a /\ (x \o y)[2] = b
    BY <1>1, ConcatProperties
  <1>3. \A i \in 1..2 : (x \o y)[i] = z[i]
    BY <1>1, <1>2
  <1>4. x \o y = z
    BY <1>1, <1>2, <1>3, SeqEqual
  <1>5. QED
    BY <1>4 DEF x, y, z

\* Two elements more.
LEMMA TwoMore ==
    ASSUME NEW E, NEW s \in Seq(E), NEW a \in E, NEW b \in E
    PROVE  /\ <<a, b>> \in Seq(E)
           /\ Append(s, a) \in Seq(E)
           /\ s \o <<a, b>> = Append(Append(s, a), b)
  <1> DEFINE x == <<a>>
             y == <<b>>
             z == <<a, b>>
  <1>1. x \in Seq(E) /\ z \in Seq(E) /\ z = Append(x, b)
    <2>1. x \in Seq(E) /\ z \in Seq(E)
      OBVIOUS
    <2>2. z = Append(x, b)
      OBVIOUS
    <2>3. QED
      BY <2>1, <2>2
  <1>2. s \o x = Append(s, a) /\ Append(s, a) \in Seq(E)
    BY AppendIsConcat, AppendProperties
  <1> HIDE DEF x, z
  <1>3. s \o Append(x, b) = Append(s \o x, b)
    BY <1>1, ConcatAppend
  <1>4. QED
    BY <1>1, <1>2, <1>3 DEF z

\* Three elements more.
LEMMA ThreeMore ==
    ASSUME NEW E, NEW s \in Seq(E), NEW a \in E, NEW b \in E, NEW c \in E
    PROVE  /\ <<a, b, c>> \in Seq(E)
           /\ s \o <<a, b, c>> = Append(Append(Append(s, a), b), c)
  <1> DEFINE x == <<a, b>>
             z == <<a, b, c>>
  <1>1. x \in Seq(E) /\ s \o x = Append(Append(s, a), b)
    BY TwoMore
  <1>2. z \in Seq(E) /\ Append(x, c) \in Seq(E) /\ Len(z) = 3 /\ Len(Append(x, c)) = 3
    <2>1. Len(x) = 2
      OBVIOUS
    <2> HIDE DEF x
    <2>2. Append(x, c) \in Seq(E) /\ Len(Append(x, c)) = 3
      BY <1>1, <2>1, AppendProperties
    <2>3. QED
      BY <2>2
  <1>3. \A i \in 1..3 : z[i] = Append(x, c)[i]
    <2>1. Len(x) = 2 /\ x[1] = a /\ x[2] = b
      OBVIOUS
    <2>2. z[1] = a /\ z[2] = b /\ z[3] = c
      OBVIOUS
    <2> HIDE DEF x, z
    <2>3. Append(x, c)[1] = a /\ Append(x, c)[2] = b /\ Append(x, c)[3] = c
      BY <1>1, <2>1, AppendProperties
    <2>4. \A i \in 1..3 : i = 1 \/ i = 2 \/ i = 3
      OBVIOUS
    <2>5. QED
      BY <2>2, <2>3, <2>4
  <1> HIDE DEF x, z
  <1>4. z = Append(x, c)
    BY <1>2, <1>3, SeqEqual
  <1>5. s \o Append(x, c) = Append(s \o x, c)
    BY <1>1, ConcatAppend
  <1>6. QED
    BY <1>1, <1>2, <1>4, <1>5 DEF z

\* What comes of two sequences, one after the other.
LEMMA EachConcat ==
    ASSUME NEW E, NEW S, NEW f, IsMap(f, E, S), NEW s \in Seq(E), NEW t \in Seq(E)
    PROVE  Each(f, s \o t) = Each(f, s) \o Each(f, t)
  <1> DEFINE Q(n) == \A u \in Seq(E) : Len(u) = n => Each(f, s \o u) = Each(f, s) \o Each(f, u)
             P == {n \in Nat : Q(n)}
  <1>1. Q(0)
    <2> SUFFICES ASSUME NEW u \in Seq(E), Len(u) = 0
                 PROVE  Each(f, s \o u) = Each(f, s) \o Each(f, u)
      OBVIOUS
    <2>1. u = <<>> /\ s \o <<>> = s
      BY EmptySeq, ConcatEmptySeq
    <2>2. Each(f, s) \in Seq(S)
      <3>1. CASE s = <<>>
        <4>1. [i \in DOMAIN <<>> |-> f[<<>>[i]]] = <<>>
          OBVIOUS
        <4>2. <<>> \in Seq(S) /\ <<>> \in Seq(Seq(S))
          BY EmptySeq
        <4>3. FlattenSeq(<<>>) \in Seq(S)
          BY <4>2, FlattenProperties
        <4>4. QED
          BY <3>1, <4>1, <4>3 DEF Each
      <3>2. CASE s # <<>>
        <4>1. s[1] \in E
          BY <3>2, EmptySeq, ElementOfSeq
        <4>2. QED
          BY <4>1, EachProperties
      <3>3. QED
        BY <3>1, <3>2
    <2>3. Each(f, <<>>) = <<>>
      <3>1. [i \in DOMAIN <<>> |-> f[<<>>[i]]] = <<>>
        OBVIOUS
      <3>2. FlattenSeq(<<>>) = <<>>
        BY EmptySeq, FlattenProperties
      <3>3. QED
        BY <3>1, <3>2 DEF Each
    <2>4. QED
      BY <2>1, <2>2, <2>3, ConcatEmptySeq
  <1>2. ASSUME NEW n \in Nat, Q(n) PROVE Q(n + 1)
    <2> SUFFICES ASSUME NEW u \in Seq(E), Len(u) = n + 1
                 PROVE  Each(f, s \o u) = Each(f, s) \o Each(f, u)
      OBVIOUS
    <2>1. u # <<>>
      BY EmptySeq
    <2>2. PICK v \in Seq(E), e \in E : u = Append(v, e)
      BY <2>1, SequenceEmptyOrAppend
    <2>3. Len(v) = n
      BY <2>2, AppendProperties, LenProperties
    <2>4. s \o u = Append(s \o v, e) /\ s \o v \in Seq(E)
      BY <2>2, ConcatAppend, ConcatProperties
    <2>5. Each(f, s \o u) = Each(f, s \o v) \o f[e]
      <3> DEFINE w == s \o v
      <3>1. w \in Seq(E) /\ s \o u = Append(w, e)
        BY <2>4
      <3> HIDE DEF w
      <3>2. Each(f, Append(w, e)) = Each(f, w) \o f[e]
        BY <3>1, EachProperties
      <3>3. QED
        BY <3>1, <3>2 DEF w
    <2>6. Each(f, u) = Each(f, v) \o f[e]
      BY <2>2, EachProperties
    <2>7. Each(f, s \o v) = Each(f, s) \o Each(f, v)
      BY <1>2, <2>3
    <2>8. Each(f, s) \in Seq(S) /\ Each(f, v) \in Seq(S) /\ f[e] \in Seq(S)
      BY EachProperties, EachOne
    <2>9. (Each(f, s) \o Each(f, v)) \o f[e] = Each(f, s) \o (Each(f, v) \o f[e])
      <3> DEFINE a == Each(f, s)
                 b == Each(f, v)
                 c == f[e]
      <3>1. a \in Seq(S) /\ b \in Seq(S) /\ c \in Seq(S)
        BY <2>8
      <3> HIDE DEF a, b, c
      <3>2. (a \o b) \o c = a \o (b \o c)
        BY <3>1, ConcatAssociative
      <3>3. QED
        BY <3>2 DEF a, b, c
    <2>10. QED
      BY <2>5, <2>6, <2>7, <2>9
  <1> HIDE DEF Q
  <1>3. 0 \in P /\ \A n \in Nat : n \in P => n + 1 \in P
    BY <1>1, <1>2
  <1> HIDE DEF P
  <1>4. Len(t) \in P
    <2>1. Len(t) \in Nat /\ Nat \subseteq P
      BY <1>3, SetInduction, LenProperties
    <2>2. QED
      BY <2>1
  <1>5. Q(Len(t))
    BY <1>4 DEF P
  <1>6. QED
    BY <1>5 DEF Q

\* Induction for a set of sequences.
LEMMA SeqInduction ==
    ASSUME NEW E, NEW T, <<>> \in T, \A s \in Seq(E), e \in E : s \in T => Append(s, e) \in T
    PROVE  \A s \in Seq(E) : s \in T
  <1> DEFINE Q(n) == \A u \in Seq(E) : Len(u) = n => u \in T
             P == {n \in Nat : Q(n)}
  <1>1. Q(0)
    BY EmptySeq
  <1>2. ASSUME NEW n \in Nat, Q(n) PROVE Q(n + 1)
    <2> SUFFICES ASSUME NEW u \in Seq(E), Len(u) = n + 1 PROVE u \in T
      OBVIOUS
    <2>1. u # <<>>
      BY EmptySeq
    <2>2. PICK v \in Seq(E), e \in E : u = Append(v, e)
      BY <2>1, SequenceEmptyOrAppend
    <2>3. Len(v) = n
      BY <2>2, AppendProperties, LenProperties
    <2>4. QED
      BY <1>2, <2>2, <2>3
  <1> HIDE DEF Q
  <1>3. 0 \in P /\ \A n \in Nat : n \in P => n + 1 \in P
    BY <1>1, <1>2
  <1> HIDE DEF P
  <1>4. Nat \subseteq P
    BY <1>3, SetInduction
  <1>5. ASSUME NEW s \in Seq(E) PROVE s \in T
    <2>1. Len(s) \in P
      BY <1>4, LenProperties
    <2>2. QED
      BY <2>1 DEF P, Q
  <1>6. QED
    BY <1>5
-----------------------------------------------------------------------------
(* Mapping and flattening. *)

\* What g makes of each element.
Mapped(g, s) == [i \in DOMAIN s |-> g[s[i]]]
IsFun(g, E, V) == g \in [E -> V]

\* A mapped sequence is one of as many elements.
LEMMA MappedProperties ==
    ASSUME NEW E, NEW V, NEW g, IsFun(g, E, V), NEW s \in Seq(E), NEW e \in E
    PROVE  /\ Mapped(g, s) \in Seq(V)
           /\ Len(Mapped(g, s)) = Len(s)
           /\ \A i \in 1..Len(s) : Mapped(g, s)[i] = g[s[i]]
           /\ Mapped(g, <<>>) = <<>>
           /\ Mapped(g, Append(s, e)) = Append(Mapped(g, s), g[e])
  <1> DEFINE m == Mapped(g, s)
             t == Append(s, e)
             k == Mapped(g, t)
             a == Append(m, g[e])
             n == Len(s)
  <1>1. n \in Nat /\ DOMAIN s = 1..n /\ \A i \in 1..n : s[i] \in E
    BY LenProperties, ElementOfSeq
  <1>2. m \in Seq(V) /\ Len(m) = n /\ \A i \in 1..n : m[i] = g[s[i]]
    BY <1>1 DEF Mapped, IsFun
  <1>3. /\ t \in Seq(E) /\ Len(t) = n + 1 /\ DOMAIN t = 1..(n + 1)
        /\ \A i \in 1..n : t[i] = s[i]
        /\ t[n + 1] = e
    BY AppendProperties, LenProperties
  <1>4. \A i \in 1..(n + 1) : t[i] \in E
    BY <1>3, ElementOfSeq
  <1> HIDE DEF t
  <1>5. k \in Seq(V) /\ Len(k) = n + 1 /\ \A i \in 1..(n + 1) : k[i] = g[t[i]]
    BY <1>1, <1>3, <1>4 DEF Mapped, IsFun
  <1> HIDE DEF m, k
  <1>6. a \in Seq(V) /\ Len(a) = n + 1 /\ (\A i \in 1..n : a[i] = m[i]) /\ a[n + 1] = g[e]
    <2>1. g[e] \in V
      BY DEF IsFun
    <2>2. QED
      BY <1>2, <2>1, AppendProperties
  <1>7. \A i \in 1..(n + 1) : k[i] = a[i]
    <2> SUFFICES ASSUME NEW i \in 1..(n + 1) PROVE k[i] = a[i]
      OBVIOUS
    <2>1. CASE i = n + 1
      BY <1>3, <1>5, <1>6, <2>1
    <2>2. CASE i # n + 1
      <3>1. i \in 1..n
        BY <1>1, <2>2
      <3>2. QED
        BY <1>2, <1>3, <1>5, <1>6, <3>1
    <2>3. QED
      BY <2>1, <2>2
  <1> HIDE DEF a
  <1>8. k = a
    BY <1>1, <1>5, <1>6, <1>7, SeqEqual
  <1>9. Mapped(g, <<>>) = <<>>
    BY DEF Mapped
  <1>10. QED
    BY <1>2, <1>8, <1>9 DEF m, k, a, t

\* A map that gives one element for each maps the sequence.
LEMMA EachSingle ==
    ASSUME NEW E, NEW V, NEW f, NEW g, IsFun(g, E, V), IsMap(f, E, V),
           \A e \in E : f[e] = <<g[e]>>
    PROVE  \A s \in Seq(E) : Each(f, s) = Mapped(g, s)
  <1> DEFINE T == {s \in Seq(E) : Each(f, s) = Mapped(g, s)}
  <1>1. <<>> \in T
    <2>1. <<>> \in Seq(E) /\ Each(f, <<>>) = <<>>
      BY EachEmpty
    <2>2. Mapped(g, <<>>) = <<>>
      BY DEF Mapped
    <2>3. QED
      BY <2>1, <2>2
  <1>2. ASSUME NEW s \in Seq(E), NEW e \in E, s \in T PROVE Append(s, e) \in T
    <2>0. Each(f, s) = Mapped(g, s) /\ f[e] = <<g[e]>>
      BY <1>2
    <2>1. Each(f, Append(s, e)) = Each(f, s) \o f[e] /\ Append(s, e) \in Seq(E)
      BY EachProperties, AppendProperties
    <2>2. Mapped(g, Append(s, e)) = Append(Mapped(g, s), g[e]) /\ Mapped(g, s) \in Seq(V)
      <3> HIDE DEF T
      <3>1. QED
        BY MappedProperties
    <2>3. g[e] \in V
      BY DEF IsFun
    <2>4. Append(Mapped(g, s), g[e]) = Mapped(g, s) \o <<g[e]>>
      BY <2>2, <2>3, AppendIsConcat
    <2>5. QED
      BY <2>0, <2>1, <2>2, <2>4
  <1> HIDE DEF T
  <1>3. \A s \in Seq(E) : s \in T
    BY <1>1, <1>2, SeqInduction
  <1>4. QED
    BY <1>3 DEF T

\* Flattening is what comes of each element when it is taken as it is.
LEMMA FlattenIsEach ==
    ASSUME NEW S, NEW ss \in Seq(Seq(S))
    PROVE  /\ IsMap([x \in Seq(S) |-> x], Seq(S), S)
           /\ FlattenSeq(ss) = Each([x \in Seq(S) |-> x], ss)
  <1> DEFINE f == [x \in Seq(S) |-> x]
  <1>1. IsMap(f, Seq(S), S)
    BY DEF IsMap
  <1>2. DOMAIN ss = 1..Len(ss) /\ \A i \in 1..Len(ss) : ss[i] \in Seq(S)
    BY LenProperties, ElementOfSeq
  <1>3. [i \in DOMAIN ss |-> f[ss[i]]] = ss
    <2>1. ss = [i \in 1..Len(ss) |-> ss[i]]
      BY LenProperties
    <2>2. \A i \in 1..Len(ss) : f[ss[i]] = ss[i]
      BY <1>2
    <2> HIDE DEF f
    <2>3. QED
      BY <1>2, <2>1, <2>2
  <1>4. QED
    BY <1>1, <1>3 DEF Each

\* Two sequences of sequences, one after the other.
LEMMA FlattenConcat ==
    ASSUME NEW S, NEW ss \in Seq(Seq(S)), NEW tt \in Seq(Seq(S))
    PROVE  /\ FlattenSeq(ss) \in Seq(S)
           /\ FlattenSeq(ss \o tt) = FlattenSeq(ss) \o FlattenSeq(tt)
  <1> DEFINE f == [x \in Seq(S) |-> x]
  <1>1. ss \o tt \in Seq(Seq(S))
    BY ConcatProperties
  <1>2. IsMap(f, Seq(S), S)
    BY FlattenIsEach
  <1>3. /\ FlattenSeq(ss \o tt) = Each(f, ss \o tt)
        /\ FlattenSeq(ss) = Each(f, ss) /\ FlattenSeq(tt) = Each(f, tt)
    BY <1>1, FlattenIsEach
  <1> HIDE DEF f
  <1>4. Each(f, ss \o tt) = Each(f, ss) \o Each(f, tt)
    BY <1>2, EachConcat
  <1>5. FlattenSeq(ss) \in Seq(S)
    BY EmptySeq, FlattenProperties
  <1>6. QED
    BY <1>3, <1>4, <1>5

\* A single sequence.
LEMMA FlattenOne ==
    ASSUME NEW S, NEW s \in Seq(S)
    PROVE  FlattenSeq(<<s>>) = s
  <1> DEFINE e == <<>>
  <1>1. e \in Seq(Seq(S)) /\ Append(e, s) = <<s>>
    BY EmptySeq
  <1> HIDE DEF e
  <1>2. FlattenSeq(Append(e, s)) = FlattenSeq(e) \o s
    BY <1>1, FlattenProperties
  <1>3. FlattenSeq(e) = <<>>
    BY FlattenProperties, EmptySeq DEF e
  <1>4. <<>> \o s = s
    BY ConcatEmptySeq
  <1>5. QED
    BY <1>1, <1>2, <1>3, <1>4

\* What comes of each element of what has been flattened.
LEMMA EachFlatten ==
    ASSUME NEW E, NEW S, NEW f, IsMap(f, E, S)
    PROVE  \A ss \in Seq(Seq(E)) :
              Each(f, FlattenSeq(ss)) = FlattenSeq([i \in DOMAIN ss |-> Each(f, ss[i])])
  <1> DEFINE g == [x \in Seq(E) |-> Each(f, x)]
             T == {ss \in Seq(Seq(E)) : Each(f, FlattenSeq(ss)) = Each(g, ss)}
  <1>1. IsMap(g, Seq(E), S)
    <2>1. ASSUME NEW x \in Seq(E) PROVE Each(f, x) \in Seq(S)
      <3>1. CASE x = <<>>
        <4>1. Each(f, x) = <<>>
          BY <3>1, EachEmpty
        <4>2. QED
          BY <4>1, EmptySeq
      <3>2. CASE x # <<>>
        <4>1. x[1] \in E
          BY <3>2, EmptySeq, ElementOfSeq
        <4>2. QED
          BY <4>1, EachProperties
      <3>3. QED
        BY <3>1, <3>2
    <2>2. QED
      BY <2>1 DEF IsMap
  <1>2. <<>> \in T
    <2>1. FlattenSeq(<<>>) = <<>> /\ <<>> \in Seq(Seq(E))
      BY EmptySeq, FlattenProperties
    <2>2. Each(f, <<>>) = <<>> /\ Each(g, <<>>) = <<>>
      BY EachEmpty
    <2>3. QED
      BY <2>1, <2>2
  <1>3. ASSUME NEW ss \in Seq(Seq(E)), NEW s \in Seq(E), ss \in T PROVE Append(ss, s) \in T
    <2>1. /\ FlattenSeq(Append(ss, s)) = FlattenSeq(ss) \o s
          /\ FlattenSeq(ss) \in Seq(E) /\ Append(ss, s) \in Seq(Seq(E))
      BY FlattenProperties, AppendProperties
    <2>2. g[s] = Each(f, s)
      OBVIOUS
    <2>3. Each(f, FlattenSeq(ss)) = Each(g, ss)
      BY <1>3
    <2> HIDE DEF g
    <2>4. Each(f, FlattenSeq(ss) \o s) = Each(f, FlattenSeq(ss)) \o Each(f, s)
      BY <2>1, EachConcat
    <2>5. Each(g, Append(ss, s)) = Each(g, ss) \o g[s]
      BY <1>1, EachProperties
    <2>6. QED
      BY <2>1, <2>2, <2>3, <2>4, <2>5
  <1>4. \A ss \in Seq(Seq(E)) : Each(g, ss) = FlattenSeq([i \in DOMAIN ss |-> Each(f, ss[i])])
    <2> SUFFICES ASSUME NEW ss \in Seq(Seq(E))
                 PROVE  Each(g, ss) = FlattenSeq([i \in DOMAIN ss |-> Each(f, ss[i])])
      OBVIOUS
    <2>1. \A i \in DOMAIN ss : ss[i] \in Seq(E)
      BY LenProperties, ElementOfSeq
    <2>2. [i \in DOMAIN ss |-> g[ss[i]]] = [i \in DOMAIN ss |-> Each(f, ss[i])]
      BY <2>1
    <2>3. QED
      BY <2>2, Zenon DEF Each
  <1> HIDE DEF T
  <1>5. \A ss \in Seq(Seq(E)) : ss \in T
    BY <1>2, <1>3, SeqInduction
  <1>6. QED
    BY <1>4, <1>5 DEF T

\* The elements of two sequences.
LEMMA ElementsOfConcat ==
    ASSUME NEW S, NEW s \in Seq(S), NEW t \in Seq(S)
    PROVE  ToSet(s \o t) = ToSet(s) \cup ToSet(t)
  <1>1. /\ s \o t \in Seq(S) /\ Len(s \o t) = Len(s) + Len(t)
        /\ \A i \in 1..(Len(s) + Len(t)) :
              (s \o t)[i] = IF i <= Len(s) THEN s[i] ELSE t[i - Len(s)]
    BY ConcatProperties
  <1>2. /\ DOMAIN s = 1..Len(s) /\ DOMAIN t = 1..Len(t) /\ DOMAIN (s \o t) = 1..(Len(s) + Len(t))
        /\ Len(s) \in Nat /\ Len(t) \in Nat
    BY <1>1, LenProperties
  <1>3. \A i \in 1..Len(s) : i \in 1..(Len(s) + Len(t)) /\ (s \o t)[i] = s[i]
    BY <1>1, <1>2
  <1>4. \A i \in 1..Len(t) : Len(s) + i \in 1..(Len(s) + Len(t)) /\ (s \o t)[Len(s) + i] = t[i]
    BY <1>1, <1>2
  <1>5. \A i \in 1..(Len(s) + Len(t)) :
            (i \in 1..Len(s) /\ (s \o t)[i] = s[i])
            \/ (i - Len(s) \in 1..Len(t) /\ (s \o t)[i] = t[i - Len(s)])
    BY <1>1, <1>2
  <1>6. QED
    BY <1>2, <1>3, <1>4, <1>5 DEF ToSet

\* The elements of what has been flattened.
LEMMA ElementsOfFlatten ==
    ASSUME NEW S
    PROVE  \A ss \in Seq(Seq(S)) :
              ToSet(FlattenSeq(ss)) = UNION {ToSet(ss[i]) : i \in DOMAIN ss}
  <1> DEFINE U(ss) == UNION {ToSet(ss[i]) : i \in DOMAIN ss}
             T == {ss \in Seq(Seq(S)) : ToSet(FlattenSeq(ss)) = U(ss)}
  <1>1. <<>> \in T
    <2>1. FlattenSeq(<<>>) = <<>> /\ <<>> \in Seq(Seq(S))
      BY EmptySeq, FlattenProperties
    <2>2. ToSet(<<>>) = {} /\ U(<<>>) = {}
      BY DEF ToSet
    <2>3. QED
      BY <2>1, <2>2
  <1>2. ASSUME NEW ss \in Seq(Seq(S)), NEW s \in Seq(S), ss \in T PROVE Append(ss, s) \in T
    <2> DEFINE t == Append(ss, s)
               n == Len(ss)
    <2>1. /\ FlattenSeq(t) = FlattenSeq(ss) \o s
          /\ FlattenSeq(ss) \in Seq(S) /\ t \in Seq(Seq(S))
      BY FlattenProperties, AppendProperties
    <2>2. /\ n \in Nat /\ DOMAIN ss = 1..n /\ DOMAIN t = 1..(n + 1)
          /\ \A i \in 1..n : t[i] = ss[i]
          /\ t[n + 1] = s
      BY AppendProperties, LenProperties
    <2>3. ToSet(FlattenSeq(ss)) = U(ss)
      BY <1>2
    <2> HIDE DEF t
    <2>4. U(t) = U(ss) \cup ToSet(s)
      <3> HIDE DEF n
      <3>0. 1..(n + 1) = 1..n \cup {n + 1}
        BY <2>2
      <3>1. \A i \in DOMAIN ss : i \in DOMAIN t /\ t[i] = ss[i]
        BY <2>2, <3>0
      <3>2. n + 1 \in DOMAIN t /\ t[n + 1] = s
        BY <2>2, <3>0
      <3>3. \A i \in DOMAIN t : i \in DOMAIN ss \/ i = n + 1
        BY <2>2, <3>0
      <3>4. \A x : x \in U(t) <=> x \in U(ss) \/ x \in ToSet(s)
        <4> SUFFICES ASSUME NEW x PROVE x \in U(t) <=> x \in U(ss) \/ x \in ToSet(s)
          OBVIOUS
        <4>1. \A zz : x \in U(zz) <=> \E i \in DOMAIN zz : x \in ToSet(zz[i])
          OBVIOUS
        <4> HIDE DEF U
        <4>2. QED
          BY <3>1, <3>2, <3>3, <4>1, Zenon
      <3>5. QED
        BY <3>4
    <2>5. ToSet(FlattenSeq(t)) = ToSet(FlattenSeq(ss)) \cup ToSet(s)
      BY <2>1, ElementsOfConcat
    <2> HIDE DEF U
    <2>6. QED
      BY <2>1, <2>3, <2>4, <2>5 DEF t
  <1> HIDE DEF T
  <1>3. \A ss \in Seq(Seq(S)) : ss \in T
    BY <1>1, <1>2, SeqInduction
  <1>4. QED
    BY <1>3 DEF T

\* What g makes of each element of what has been flattened.
LEMMA MappedFlatten ==
    ASSUME NEW E, NEW V, NEW g, IsFun(g, E, V)
    PROVE  \A ss \in Seq(Seq(E)) :
              Mapped(g, FlattenSeq(ss)) = FlattenSeq([i \in DOMAIN ss |-> Mapped(g, ss[i])])
  <1> DEFINE f == [e \in E |-> <<g[e]>>]
  <1>1. IsMap(f, E, V)
    <2>1. \A e \in E : g[e] \in V
      BY DEF IsFun
    <2>2. QED
      BY <2>1 DEF IsMap
  <1>2. \A e \in E : f[e] = <<g[e]>>
    OBVIOUS
  <1> HIDE DEF f
  <1>3. \A s \in Seq(E) : Each(f, s) = Mapped(g, s)
    BY <1>1, <1>2, EachSingle
  <1> SUFFICES ASSUME NEW ss \in Seq(Seq(E))
               PROVE  Mapped(g, FlattenSeq(ss)) = FlattenSeq([i \in DOMAIN ss |-> Mapped(g, ss[i])])
    OBVIOUS
  <1>4. FlattenSeq(ss) \in Seq(E)
    BY EmptySeq, FlattenProperties
  <1>5. \A i \in DOMAIN ss : ss[i] \in Seq(E)
    BY LenProperties, ElementOfSeq
  <1>6. [i \in DOMAIN ss |-> Each(f, ss[i])] = [i \in DOMAIN ss |-> Mapped(g, ss[i])]
    BY <1>3, <1>5
  <1>7. Each(f, FlattenSeq(ss)) = FlattenSeq([i \in DOMAIN ss |-> Each(f, ss[i])])
    BY <1>1, EachFlatten
  <1>8. QED
    BY <1>3, <1>4, <1>6, <1>7

\* What comes of each element of a mapped sequence.
LEMMA EachMapped ==
    ASSUME NEW D, NEW E, NEW g, IsFun(g, D, E), NEW f, NEW h,
           \A d \in D : h[d] = f[g[d]], NEW s \in Seq(D)
    PROVE  Each(f, Mapped(g, s)) = Each(h, s)
  <1>1. DOMAIN s = 1..Len(s) /\ \A i \in 1..Len(s) : s[i] \in D
    BY LenProperties, ElementOfSeq
  <1>2. DOMAIN Mapped(g, s) = DOMAIN s /\ \A i \in DOMAIN s : Mapped(g, s)[i] = g[s[i]]
    BY DEF Mapped
  <1>3. [i \in DOMAIN Mapped(g, s) |-> f[Mapped(g, s)[i]]] = [i \in DOMAIN s |-> h[s[i]]]
    BY <1>1, <1>2
  <1>4. QED
    BY <1>3, Zenon DEF Each

\* Mapping twice.
LEMMA MappedMapped ==
    ASSUME NEW D, NEW g, NEW f, NEW h,
           \A d \in D : h[d] = f[g[d]], NEW s \in Seq(D)
    PROVE  Mapped(f, Mapped(g, s)) = Mapped(h, s)
  <1>1. DOMAIN s = 1..Len(s) /\ \A i \in 1..Len(s) : s[i] \in D
    BY LenProperties, ElementOfSeq
  <1>2. DOMAIN Mapped(g, s) = DOMAIN s /\ \A i \in DOMAIN s : Mapped(g, s)[i] = g[s[i]]
    BY DEF Mapped
  <1>3. [i \in DOMAIN Mapped(g, s) |-> f[Mapped(g, s)[i]]] = [i \in DOMAIN s |-> h[s[i]]]
    BY <1>1, <1>2
  <1>4. QED
    BY <1>3, Zenon DEF Mapped

\* Mapping two sequences.
LEMMA MappedConcat ==
    ASSUME NEW E, NEW V, NEW g, IsFun(g, E, V), NEW s \in Seq(E), NEW t \in Seq(E)
    PROVE  /\ Mapped(g, s \o t) = Mapped(g, s) \o Mapped(g, t)
           /\ Mapped(g, s) \in Seq(V)
  <1> DEFINE f == [e \in E |-> <<g[e]>>]
  <1>1. IsMap(f, E, V)
    <2>1. \A e \in E : g[e] \in V
      BY DEF IsFun
    <2>2. QED
      BY <2>1 DEF IsMap
  <1>2. \A e \in E : f[e] = <<g[e]>>
    OBVIOUS
  <1> HIDE DEF f
  <1>3. \A x \in Seq(E) : Each(f, x) = Mapped(g, x)
    BY <1>1, <1>2, EachSingle
  <1>4. s \o t \in Seq(E) /\ Each(f, s \o t) = Each(f, s) \o Each(f, t)
    BY <1>1, EachConcat, ConcatProperties
  <1>5. Mapped(g, s) \in Seq(V)
    <2>1. \A x \in E : g[x] \in V
      BY DEF IsFun
    <2>2. DOMAIN s = 1..Len(s) /\ Len(s) \in Nat /\ \A i \in 1..Len(s) : s[i] \in E
      BY LenProperties, ElementOfSeq
    <2>3. QED
      BY <2>1, <2>2 DEF Mapped
  <1>6. QED
    BY <1>3, <1>4, <1>5

\* An empty sequence at the start adds nothing.
LEMMA FlattenTail ==
    ASSUME NEW S, NEW ss \in Seq(Seq(S)), NEW tt \in Seq(Seq(S)),
           Len(ss) = Len(tt) + 1, ss[1] = <<>>, \A i \in 1..Len(tt) : ss[i + 1] = tt[i]
    PROVE  FlattenSeq(ss) = FlattenSeq(tt)
  <1> DEFINE e == <<<<>>>>
             z == <<>>
  <1>1. e \in Seq(Seq(S)) /\ Len(e) = 1 /\ e[1] = z /\ z \in Seq(S) /\ e = <<z>>
    OBVIOUS
  <1>2. ss[1] = z
    OBVIOUS
  <1> HIDE DEF e, z
  <1>3. /\ e \o tt \in Seq(Seq(S)) /\ Len(e \o tt) = 1 + Len(tt)
        /\ \A i \in 1..(1 + Len(tt)) : (e \o tt)[i] = IF i <= 1 THEN e[i] ELSE tt[i - 1]
    BY <1>1, ConcatProperties
  <1>4. Len(tt) \in Nat
    BY LenProperties
  <1>5. ss = e \o tt
    <2>1. ASSUME NEW i \in 1..Len(ss) PROVE ss[i] = (e \o tt)[i]
      <3>1. CASE i = 1
        BY <1>1, <1>2, <1>3, <1>4, <3>1
      <3>2. CASE i # 1
        <4>1. i - 1 \in 1..Len(tt) /\ (i - 1) + 1 = i /\ i \in 1..(1 + Len(tt)) /\ ~(i <= 1)
          BY <1>4, <3>2
        <4>2. ss[(i - 1) + 1] = tt[i - 1]
          BY <4>1
        <4>3. QED
          BY <1>3, <4>1, <4>2
      <3>3. QED
        BY <3>1, <3>2
    <2>2. QED
      BY <1>3, <1>4, <2>1, SeqEqual
  <1>6. FlattenSeq(e \o tt) = FlattenSeq(e) \o FlattenSeq(tt) /\ FlattenSeq(tt) \in Seq(S)
    BY <1>1, FlattenConcat
  <1>7. FlattenSeq(e) = z
    BY <1>1, FlattenOne
  <1>8. z \o FlattenSeq(tt) = FlattenSeq(tt)
    BY <1>6, ConcatEmptySeq DEF z
  <1>9. QED
    BY <1>5, <1>6, <1>7, <1>8
-----------------------------------------------------------------------------
(* Elements and short sequences. *)

\* What becomes of a sequence.
LEMMA EachTyped ==
    ASSUME NEW E, NEW S, NEW f, IsMap(f, E, S), NEW s \in Seq(E)
    PROVE  Each(f, s) \in Seq(S)
  <1>1. CASE s = <<>>
    <2>1. Each(f, s) = <<>>
      BY <1>1, EachEmpty
    <2>2. QED
      BY <2>1, EmptySeq
  <1>2. CASE s # <<>>
    <2>1. s[1] \in E
      BY <1>2, EmptySeq, LenProperties, ElementOfSeq
    <2>2. QED
      BY <2>1, EachProperties
  <1>3. QED
    BY <1>1, <1>2

\* The elements of short sequences.
LEMMA FewElements == ToSet(<<>>) = {} /\ \A e : ToSet(<<e>>) = {e}
  BY DEF ToSet

\* Sequences of which only the first has elements.
LEMMA FirstOnly ==
    ASSUME NEW S, NEW ss \in Seq(Seq(S)), \A i \in 2..Len(ss) : ss[i] = <<>>
    PROVE  FlattenSeq(ss) = IF ss = <<>> THEN <<>> ELSE ss[1]
  <1> DEFINE T == {s \in Seq(Seq(S)) : (\A i \in 2..Len(s) : s[i] = <<>>) =>
                                          FlattenSeq(s) = IF s = <<>> THEN <<>> ELSE s[1]}
  <1>1. <<>> \in T
    <2>1. FlattenSeq(<<>>) = <<>> /\ <<>> \in Seq(Seq(S))
      BY EmptySeq, FlattenProperties
    <2>2. QED
      BY <2>1
  <1>2. ASSUME NEW s \in Seq(Seq(S)), NEW e \in Seq(S), s \in T PROVE Append(s, e) \in T
    <2> DEFINE t == Append(s, e)
    <2>1. /\ t \in Seq(Seq(S)) /\ Len(t) = Len(s) + 1 /\ Len(s) \in Nat
          /\ \A i \in 1..Len(s) : t[i] = s[i]
          /\ t[Len(s) + 1] = e
      BY AppendProperties, LenProperties
    <2>2. FlattenSeq(t) = FlattenSeq(s) \o e /\ FlattenSeq(s) \in Seq(S)
      BY FlattenProperties
    <2> HIDE DEF t
    <2>3. t # <<>>
      BY <2>1, EmptySeq
    <2>4. SUFFICES ASSUME \A i \in 2..Len(t) : t[i] = <<>> PROVE FlattenSeq(t) = t[1]
      BY <2>1, <2>3 DEF t
    <2>5. CASE s = <<>>
      <3>1. t = <<e>> /\ t[1] = e
        BY <2>5 DEF t
      <3>2. QED
        BY <3>1, FlattenOne
    <2>6. CASE s # <<>>
      <3>1. Len(s) >= 1
        BY <2>1, <2>6, EmptySeq
      <3>2. \A i \in 2..Len(s) : i \in 2..Len(t) /\ t[i] = s[i]
        BY <2>1
      <3>3. FlattenSeq(s) = s[1]
        BY <1>2, <2>4, <2>6, <3>2
      <3>4. e = <<>>
        <4>1. Len(s) + 1 \in 2..Len(t)
          BY <2>1, <3>1
        <4>2. QED
          BY <2>1, <2>4, <4>1
      <3>5. FlattenSeq(s) \o <<>> = FlattenSeq(s)
        BY <2>2, ConcatEmptySeq
      <3>6. t[1] = s[1]
        BY <2>1, <3>1
      <3>7. QED
        BY <2>2, <3>3, <3>4, <3>5, <3>6
    <2>7. QED
      BY <2>5, <2>6
  <1> HIDE DEF T
  <1>3. ss \in T
    BY <1>1, <1>2, SeqInduction
  <1>4. QED
    BY <1>3 DEF T

\* The last message and those before it.
LEMMA FrontAndLast ==
    ASSUME NEW E, NEW s \in Seq(E), s # <<>>
    PROVE  Front(s) \in Seq(E) /\ Last(s) \in E /\ s = Append(Front(s), Last(s))
  <1>1. Len(s) \in Nat /\ Len(s) >= 1 /\ DOMAIN s = 1..Len(s) /\ \A i \in 1..Len(s) : s[i] \in E
    BY EmptySeq, LenProperties, ElementOfSeq
  <1>2. Last(s) = s[Len(s)] /\ Last(s) \in E
    BY <1>1 DEF Last
  <1>3. Front(s) = SubSeq(s, 1, Len(s) - 1)
    BY DEF Front
  <1> DEFINE f == Front(s)
             n == Len(s) - 1
  <1>4. f \in Seq(E) /\ Len(f) = n /\ \A i \in 1..n : f[i] = s[i]
    BY <1>1, <1>3
  <1> HIDE DEF f
  <1>5. /\ Append(f, Last(s)) \in Seq(E) /\ Len(Append(f, Last(s))) = Len(s)
        /\ \A i \in 1..Len(s) : Append(f, Last(s))[i] = s[i]
    <2> DEFINE l == Last(s)
    <2>1. l \in E /\ l = s[n + 1] /\ Len(s) = n + 1 /\ n \in Nat
      BY <1>1, <1>2
    <2> HIDE DEF l, n
    <2>2. /\ Append(f, l) \in Seq(E) /\ Len(Append(f, l)) = n + 1
          /\ \A i \in 1..n : Append(f, l)[i] = f[i]
          /\ Append(f, l)[n + 1] = l
      BY <1>4, <2>1, AppendProperties
    <2>3. ASSUME NEW i \in 1..Len(s) PROVE Append(f, l)[i] = s[i]
      <3>1. CASE i = n + 1
        BY <2>1, <2>2, <3>1
      <3>2. CASE i # n + 1
        <4>1. i \in 1..n
          BY <2>1, <3>2
        <4>2. QED
          BY <1>4, <2>2, <4>1
      <3>3. QED
        BY <3>1, <3>2
    <2>4. QED
      BY <2>1, <2>2, <2>3 DEF l
  <1>6. s = Append(f, Last(s))
    BY <1>1, <1>5, SeqEqual
  <1>7. QED
    BY <1>2, <1>4, <1>6 DEF f

\* What becomes of what becomes of a sequence.
LEMMA EachEach ==
    ASSUME NEW E, NEW S, NEW V, NEW f, IsMap(f, E, S), NEW g, IsMap(g, S, V),
           NEW h, \A e \in E : h[e] = Each(g, f[e]), NEW s \in Seq(E)
    PROVE  Each(g, Each(f, s)) = Each(h, s)
  <1> DEFINE ss == [i \in DOMAIN s |-> f[s[i]]]
  <1>1. DOMAIN s = 1..Len(s) /\ Len(s) \in Nat /\ \A i \in 1..Len(s) : s[i] \in E
    BY LenProperties, ElementOfSeq
  <1>2. ss \in Seq(Seq(S)) /\ DOMAIN ss = DOMAIN s /\ \A i \in DOMAIN s : ss[i] = f[s[i]]
    BY <1>1 DEF IsMap
  <1>3. Each(f, s) = FlattenSeq(ss)
    BY Zenon DEF Each
  <1> HIDE DEF ss
  <1>4. Each(g, FlattenSeq(ss)) = FlattenSeq([i \in DOMAIN ss |-> Each(g, ss[i])])
    BY <1>2, EachFlatten
  <1>5. [i \in DOMAIN ss |-> Each(g, ss[i])] = [i \in DOMAIN s |-> h[s[i]]]
    BY <1>1, <1>2
  <1>6. QED
    BY <1>3, <1>4, <1>5, Zenon DEF Each

\* A history of two parts.
LEMMA ConcatParts ==
    ASSUME NEW E, NEW g \in Seq(E), NEW u \in Seq(E)
    PROVE  /\ g \o u \in Seq(E)
           /\ DOMAIN (g \o u) = 1..(Len(g) + Len(u)) /\ Len(g \o u) = Len(g) + Len(u)
           /\ DOMAIN g = 1..Len(g) /\ DOMAIN u = 1..Len(u) /\ Len(g) \in Nat /\ Len(u) \in Nat
           /\ \A i \in 1..Len(g) : (g \o u)[i] = g[i]
           /\ \A i \in 1..Len(u) : (g \o u)[Len(g) + i] = u[i]
           /\ g # <<>> => Len(g) >= 1
           /\ u # <<>> => Len(u) >= 1
  <1>1. /\ g \o u \in Seq(E) /\ Len(g \o u) = Len(g) + Len(u) /\ Len(g) \in Nat /\ Len(u) \in Nat
        /\ \A i \in 1..(Len(g) + Len(u)) : (g \o u)[i] = IF i <= Len(g) THEN g[i] ELSE u[i - Len(g)]
    BY ConcatProperties, LenProperties
  <1>2. DOMAIN g = 1..Len(g) /\ DOMAIN u = 1..Len(u) /\ DOMAIN (g \o u) = 1..(Len(g) + Len(u))
    BY <1>1, LenProperties
  <1>3. \A i \in 1..Len(g) : (g \o u)[i] = g[i]
    BY <1>1
  <1>4. \A i \in 1..Len(u) : (g \o u)[Len(g) + i] = u[i]
    <2> DEFINE n == Len(g)
               m == Len(u)
               w == g \o u
    <2>1. n \in Nat /\ m \in Nat /\ \A i \in 1..(n + m) : w[i] = IF i <= n THEN g[i] ELSE u[i - n]
      BY <1>1
    <2> HIDE DEF n, m, w
    <2>2. ASSUME NEW i \in 1..m PROVE w[n + i] = u[i]
      <3>1. n + i \in 1..(n + m) /\ ~(n + i <= n) /\ (n + i) - n = i
        BY <2>1
      <3>2. QED
        BY <2>1, <3>1
    <2>3. QED
      BY <2>2 DEF n, m, w
  <1>5. (g # <<>> => Len(g) >= 1) /\ (u # <<>> => Len(u) >= 1)
    BY <1>1, EmptySeq
  <1>6. QED
    BY <1>1, <1>2, <1>3, <1>4, <1>5

\* The elements of what becomes of a sequence.
LEMMA ElementsOfEach ==
    ASSUME NEW E, NEW S, NEW f, IsMap(f, E, S), NEW s \in Seq(E)
    PROVE  \A x : x \in ToSet(Each(f, s)) <=> \E e \in ToSet(s) : x \in ToSet(f[e])
  <1> DEFINE ss == [i \in DOMAIN s |-> f[s[i]]]
  <1>1. DOMAIN s = 1..Len(s) /\ Len(s) \in Nat /\ \A i \in 1..Len(s) : s[i] \in E
    BY LenProperties, ElementOfSeq
  <1>2. ss \in Seq(Seq(S)) /\ DOMAIN ss = DOMAIN s /\ \A i \in DOMAIN s : ss[i] = f[s[i]]
    BY <1>1 DEF IsMap
  <1>3. Each(f, s) = FlattenSeq(ss)
    BY Zenon DEF Each
  <1> HIDE DEF ss
  <1>4. ToSet(FlattenSeq(ss)) = UNION {ToSet(ss[i]) : i \in DOMAIN ss}
    BY <1>2, ElementsOfFlatten
  <1>5. \A x : x \in ToSet(Each(f, s)) <=> \E i \in DOMAIN s : x \in ToSet(f[s[i]])
    BY <1>2, <1>3, <1>4
  <1>6. ToSet(s) = {s[i] : i \in DOMAIN s}
    BY DEF ToSet
  <1>7. QED
    BY <1>5, <1>6

\* A function of the elements of a short sequence.
LEMMA MappedFew == \A g : Mapped(g, <<>>) = <<>> /\ \A e : Mapped(g, <<e>>) = <<g[e]>>
  BY DEF Mapped
=============================================================================
