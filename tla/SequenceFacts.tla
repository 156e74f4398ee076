---------------------------- MODULE SequenceFacts ----------------------------
(***************************************************************************)
(* Numbers, recursion and sequences: what the proofs about the parser and    *)
(* about the page need of them.                                              *)
(***************************************************************************)
EXTENDS Integers, SequencesExt, FiniteSetTheorems, WellFoundedInduction, TLAPS

-----------------------------------------------------------------------------
(* Sets of numbers *)

Less == {ss \in Nat \X Nat : ss[1] < ss[2]}

LEMMA LessIsWellFounded == IsWellFoundedOn(Less, Nat)
BY NatLessThanWellFounded, Zenon DEF OpToRel, Less

LEMMA HasLeast ==
  ASSUME NEW S \in SUBSET Nat, S # {}
  PROVE  \E x \in S : \A y \in S : x =< y
<1>1. PICK x \in S : \A y \in S : ~(<<y, x>> \in Less) BY LessIsWellFounded, WFMin
<1>2. \A y \in S : ~(y < x) BY <1>1 DEF Less
<1>. QED BY <1>2

LEMMA MinIsLeast ==
  ASSUME NEW S \in SUBSET Nat, S # {}
  PROVE  Min(S) \in S /\ \A y \in S : Min(S) =< y
BY HasLeast DEF Min

LEMMA MaxIsGreatest ==
  ASSUME NEW n \in Nat, NEW S \in SUBSET (0..n), S # {}
  PROVE  Max(S) \in S /\ \A y \in S : y =< Max(S)
<1>. DEFINE bounds == {x \in Nat : \A y \in S : y =< x}
<1>1. n \in bounds OBVIOUS
<1>2. PICK b \in bounds : \A x \in bounds : b =< x BY <1>1, HasLeast
<1>3. b \in S
  <2>1. SUFFICES ASSUME b \notin S PROVE FALSE OBVIOUS
  <2>2. PICK y \in S : TRUE OBVIOUS
  <2>3. b # 0 BY <2>1, <2>2
  <2>4. b - 1 \in bounds BY <2>1, <2>3
  <2>. QED BY <1>2, <2>4
<1>. QED BY <1>3 DEF Max

-----------------------------------------------------------------------------
(* Induction and recursion over numbers.  The induction theorems of the       *)
(* library take an operator, these a set and a function: a property is the    *)
(* set of the numbers that have it.                                          *)

LEMMA Induction ==
  ASSUME NEW N \in Nat, NEW P, 0 \in P, \A n \in 1..N : n - 1 \in P => n \in P
  PROVE  \A n \in 0..N : n \in P
<1>. DEFINE S == (0..N) \ P
<1>1. SUFFICES ASSUME S # {} PROVE FALSE OBVIOUS
<1>2. PICK n \in S : \A m \in S : n =< m
  <2>1. S \in SUBSET Nat OBVIOUS
  <2>. HIDE DEF S
  <2>. QED BY <1>1, <2>1, HasLeast
<1>3. n \in 1..N /\ n - 1 \in 0..N BY <1>2
<1>4. n - 1 \in S BY <1>3
<1>. QED BY <1>2, <1>3, <1>4

(* There is a function of the first numbers for every base and step. *)
Recursive(f, N, base, step) == \A n \in 0..N : f[n] = IF n = 0 THEN base ELSE step[f[n - 1]][n]

LEMMA Recursion ==
  ASSUME NEW N \in Nat, NEW S, NEW base \in S, NEW step \in [S -> [1..N -> S]]
  PROVE  \E f \in [0..N -> S] : Recursive(f, N, base, step)
<1>. DEFINE Fits(f, m) == \A n \in 0..m : f[n] = IF n = 0 THEN base ELSE step[f[n - 1]][n]
            Partial(m) == \E f \in [0..m -> S] : Fits(f, m)
            P == {m \in 0..N : Partial(m)}
<1>1. Partial(0)
  <2>. DEFINE f == [n \in 0..0 |-> base]
  <2>1. f \in [0..0 -> S] /\ Fits(f, 0) OBVIOUS
  <2>. QED BY <2>1
<1>2. ASSUME NEW m \in 1..N, Partial(m - 1) PROVE Partial(m)
  <2>1. PICK f \in [0..(m - 1) -> S] : Fits(f, m - 1) BY <1>2
  <2>2. m \in Nat /\ m # 0 /\ m - 1 \in 0..(m - 1) OBVIOUS
  <2>. DEFINE last == step[f[m - 1]][m]
              g == [n \in 0..m |-> IF n = m THEN last ELSE f[n]]
  <2>3. last \in S
    <3>1. f[m - 1] \in S BY <2>2
    <3>. QED BY <3>1
  <2>4. \A n \in 0..m : n # m => n \in 0..(m - 1) BY <2>2
  <2>. HIDE DEF last
  <2>5. g \in [0..m -> S]
    <3>1. \A n \in 0..m : (IF n = m THEN last ELSE f[n]) \in S BY <2>3, <2>4
    <3>. QED BY <3>1
  <2>6. \A n \in 0..m : n # 0 => g[n - 1] = f[n - 1]
    <3>1. \A n \in 0..m : n # 0 => n - 1 \in 0..m /\ n - 1 # m BY <2>2
    <3>. QED BY <3>1
  <2>7. ASSUME NEW n \in 0..m PROVE g[n] = IF n = 0 THEN base ELSE step[g[n - 1]][n]
    <3>1. CASE n = m BY <2>2, <2>6, <3>1 DEF last
    <3>2. CASE n # m
      <4>1. g[n] = f[n] BY <3>2
      <4>2. f[n] = IF n = 0 THEN base ELSE step[f[n - 1]][n] BY <2>1, <2>4, <3>2
      <4>. HIDE DEF g
      <4>. QED BY <4>1, <4>2, <2>6
    <3>. QED BY <3>1, <3>2
  <2>. HIDE DEF g
  <2>8. Fits(g, m) BY <2>7
  <2>. HIDE DEF Fits
  <2>. QED BY <2>5, <2>8
<1>. HIDE DEF Partial
<1>3. 0 \in P BY <1>1
<1>4. \A m \in 1..N : m - 1 \in P => m \in P
  <2>1. \A m \in 1..N : m \in 0..N OBVIOUS
  <2>. QED BY <1>2, <2>1
<1>5. N \in P
  <2>. HIDE DEF P
  <2>1. N \in 0..N OBVIOUS
  <2>. QED BY <1>3, <1>4, <2>1, Induction
<1>6. PICK f \in [0..N -> S] : Fits(f, N) BY <1>5 DEF Partial
<1>. QED BY <1>6 DEF Recursive

-----------------------------------------------------------------------------
(* Sequences *)

LEMMA SeqOfFunction ==
  ASSUME NEW n \in Nat, NEW f, f = [i \in 1..n |-> f[i]]
  PROVE  f \in Seq(ToSet(f)) /\ Len(f) = n /\ DOMAIN f = 1..n
BY DEF ToSet

LEMMA SeqIsFunction ==
  ASSUME NEW S, NEW s \in Seq(S)
  PROVE  Len(s) \in Nat /\ s = [i \in 1..Len(s) |-> s[i]] /\ DOMAIN s = 1..Len(s) /\ ToSet(s) \subseteq S
BY DEF ToSet

LEMMA ToSetOfJoined ==
  ASSUME NEW S, NEW s \in Seq(S), NEW u \in Seq(S)
  PROVE  s \o u \in Seq(S) /\ ToSet(s \o u) = ToSet(s) \cup ToSet(u)
<1>1. DOMAIN (s \o u) = 1..(Len(s) + Len(u)) /\ DOMAIN s = 1..Len(s) /\ DOMAIN u = 1..Len(u) OBVIOUS
<1>2. \A i \in 1..Len(s) : i \in DOMAIN (s \o u) /\ (s \o u)[i] = s[i] OBVIOUS
<1>3. \A i \in 1..Len(u) : Len(s) + i \in DOMAIN (s \o u) /\ (s \o u)[Len(s) + i] = u[i] OBVIOUS
<1>4. \A i \in DOMAIN (s \o u) : i \in 1..Len(s) \/ \E j \in 1..Len(u) : i = Len(s) + j
  <2>1. \A i \in 1..(Len(s) + Len(u)) : i > Len(s) => i - Len(s) \in 1..Len(u) /\ i = Len(s) + (i - Len(s)) OBVIOUS
  <2>. QED BY <1>1, <2>1
<1>5. ToSet(s \o u) = ToSet(s) \cup ToSet(u)
  <2>1. \A i \in DOMAIN (s \o u) : (s \o u)[i] \in ToSet(s) \cup ToSet(u) BY <1>1, <1>2, <1>3, <1>4 DEF ToSet
  <2>2. \A x \in ToSet(s) \cup ToSet(u) : \E i \in DOMAIN (s \o u) : (s \o u)[i] = x
    BY <1>1, <1>2, <1>3 DEF ToSet
  <2>. QED BY <2>1, <2>2 DEF ToSet
<1>. QED BY <1>5

LEMMA ToSetOfAppended ==
  ASSUME NEW S, NEW s \in Seq(S), NEW x \in S
  PROVE  Append(s, x) \in Seq(S) /\ ToSet(Append(s, x)) = ToSet(s) \cup {x}
<1>1. DOMAIN Append(s, x) = 1..(Len(s) + 1) /\ DOMAIN s = 1..Len(s) /\ Len(s) \in Nat OBVIOUS
<1>2. \A i \in 1..Len(s) : i \in DOMAIN Append(s, x) /\ Append(s, x)[i] = s[i] OBVIOUS
<1>3. Len(s) + 1 \in DOMAIN Append(s, x) /\ Append(s, x)[Len(s) + 1] = x OBVIOUS
<1>4. \A i \in DOMAIN Append(s, x) : i \in 1..Len(s) \/ i = Len(s) + 1 BY <1>1
<1>5. ToSet(Append(s, x)) = ToSet(s) \cup {x}
  <2>1. \A i \in DOMAIN Append(s, x) : Append(s, x)[i] \in ToSet(s) \cup {x} BY <1>1, <1>2, <1>3, <1>4 DEF ToSet
  <2>2. \A y \in ToSet(s) \cup {x} : \E i \in DOMAIN Append(s, x) : Append(s, x)[i] = y
    BY <1>1, <1>2, <1>3 DEF ToSet
  <2>. QED BY <2>1, <2>2 DEF ToSet
<1>. QED BY <1>5

(* FlattenSeq joins one sequence after the other. *)
Flattens(f, seqs, N) == f[0] = <<>> /\ \A i \in 1..N : f[i] = f[i - 1] \o seqs[i]

LEMMA Flattening ==
  ASSUME NEW S, NEW N \in Nat, NEW seqs \in [1..N -> Seq(S)]
  PROVE  \E f \in [0..N -> Seq(S)] : Flattens(f, seqs, N) /\ FlattenSeq(seqs) = f[N]
<1>. DEFINE Fits(f) == f = [i \in 1..N |-> IF i = 1 THEN seqs[i] ELSE f[i - 1] \o seqs[i]]
            flatten == CHOOSE f : Fits(f)
<1>1. Len(seqs) = N OBVIOUS
<1>2. PICK g \in [0..N -> Seq(S)] : Flattens(g, seqs, N)
  <2>. DEFINE step == [s \in Seq(S) |-> [i \in 1..N |-> s \o seqs[i]]]
              Seqs == Seq(S)
              empty == <<>>
  <2>1. step \in [Seqs -> [1..N -> Seqs]] BY ToSetOfJoined
  <2>2. empty \in Seqs OBVIOUS
  <2>3. PICK g \in [0..N -> Seq(S)] : Recursive(g, N, empty, step)
    <3>. HIDE DEF Seqs, empty, step
    <3>1. \E g \in [0..N -> Seqs] : Recursive(g, N, empty, step) BY <2>1, <2>2, Recursion
    <3>. QED BY <3>1 DEF Seqs
  <2>4. ASSUME NEW i \in 1..N PROVE g[i] = g[i - 1] \o seqs[i]
    <3>1. i \in 0..N /\ i # 0 /\ i - 1 \in 0..N OBVIOUS
    <3>2. g[i - 1] \in Seq(S) BY <3>1
    <3>3. step[g[i - 1]][i] = g[i - 1] \o seqs[i] BY <3>2
    <3>. HIDE DEF step
    <3>4. g[i] = step[g[i - 1]][i] BY <2>3, <3>1 DEF Recursive
    <3>. QED BY <3>3, <3>4
  <2>5. g[0] = <<>>
    <3>. HIDE DEF step
    <3>1. 0 \in 0..N OBVIOUS
    <3>. QED BY <2>3, <3>1 DEF Recursive
  <2>. HIDE DEF step
  <2>. QED BY <2>4, <2>5 DEF Flattens
<1>3. CASE N = 0
  <2>1. FlattenSeq(seqs) = <<>> BY <1>1, <1>3 DEF FlattenSeq
  <2>. QED BY <1>2, <1>3, <2>1 DEF Flattens
<1>4. CASE N # 0
  <2>1. FlattenSeq(seqs) = flatten[N] BY <1>1, <1>4 DEF FlattenSeq
  <2>2. \A i \in 1..N : g[i] = IF i = 1 THEN seqs[i] ELSE g[i - 1] \o seqs[i]
    <3>. SUFFICES ASSUME NEW i \in 1..N, i = 1 PROVE g[i] = seqs[i] BY <1>2 DEF Flattens
    <3>1. g[i - 1] = <<>> BY <1>2 DEF Flattens
    <3>2. seqs[i] \in Seq(S) OBVIOUS
    <3>3. <<>> \o seqs[i] = seqs[i] BY <3>2
    <3>. QED BY <1>2, <3>1, <3>3 DEF Flattens
  <2>3. Fits(flatten)
    <3>. DEFINE f == [i \in 1..N |-> g[i]]
    <3>1. \A i \in 1..N : i # 1 => i - 1 \in 1..N OBVIOUS
    <3>2. \A i \in 1..N : f[i] = IF i = 1 THEN seqs[i] ELSE f[i - 1] \o seqs[i] BY <2>2, <3>1
    <3>3. Fits(f) BY <3>2
    <3>. HIDE DEF Fits
    <3>. QED BY <3>3
  <2>. HIDE DEF flatten
  <2>. DEFINE P == {n \in 0..N : n = 0 \/ flatten[n] = g[n]}
  <2>4. \A n \in 1..N : n - 1 \in P => n \in P
    <3>. SUFFICES ASSUME NEW n \in 1..N, n - 1 \in P PROVE flatten[n] = g[n] OBVIOUS
    <3>1. flatten[n] = IF n = 1 THEN seqs[n] ELSE flatten[n - 1] \o seqs[n] BY <2>3
    <3>2. n = 1 \/ n - 1 # 0 OBVIOUS
    <3>. QED BY <2>2, <3>1, <3>2
  <2>5. N \in P
    <3>1. 0 \in P /\ N \in 0..N OBVIOUS
    <3>. HIDE DEF P
    <3>. QED BY <2>4, <3>1, Induction
  <2>6. flatten[N] = g[N] BY <1>4, <2>5
  <2>. QED BY <1>2, <2>1, <2>6
<1>. QED BY <1>3, <1>4

LEMMA FlattenedSeq ==
  ASSUME NEW S, NEW N \in Nat, NEW seqs \in [1..N -> Seq(S)]
  PROVE  /\ FlattenSeq(seqs) \in Seq(S)
         /\ ToSet(FlattenSeq(seqs)) = UNION {ToSet(seqs[i]) : i \in 1..N}
<1>. DEFINE AllUpTo(n) == UNION {ToSet(seqs[i]) : i \in 1..n}
            Right(s, n) == s \in Seq(S) /\ ToSet(s) = AllUpTo(n)
<1>1. PICK f \in [0..N -> Seq(S)] : Flattens(f, seqs, N) /\ FlattenSeq(seqs) = f[N] BY Flattening
<1>2. Right(f[0], 0)
  <2>1. f[0] = <<>> BY <1>1 DEF Flattens
  <2>2. AllUpTo(0) = {} OBVIOUS
  <2>. QED BY <2>1, <2>2 DEF ToSet
<1>3. ASSUME NEW n \in 1..N, Right(f[n - 1], n - 1) PROVE Right(f[n], n)
  <2>1. f[n] = f[n - 1] \o seqs[n] BY <1>1 DEF Flattens
  <2>2. AllUpTo(n) = AllUpTo(n - 1) \cup ToSet(seqs[n])
    <3>1. \A i \in 1..n : i \in 1..(n - 1) \/ i = n OBVIOUS
    <3>2. (\A i \in 1..(n - 1) : i \in 1..n) /\ n \in 1..n OBVIOUS
    <3>. QED BY <3>1, <3>2
  <2>. HIDE DEF AllUpTo
  <2>. QED BY <1>3, <2>1, <2>2, ToSetOfJoined
<1>. HIDE DEF Right
<1>. DEFINE P == {n \in 0..N : Right(f[n], n)}
<1>4. 0 \in P /\ N \in 0..N BY <1>2
<1>5. \A n \in 1..N : n - 1 \in P => n \in P
  <2>1. \A n \in 1..N : n \in 0..N OBVIOUS
  <2>. QED BY <1>3, <2>1
<1>6. N \in P
  <2>. HIDE DEF P
  <2>. QED BY <1>4, <1>5, Induction
<1>. QED BY <1>1, <1>6 DEF Right

SameUpTo(f, g, N) == \A n \in 1..N : f[n] = g[n]

LEMMA FlattenedAppended ==
  ASSUME NEW S, NEW N \in Nat, NEW seqs \in [1..N -> Seq(S)],
         NEW M, M = N + 1, NEW more \in [1..M -> Seq(S)], SameUpTo(more, seqs, N)
  PROVE  FlattenSeq(more) = FlattenSeq(seqs) \o more[M]
<1>0. M \in Nat OBVIOUS
<1>1. PICK f \in [0..N -> Seq(S)] : Flattens(f, seqs, N) /\ FlattenSeq(seqs) = f[N] BY Flattening
<1>2. PICK g \in [0..M -> Seq(S)] : Flattens(g, more, M) /\ FlattenSeq(more) = g[M] BY <1>0, Flattening
<1>. DEFINE P == {n \in 0..N : g[n] = f[n]}
<1>3. 0 \in P /\ N \in 0..N BY <1>1, <1>2 DEF Flattens
<1>4. \A n \in 1..N : n - 1 \in P => n \in P
  <2>. SUFFICES ASSUME NEW n \in 1..N, g[n - 1] = f[n - 1] PROVE g[n] = f[n] OBVIOUS
  <2>1. n \in 1..M OBVIOUS
  <2>. QED BY <1>1, <1>2, <2>1 DEF Flattens, SameUpTo
<1>5. N \in P
  <2>. HIDE DEF P
  <2>. QED BY <1>3, <1>4, Induction
<1>6. M \in 1..M /\ M - 1 = N OBVIOUS
<1>7. g[M] = g[N] \o more[M] BY <1>2, <1>6 DEF Flattens
<1>. QED BY <1>1, <1>2, <1>5, <1>7

LEMMA FlattenedNothing ==
  ASSUME NEW S, NEW N \in Nat, NEW seqs \in [1..N -> Seq(S)], \A i \in 1..N : seqs[i] = <<>>
  PROVE  FlattenSeq(seqs) = <<>>
<1>1. PICK f \in [0..N -> Seq(S)] : Flattens(f, seqs, N) /\ FlattenSeq(seqs) = f[N] BY Flattening
<1>. DEFINE P == {n \in 0..N : f[n] = <<>>}
<1>2. 0 \in P /\ N \in 0..N BY <1>1 DEF Flattens
<1>3. \A n \in 1..N : n - 1 \in P => n \in P
  <2>. SUFFICES ASSUME NEW n \in 1..N, f[n - 1] = <<>> PROVE f[n] = <<>> OBVIOUS
  <2>1. f[n] = <<>> \o <<>> BY <1>1 DEF Flattens
  <2>. QED BY <2>1
<1>4. N \in P
  <2>. HIDE DEF P
  <2>. QED BY <1>2, <1>3, Induction
<1>. QED BY <1>1, <1>4

(* Of sequences that are empty but the last, the last remains. *)
AllEmptyUpTo(seqs, N) == \A n \in 1..N : seqs[n] = <<>>

LEMMA FlattenedLast ==
  ASSUME NEW S, NEW N \in Nat, NEW M, M = N + 1, NEW seqs \in [1..M -> Seq(S)], AllEmptyUpTo(seqs, N)
  PROVE  FlattenSeq(seqs) = seqs[M]
<1>. DEFINE empty == [n \in 1..N |-> <<>>]
            flat == FlattenSeq(seqs)
            none == FlattenSeq(empty)
<1>1. empty \in [1..N -> Seq(S)]
  <2>1. <<>> \in Seq(S) OBVIOUS
  <2>. QED BY <2>1
<1>2. \A n \in 1..N : empty[n] = <<>> OBVIOUS
<1>. HIDE DEF empty
<1>3. SameUpTo(seqs, empty, N) BY <1>2 DEF SameUpTo, AllEmptyUpTo
<1>4. none = <<>> BY <1>1, <1>2, FlattenedNothing
<1>5. flat = none \o seqs[M] BY <1>1, <1>3, FlattenedAppended
<1>6. seqs[M] \in Seq(S)
  <2>1. M \in 1..M OBVIOUS
  <2>. QED BY <2>1
<1>7. <<>> \o seqs[M] = seqs[M] BY <1>6
<1>. QED BY <1>4, <1>5, <1>7

LEMMA JoinedParts ==
  ASSUME NEW S, NEW s \in Seq(S), NEW u \in Seq(S)
  PROVE  /\ s \o u \in Seq(S) /\ Len(s \o u) = Len(s) + Len(u)
         /\ \A i \in 1..Len(s) : (s \o u)[i] = s[i]
         /\ \A i \in 1..Len(u) : (s \o u)[Len(s) + i] = u[i]
OBVIOUS

(* Finitely many numbers have a bound. *)
LEMMA HaveBound ==
  ASSUME NEW N \in Nat, NEW f \in [1..N -> Nat]
  PROVE  \E b \in Nat : \A i \in 1..N : f[i] =< b
<1>. DEFINE BoundTo(n) == \E b \in Nat : \A i \in 1..n : f[i] =< b
            P == {n \in 0..N : BoundTo(n)}
<1>1. 0 \in P
  <2>1. 0 \in Nat /\ \A i \in 1..0 : f[i] =< 0 OBVIOUS
  <2>. QED BY <2>1
<1>2. ASSUME NEW n \in 1..N, n - 1 \in P PROVE n \in P
  <2>1. PICK b \in Nat : \A i \in 1..(n - 1) : f[i] =< b BY <1>2
  <2>2. f[n] \in Nat BY <1>2
  <2>3. PICK c \in Nat : b =< c /\ f[n] =< c
    <3>1. CASE b =< f[n] BY <2>2, <3>1
    <3>2. CASE ~(b =< f[n]) BY <2>2, <3>2
    <3>. QED BY <3>1, <3>2
  <2>4. ASSUME NEW i \in 1..n PROVE f[i] =< c
    <3>1. CASE i = n BY <2>3, <3>1
    <3>2. CASE i # n
      <4>1. i \in 1..(n - 1) /\ f[i] \in Nat BY <1>2, <3>2
      <4>. QED BY <2>1, <2>3, <4>1
    <3>. QED BY <3>1, <3>2
  <2>5. BoundTo(n) BY <2>3, <2>4
  <2>. QED BY <1>2, <2>5
<1>. HIDE DEF P
<1>3. \A n \in 1..N : n - 1 \in P => n \in P BY <1>2
<1>4. \A n \in 0..N : n \in P BY <1>1, <1>3, Induction
<1>5. N \in P BY <1>4
<1>. QED BY <1>5 DEF P

(* The end of a sequence, place by place. *)
Ends(s, t) == Len(s) <= Len(t) /\ \A n \in 1..Len(s) : s[n] = t[n + (Len(t) - Len(s))]

LEMMA EndsIsSuffix ==
  ASSUME NEW S, NEW s \in Seq(S), NEW t \in Seq(S), Ends(s, t)
  PROVE  IsSuffix(s, t)
<1>. DEFINE l == Len(s)
            m == Len(t)
<1>1. l \in Nat /\ m \in Nat /\ l <= m BY DEF Ends
<1>2. Reverse(s) = [n \in 1..l |-> s[(l - n) + 1]] /\ Reverse(t) = [n \in 1..m |-> t[(m - n) + 1]] BY DEF Reverse
<1>3. \A n \in 1..l : s[n] \in S OBVIOUS
<1>4. \A n \in 1..m : t[n] \in S OBVIOUS
<1>5. \A n \in 1..l : s[n] = t[n + (m - l)] BY DEF Ends
<1>. HIDE DEF l, m
<1>6. Reverse(s) \in Seq(S) /\ Len(Reverse(s)) = l /\ \A n \in 1..l : Reverse(s)[n] = s[(l - n) + 1]
  <2>1. \A n \in 1..l : (l - n) + 1 \in 1..l BY <1>1
  <2>. QED BY <1>1, <1>2, <1>3, <2>1
<1>7. Reverse(t) \in Seq(S) /\ Len(Reverse(t)) = m /\ \A n \in 1..m : Reverse(t)[n] = t[(m - n) + 1]
  <2>1. \A n \in 1..m : (m - n) + 1 \in 1..m BY <1>1
  <2>. QED BY <1>1, <1>2, <1>4, <2>1
<1>8. ASSUME NEW n \in 1..l PROVE Reverse(s)[n] = Reverse(t)[n]
  <2>1. n \in 1..m /\ (l - n) + 1 \in 1..l /\ ((l - n) + 1) + (m - l) = (m - n) + 1 BY <1>1
  <2>2. s[(l - n) + 1] = t[((l - n) + 1) + (m - l)] BY <1>5, <2>1
  <2>3. Reverse(s)[n] = s[(l - n) + 1] BY <1>6
  <2>4. Reverse(t)[n] = t[(m - n) + 1] BY <1>7, <2>1
  <2>. QED BY <2>1, <2>2, <2>3, <2>4
<1>9. SubSeq(Reverse(s), 1, l) = SubSeq(Reverse(t), 1, l) BY <1>1, <1>6, <1>7, <1>8
<1>. QED BY <1>1, <1>6, <1>7, <1>9 DEF IsSuffix, IsPrefix

LEMMA EndsOfEnds ==
  ASSUME NEW S, NEW s \in Seq(S), NEW t \in Seq(S), NEW u \in Seq(S), Ends(s, t), Ends(t, u)
  PROVE  Ends(s, u)
<1>1. Len(s) \in Nat /\ Len(t) \in Nat /\ Len(u) \in Nat /\ Len(s) <= Len(t) /\ Len(t) <= Len(u) BY DEF Ends
<1>2. ASSUME NEW n \in 1..Len(s) PROVE s[n] = u[n + (Len(u) - Len(s))]
  <2>1. n + (Len(t) - Len(s)) \in 1..Len(t) BY <1>1
  <2>2. (n + (Len(t) - Len(s))) + (Len(u) - Len(t)) = n + (Len(u) - Len(s)) BY <1>1
  <2>. QED BY <2>1, <2>2 DEF Ends
<1>. QED BY <1>1, <1>2 DEF Ends

LEMMA EndsOfJoined ==
  ASSUME NEW S, NEW s \in Seq(S), NEW t \in Seq(S), NEW u \in Seq(S), Ends(s, t)
  PROVE  Ends(s \o u, t \o u)
<1>1. Len(s) \in Nat /\ Len(t) \in Nat /\ Len(u) \in Nat /\ Len(s) <= Len(t) BY DEF Ends
<1>2. /\ Len(s \o u) = Len(s) + Len(u)
      /\ \A n \in 1..Len(s) : (s \o u)[n] = s[n]
      /\ \A n \in 1..Len(u) : (s \o u)[Len(s) + n] = u[n]
  BY JoinedParts
<1>3. /\ Len(t \o u) = Len(t) + Len(u)
      /\ \A n \in 1..Len(t) : (t \o u)[n] = t[n]
      /\ \A n \in 1..Len(u) : (t \o u)[Len(t) + n] = u[n]
  BY JoinedParts
<1>. DEFINE a == s \o u
            b == t \o u
            k == Len(t) - Len(s)
<1>4. k \in Nat /\ Len(b) - Len(a) = k BY <1>1, <1>2, <1>3
<1>5. ASSUME NEW n \in 1..Len(a) PROVE a[n] = b[n + k]
  <2>1. CASE n <= Len(s)
    <3>1. n \in 1..Len(s) /\ n + k \in 1..Len(t) BY <1>1, <2>1
    <3>. QED BY <1>2, <1>3, <3>1 DEF Ends
  <2>2. CASE n > Len(s)
    <3>1. n - Len(s) \in 1..Len(u) /\ Len(s) + (n - Len(s)) = n /\ Len(t) + (n - Len(s)) = n + k BY <1>1, <1>2, <2>2
    <3>. QED BY <1>2, <1>3, <3>1
  <2>. QED BY <1>1, <1>2, <2>1, <2>2
<1>6. Len(a) <= Len(b) BY <1>1, <1>2, <1>3
<1>. HIDE DEF a, b, k
<1>7. Ends(a, b) BY <1>4, <1>5, <1>6 DEF Ends
<1>. QED BY <1>7 DEF a, b
=============================================================================
