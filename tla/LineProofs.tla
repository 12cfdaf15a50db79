----------------------------- MODULE LineProofs -----------------------------
(***************************************************************************)
(* What the operators of Line do, for every sequence.  Without is          *)
(* recursive: its value is unfolded along the sequence, by induction in    *)
(* the form "a set of naturals that is not empty has a least element".     *)
(***************************************************************************)
EXTENDS Line, FiniteSets, FiniteSetTheorems, SequenceTheorems,
        WellFoundedInduction, TLAPS

\* A set of naturals that is not empty has a least element.
LEMMA LeastNatural ==
  ASSUME NEW T \in SUBSET Nat, T # {}
  PROVE  \E n \in T : \A m \in T : ~ (m < n)
<1> DEFINE U == {1 .. n : n \in T}
<1>1. U \in SUBSET FiniteSubsetsOf(Nat) /\ U # {}
  <2>1. \A n \in T : IsFiniteSet(1 .. n) /\ 1 .. n \in SUBSET Nat
    BY FS_Interval
  <2> QED BY <2>1 DEF FiniteSubsetsOf
<1>2. IsWellFoundedOn(StrictSubsetOrdering(Nat), FiniteSubsetsOf(Nat))
  BY FS_StrictSubsetOrderingWellFounded
<1>3. PICK x \in U : \A y \in U : ~ (<<y, x>> \in StrictSubsetOrdering(Nat))
  <2> HIDE DEF U
  <2> QED BY <1>1, <1>2, WFMin
<1>4. PICK n \in T : x = 1 .. n
  OBVIOUS
<1>5. ASSUME NEW m \in T, m < n
      PROVE  FALSE
  <2>1. 1 .. m \subseteq 1 .. n /\ 1 .. m # 1 .. n
    <3>1. n \in 1 .. n /\ n \notin 1 .. m BY <1>5
    <3> QED BY <3>1, <1>5
  <2>2. <<1 .. m, 1 .. n>> \in StrictSubsetOrdering(Nat)
    BY <2>1 DEF StrictSubsetOrdering
  <2> QED BY <2>2, <1>3, <1>4
<1> QED BY <1>5

\* The least of some naturals, as it is chosen, and the greatest where they are
\* bounded.
LEMMA LeastIsChosen ==
  ASSUME NEW T \in SUBSET Nat, T # {}
  PROVE  LET least == CHOOSE n \in T : \A m \in T : n =< m
         IN  least \in T /\ \A m \in T : least =< m
<1>1. PICK n \in T : \A m \in T : ~ (m < n) BY LeastNatural
<1>2. \A m \in T : n =< m BY <1>1
<1> QED BY <1>2

LEMMA GreatestIsChosen ==
  ASSUME NEW T \in SUBSET Nat, T # {}, NEW bound \in Nat, \A n \in T : n =< bound
  PROVE  LET greatest == CHOOSE n \in T : \A m \in T : n >= m
         IN  greatest \in T /\ \A m \in T : greatest >= m
<1> DEFINE U == {bound - n : n \in T}
<1>1. U \in SUBSET Nat /\ U # {}
  <2>1. \A n \in T : bound - n \in Nat OBVIOUS
  <2> QED BY <2>1
<1>2. PICK u \in U : \A v \in U : ~(v < u) BY <1>1, LeastNatural
<1>3. PICK n \in T : u = bound - n BY <1>2
<1>4. ASSUME NEW m \in T PROVE n >= m
  <2>1. bound - m \in U OBVIOUS
  <2>2. ~(bound - m < bound - n) BY <1>2, <1>3, <2>1
  <2> QED BY <2>2
<1>5. \E k \in T : \A m \in T : k >= m BY <1>4
<1> QED BY <1>5

\* The body of the recursion in Without.
Keep(q, S, kept, i) ==
  IF i = 0 THEN << >>
  ELSE IF q[i] \in S THEN kept[i - 1] ELSE Append(kept[i - 1], q[i])

\* There is a function that satisfies the recursion of Without.
LEMMA KeptExists ==
  ASSUME NEW J, NEW q \in Seq(J), NEW S
  PROVE  \E f : f = [i \in 0 .. Len(q) |-> Keep(q, S, f, i)]
<1> DEFINE Upto(n, f) == /\ f = [i \in 0 .. n |-> f[i]]
                         /\ \A i \in 0 .. n : f[i] = Keep(q, S, f, i)
           Bad == {n \in 0 .. Len(q) : ~ \E f : Upto(n, f)}
<1>1. Len(q) \in Nat
  OBVIOUS
<1>2. Bad = {}
  <2> SUFFICES ASSUME Bad # {} PROVE FALSE
    OBVIOUS
  <2>1. Bad \in SUBSET Nat BY <1>1
  <2>2. PICK n \in Bad : \A m \in Bad : ~ (m < n) BY <2>1, LeastNatural
  <2>3. n # 0
    <3> SUFFICES ASSUME n = 0 PROVE FALSE
      OBVIOUS
    <3> DEFINE f == [i \in 0 .. 0 |-> << >>]
    <3>1. Upto(0, f) BY DEF Keep
    <3> QED BY <3>1
  <2>4. n - 1 \in 0 .. Len(q) /\ n - 1 \notin Bad BY <2>2, <2>3, <1>1
  <2>5. PICK f : Upto(n - 1, f) BY <2>4
  <2> DEFINE h == [i \in 0 .. n |-> IF i = n THEN Keep(q, S, f, n) ELSE f[i]]
  <2>6. Upto(n, h)
    <3>1. n \in Nat /\ n > 0 BY <2>3, <1>1
    <3>2. ASSUME NEW i \in 0 .. n
          PROVE  h[i] = Keep(q, S, h, i)
      <4>1. i # 0 => i - 1 \in 0 .. n /\ i - 1 # n /\ h[i - 1] = f[i - 1]
        BY <3>1
      <4>2. i # n => /\ i \in 0 .. n - 1
                     /\ f[i] = Keep(q, S, f, i)
                     /\ h[i] = f[i]
        BY <2>5, <3>1
      <4>3. i = n => h[i] = Keep(q, S, f, i) BY <3>1
      <4>4. Keep(q, S, h, i) = Keep(q, S, f, i) BY <4>1 DEF Keep
      <4> HIDE DEF h
      <4> QED BY <4>2, <4>3, <4>4
    <3> QED BY <3>2
  <2> QED BY <2>6, <2>2
<1>3. PICK f : Upto(Len(q), f) BY <1>2, <1>1
<1>4. f = [i \in 0 .. Len(q) |-> Keep(q, S, f, i)] BY <1>3
<1> QED BY <1>4

\* Without is the last value of such a function.
LEMMA WithoutUnfolds ==
  ASSUME NEW J, NEW q \in Seq(J), NEW S
  PROVE  \E f : /\ Without(q, S) = f[Len(q)]
                /\ f = [i \in 0 .. Len(q) |-> Keep(q, S, f, i)]
<1> DEFINE f == CHOOSE f : f = [i \in 0 .. Len(q) |-> Keep(q, S, f, i)]
<1>1. f = [i \in 0 .. Len(q) |-> Keep(q, S, f, i)] BY KeptExists
<1>2. Without(q, S) = f[Len(q)] BY DEF Without, Keep
<1> QED BY <1>1, <1>2

\* Joining the end of a line adds one member, and keeps the line free of
\* duplicates if that member was not in it.
LEMMA AppendMembers ==
  ASSUME NEW J, NEW q \in Seq(J), NEW x \in J
  PROVE  /\ Append(q, x) \in Seq(J)
         /\ Members(Append(q, x)) = Members(q) \cup {x}
         /\ Distinct(q) /\ x \notin Members(q) => Distinct(Append(q, x))
<1>1. /\ Append(q, x) \in Seq(J)
      /\ Len(Append(q, x)) = Len(q) + 1
      /\ \A i \in 1 .. Len(q) : Append(q, x)[i] = q[i]
      /\ Append(q, x)[Len(q) + 1] = x
  OBVIOUS
<1> DEFINE r == Append(q, x)
<1> HIDE DEF r
<1>2. /\ Len(q) \in Nat
      /\ r \in Seq(J) /\ Len(r) = Len(q) + 1
      /\ \A i \in 1 .. Len(q) : r[i] = q[i]
      /\ r[Len(q) + 1] = x
  BY <1>1 DEF r
<1>3. Members(r) = Members(q) \cup {x}
  <2>1. ASSUME NEW y \in Members(r) PROVE y \in Members(q) \cup {x}
    <3>1. PICK i \in 1 .. Len(r) : y = r[i] BY DEF Members
    <3>2. i \in 1 .. Len(q) \/ i = Len(q) + 1 BY <1>2
    <3> QED BY <3>1, <3>2, <1>2 DEF Members
  <2>2. ASSUME NEW y \in Members(q) PROVE y \in Members(r)
    <3>1. PICK i \in 1 .. Len(q) : y = q[i] BY DEF Members
    <3>2. i \in 1 .. Len(r) BY <1>2
    <3> QED BY <3>1, <3>2, <1>2 DEF Members
  <2>3. x \in Members(r)
    <3>1. Len(q) + 1 \in 1 .. Len(r) BY <1>2
    <3> QED BY <3>1, <1>2 DEF Members
  <2> QED BY <2>1, <2>2, <2>3
<1>4. ASSUME Distinct(q), x \notin Members(q) PROVE Distinct(r)
  <2> SUFFICES ASSUME NEW i \in 1 .. Len(r), NEW k \in 1 .. Len(r), r[i] = r[k]
               PROVE  i = k
    BY DEF Distinct
  <2>1. \A m \in 1 .. Len(q) : q[m] # x BY <1>4 DEF Members
  <2>2. /\ i \in 1 .. Len(q) \/ i = Len(q) + 1
        /\ k \in 1 .. Len(q) \/ k = Len(q) + 1
    BY <1>2
  <2> QED BY <1>4, <2>1, <2>2, <1>2 DEF Distinct
<1> QED BY <1>2, <1>3, <1>4 DEF r

\* Without removes the members of S, and no other; it keeps a line free of
\* duplicates, and makes none longer.
LEMMA WithoutMembers ==
  ASSUME NEW J, NEW q \in Seq(J), NEW S
  PROVE  /\ Without(q, S) \in Seq(J)
         /\ Members(Without(q, S)) = Members(q) \ S
         /\ Distinct(q) => Distinct(Without(q, S))
         /\ Len(Without(q, S)) <= Len(q)
<1>1. PICK f : /\ Without(q, S) = f[Len(q)]
               /\ f = [i \in 0 .. Len(q) |-> Keep(q, S, f, i)]
  BY WithoutUnfolds
<1>2. Len(q) \in Nat /\ \A i \in 1 .. Len(q) : q[i] \in J
  OBVIOUS
<1> DEFINE First(n) == {q[i] : i \in 1 .. n}
           Good(n) == /\ f[n] \in Seq(J)
                      /\ Members(f[n]) = First(n) \ S
                      /\ Distinct(q) => Distinct(f[n])
                      /\ Len(f[n]) <= n
           Bad == {n \in 0 .. Len(q) : ~ Good(n)}
<1>3. \A i \in 0 .. Len(q) : f[i] = Keep(q, S, f, i) BY <1>1
<1>4. Good(0)
  <2>1. f[0] = << >> BY <1>2, <1>3 DEF Keep
  <2>2. << >> \in Seq(J) /\ Len(<< >>) = 0 OBVIOUS
  <2>3. Members(<< >>) = {} /\ Distinct(<< >>)
    BY <2>2 DEF Members, Distinct
  <2> QED BY <2>1, <2>2, <2>3
<1>5. ASSUME NEW n \in 1 .. Len(q), Good(n - 1) PROVE Good(n)
  <2>1. f[n] = Keep(q, S, f, n) /\ n # 0 /\ n \in Nat BY <1>2, <1>3
  <2>2. First(n) = First(n - 1) \cup {q[n]} BY <1>2
  <2>3. CASE q[n] \in S
    <3>1. f[n] = f[n - 1] BY <2>1, <2>3 DEF Keep
    <3> HIDE DEF First
    <3> QED BY <3>1, <2>2, <2>3, <1>5, <1>2
  <2>4. CASE q[n] \notin S
    <3>1. f[n] = Append(f[n - 1], q[n]) BY <2>1, <2>4 DEF Keep
    <3>2. q[n] \in J BY <1>2
    <3>3. Distinct(q) => q[n] \notin First(n - 1)
      BY <1>2 DEF Distinct
    <3>4. /\ f[n] \in Seq(J)
          /\ Members(f[n]) = Members(f[n - 1]) \cup {q[n]}
          /\ Distinct(f[n - 1]) /\ q[n] \notin Members(f[n - 1])
               => Distinct(f[n])
      BY <3>1, <3>2, <1>5, AppendMembers
    <3>5. Len(f[n]) = Len(f[n - 1]) + 1 BY <3>1, <3>2, <1>5
    <3>6. Len(f[n]) <= n BY <3>5, <1>5, <2>1
    <3> HIDE DEF First
    <3> QED BY <3>3, <3>4, <3>6, <2>2, <2>4, <1>5
  <2> QED BY <2>3, <2>4
<1>6. Bad = {}
  <2> SUFFICES ASSUME Bad # {} PROVE FALSE
    OBVIOUS
  <2>1. Bad \in SUBSET Nat BY <1>2
  <2> HIDE DEF Good
  <2>2. PICK n \in Bad : \A m \in Bad : ~ (m < n) BY <2>1, LeastNatural
  <2>3. n # 0 BY <1>4
  <2>4. n \in 1 .. Len(q) /\ n - 1 \in 0 .. Len(q) /\ n - 1 < n
    BY <2>3, <1>2
  <2>5. Good(n - 1) BY <2>2, <2>4
  <2> QED BY <1>5, <2>4, <2>5
<1>7. Good(Len(q))
  <2> HIDE DEF Good
  <2> QED BY <1>6, <1>2
<1>8. First(Len(q)) = Members(q) BY DEF Members
<1> QED BY <1>1, <1>7, <1>8

\* The rest of a line behind its m-th member.
LEMMA SuffixMembers ==
  ASSUME NEW J, NEW q \in Seq(J), NEW m \in 1 .. Len(q)
  PROVE  /\ SubSeq(q, m + 1, Len(q)) \in Seq(J)
         /\ Members(SubSeq(q, m + 1, Len(q))) = {q[i] : i \in m + 1 .. Len(q)}
         /\ Distinct(q) => Distinct(SubSeq(q, m + 1, Len(q)))
         /\ Len(SubSeq(q, m + 1, Len(q))) = Len(q) - m
<1> DEFINE r == SubSeq(q, m + 1, Len(q))
<1>1. Len(q) \in Nat /\ m \in Nat
  OBVIOUS
<1>2. /\ r \in Seq(J)
      /\ Len(r) = Len(q) - m
      /\ \A i \in 1 .. Len(q) - m : r[i] = q[i + m]
  BY <1>1
<1> HIDE DEF r
<1>3. Members(r) = {q[i] : i \in m + 1 .. Len(q)}
  <2>1. ASSUME NEW y \in Members(r) PROVE y \in {q[i] : i \in m + 1 .. Len(q)}
    <3>1. PICK i \in 1 .. Len(r) : y = r[i] BY DEF Members
    <3>2. i + m \in m + 1 .. Len(q) /\ y = q[i + m] BY <3>1, <1>1, <1>2
    <3> QED BY <3>2
  <2>2. ASSUME NEW i \in m + 1 .. Len(q) PROVE q[i] \in Members(r)
    <3>1. i - m \in 1 .. Len(r) /\ r[i - m] = q[i] BY <1>1, <1>2
    <3> QED BY <3>1 DEF Members
  <2> QED BY <2>1, <2>2
<1>4. ASSUME Distinct(q) PROVE Distinct(r)
  <2> SUFFICES ASSUME NEW i \in 1 .. Len(r), NEW k \in 1 .. Len(r), r[i] = r[k]
               PROVE  i = k
    BY DEF Distinct
  <2>1. /\ i + m \in 1 .. Len(q) /\ k + m \in 1 .. Len(q)
        /\ q[i + m] = q[k + m]
    BY <1>1, <1>2
  <2>2. i + m = k + m BY <2>1, <1>4 DEF Distinct
  <2> QED BY <2>2, <1>1, <1>2
<1> QED BY <1>2, <1>3, <1>4 DEF r

\* Induction along a sequence, about a set of positions.
LEMMA UpToInduction ==
  ASSUME NEW N \in Nat, NEW G \in SUBSET (0 .. N), 0 \in G,
         \A n \in 1 .. N : n - 1 \in G => n \in G
  PROVE  G = 0 .. N
<1> DEFINE Bad == (0 .. N) \ G
<1> SUFFICES ASSUME Bad # {} PROVE FALSE
  OBVIOUS
<1>1. Bad \in SUBSET Nat
  OBVIOUS
<1>2. PICK n \in Bad : \A m \in Bad : ~ (m < n) BY <1>1, LeastNatural
<1>3. n \in 1 .. N /\ n - 1 \in 0 .. N /\ n - 1 < n
  OBVIOUS
<1>4. n - 1 \in G BY <1>2, <1>3
<1> QED BY <1>3, <1>4

\* Without, looked at from the front: the first of the line goes or stays.
LEMMA WithoutHead ==
  ASSUME NEW J, NEW q \in Seq(J), q # << >>, NEW S
  PROVE  /\ Head(q) \in S => Without(q, S) = Without(Tail(q), S)
         /\ Head(q) \notin S =>
              Without(q, S) = <<Head(q)>> \o Without(Tail(q), S)
<1> DEFINE t == Tail(q)
           x == Head(q)
<1>1. /\ t \in Seq(J) /\ x \in J /\ Len(q) \in Nat /\ Len(q) > 0
      /\ Len(t) = Len(q) - 1 /\ Len(t) \in Nat
      /\ x = q[1] /\ \A i \in 1 .. Len(t) : t[i] = q[i + 1] /\ t[i] \in J
  OBVIOUS
<1> HIDE DEF t, x
<1>2. PICK f : /\ Without(q, S) = f[Len(q)]
               /\ f = [i \in 0 .. Len(q) |-> Keep(q, S, f, i)]
  BY WithoutUnfolds
<1>3. PICK g : /\ Without(t, S) = g[Len(t)]
               /\ g = [i \in 0 .. Len(t) |-> Keep(t, S, g, i)]
  BY <1>1, WithoutUnfolds
<1>4. \A i \in 0 .. Len(q) : f[i] = Keep(q, S, f, i) BY <1>2
<1>5. \A i \in 0 .. Len(t) : g[i] = Keep(t, S, g, i) BY <1>3
<1> DEFINE front == IF x \in S THEN << >> ELSE <<x>>
           G == {n \in 0 .. Len(t) : g[n] \in Seq(J) /\ f[n + 1] = front \o g[n]}
<1>6. 0 \in G
  <2>1. g[0] = << >> BY <1>1, <1>5 DEF Keep
  <2>2. 0 \in 0 .. Len(q) /\ 1 \in 0 .. Len(q) /\ 1 # 0 /\ 1 - 1 = 0
    BY <1>1
  <2>3. f[0] = << >> BY <2>2, <1>4 DEF Keep
  <2>4. f[1] = IF x \in S THEN << >> ELSE Append(<< >>, x)
    BY <2>2, <2>3, <1>1, <1>4 DEF Keep
  <2>5. front \in Seq(J) /\ front \o << >> = front
    BY <1>1, ConcatEmptySeq
  <2>6. f[1] = front BY <2>4
  <2>7. 0 \in 0 .. Len(t) /\ 0 + 1 = 1 /\ g[0] \in Seq(J) BY <2>1, <1>1
  <2> HIDE DEF front
  <2> QED BY <2>1, <2>5, <2>6, <2>7
<1>7. ASSUME NEW n \in 1 .. Len(t), n - 1 \in G PROVE n \in G
  <2>1. n + 1 \in 0 .. Len(q) /\ n + 1 # 0 /\ (n + 1) - 1 = n /\ n # 0
        /\ n \in 0 .. Len(t) /\ (n - 1) + 1 = n
    BY <1>1
  <2>2. f[n + 1] = IF q[n + 1] \in S THEN f[n] ELSE Append(f[n], q[n + 1])
    BY <2>1, <1>4 DEF Keep
  <2>3. g[n] = IF t[n] \in S THEN g[n - 1] ELSE Append(g[n - 1], t[n])
    BY <2>1, <1>5 DEF Keep
  <2>4. t[n] = q[n + 1] /\ t[n] \in J BY <1>1
  <2>5. g[n - 1] \in Seq(J) /\ f[n] = front \o g[n - 1] BY <1>7, <2>1
  <2>6. front \in Seq(J) BY <1>1
  <2> HIDE DEF front
  <2>7. Append(front \o g[n - 1], t[n]) = front \o Append(g[n - 1], t[n])
    <3>1. <<t[n]>> \in Seq(J) /\ Append(g[n - 1], t[n]) = g[n - 1] \o <<t[n]>>
      BY <2>4, <2>5, AppendIsConcat
    <3>2. front \o g[n - 1] \in Seq(J) BY <2>5, <2>6
    <3>3. Append(front \o g[n - 1], t[n]) = (front \o g[n - 1]) \o <<t[n]>>
      BY <2>4, <3>2, AppendIsConcat
    <3>4. (front \o g[n - 1]) \o <<t[n]>> = front \o (g[n - 1] \o <<t[n]>>)
      <4> DEFINE y == <<t[n]>>
                 h == g[n - 1]
      <4>1. front \in Seq(J) /\ h \in Seq(J) /\ y \in Seq(J)
        BY <2>5, <2>6, <3>1
      <4> HIDE DEF y, h
      <4>2. (front \o h) \o y = front \o (h \o y) BY <4>1, ConcatAssociative
      <4> QED BY <4>2 DEF y, h
    <3> QED BY <3>1, <3>3, <3>4
  <2>8. g[n] \in Seq(J) BY <2>3, <2>4, <2>5
  <2> QED BY <2>1, <2>2, <2>3, <2>4, <2>5, <2>7, <2>8
<1>8. G = 0 .. Len(t)
  <2>1. G \in SUBSET (0 .. Len(t))
    OBVIOUS
  <2> HIDE DEF G
  <2> QED BY <2>1, <1>1, <1>6, <1>7, UpToInduction
<1>9. Len(t) \in G /\ Len(t) + 1 = Len(q)
  <2>1. Len(t) \in 0 .. Len(t) BY <1>1
  <2> HIDE DEF G
  <2> QED BY <2>1, <1>1, <1>8
<1>10. Without(q, S) = front \o Without(t, S) /\ Without(t, S) \in Seq(J)
  BY <1>2, <1>3, <1>9
<1> QED BY <1>10 DEF t, x

\* Only the members of the line matter among those who leave.
LEMMA WithoutSame ==
  ASSUME NEW J, NEW q \in Seq(J), NEW S, NEW T,
         \A x \in Members(q) : x \in S <=> x \in T
  PROVE  Without(q, S) = Without(q, T)
<1>1. PICK f : /\ Without(q, S) = f[Len(q)]
               /\ f = [i \in 0 .. Len(q) |-> Keep(q, S, f, i)]
  BY WithoutUnfolds
<1>2. PICK g : /\ Without(q, T) = g[Len(q)]
               /\ g = [i \in 0 .. Len(q) |-> Keep(q, T, g, i)]
  BY WithoutUnfolds
<1>3. \A i \in 0 .. Len(q) : f[i] = Keep(q, S, f, i) BY <1>1
<1>4. \A i \in 0 .. Len(q) : g[i] = Keep(q, T, g, i) BY <1>2
<1>5. Len(q) \in Nat
  OBVIOUS
<1> DEFINE G == {n \in 0 .. Len(q) : f[n] = g[n]}
<1>6. 0 \in G BY <1>3, <1>4, <1>5 DEF Keep
<1>7. ASSUME NEW n \in 1 .. Len(q), n - 1 \in G PROVE n \in G
  <2>1. q[n] \in S <=> q[n] \in T BY DEF Members
  <2>2. n \in 0 .. Len(q) /\ n # 0 BY <1>5
  <2> QED BY <2>1, <2>2, <1>3, <1>4, <1>7 DEF Keep
<1>8. G = 0 .. Len(q)
  <2>1. G \in SUBSET (0 .. Len(q))
    OBVIOUS
  <2> HIDE DEF G
  <2> QED BY <2>1, <1>5, <1>6, <1>7, UpToInduction
<1> QED BY <1>1, <1>2, <1>5, <1>8

\* A line that has a member who leaves becomes shorter.
LEMMA WithoutShorter ==
  ASSUME NEW J, NEW q \in Seq(J), NEW S, NEW x \in Members(q), x \in S
  PROVE  Len(Without(q, S)) < Len(q)
<1>1. PICK f : /\ Without(q, S) = f[Len(q)]
               /\ f = [i \in 0 .. Len(q) |-> Keep(q, S, f, i)]
  BY WithoutUnfolds
<1>2. Len(q) \in Nat /\ \A i \in 1 .. Len(q) : q[i] \in J
  OBVIOUS
<1>3. PICK k \in 1 .. Len(q) : q[k] = x BY DEF Members
<1>4. \A i \in 0 .. Len(q) : f[i] = Keep(q, S, f, i) BY <1>1
<1> DEFINE G == {n \in 0 .. Len(q) : /\ f[n] \in Seq(J) /\ Len(f[n]) =< n
                                     /\ k =< n => Len(f[n]) < n}
<1>5. 0 \in G
  <2>1. f[0] = << >> BY <1>2, <1>4 DEF Keep
  <2>2. << >> \in Seq(J) /\ Len(<< >>) = 0 OBVIOUS
  <2>3. 0 \in 0 .. Len(q) /\ ~(k =< 0) BY <1>2, <1>3
  <2>4. f[0] \in Seq(J) /\ Len(f[0]) =< 0 /\ (k =< 0 => Len(f[0]) < 0)
    BY <2>1, <2>2, <2>3
  <2> QED BY <2>3, <2>4
<1>6. ASSUME NEW n \in 1 .. Len(q), n - 1 \in G PROVE n \in G
  <2>1. /\ n \in 0 .. Len(q) /\ n # 0 /\ q[n] \in J /\ n - 1 \in Nat
        /\ f[n - 1] \in Seq(J) /\ Len(f[n - 1]) =< n - 1 /\ Len(f[n - 1]) \in Nat
        /\ k =< n - 1 => Len(f[n - 1]) < n - 1
    BY <1>2, <1>6
  <2>2. f[n] = IF q[n] \in S THEN f[n - 1] ELSE Append(f[n - 1], q[n])
    BY <2>1, <1>4 DEF Keep
  <2>3. CASE q[n] \in S
    BY <2>1, <2>2, <2>3, <1>3
  <2>4. CASE q[n] \notin S
    <3>1. /\ f[n] \in Seq(J) /\ Len(f[n]) = Len(f[n - 1]) + 1
      BY <2>1, <2>2, <2>4
    <3>2. k # n BY <1>3, <2>4
    <3> QED BY <2>1, <3>1, <3>2, <1>3
  <2> QED BY <2>3, <2>4
<1>7. G = 0 .. Len(q)
  <2>1. G \in SUBSET (0 .. Len(q))
    OBVIOUS
  <2> HIDE DEF G
  <2> QED BY <2>1, <1>2, <1>5, <1>6, UpToInduction
<1>8. Len(q) \in G /\ k =< Len(q) BY <1>2, <1>3, <1>7
<1> QED BY <1>1, <1>2, <1>8

\* Nobody leaves: the line stays.
LEMMA WithoutNobody ==
  ASSUME NEW J, NEW q \in Seq(J), NEW S, \A x \in Members(q) : x \notin S
  PROVE  Without(q, S) = q
<1>1. PICK f : /\ Without(q, S) = f[Len(q)]
               /\ f = [i \in 0 .. Len(q) |-> Keep(q, S, f, i)]
  BY WithoutUnfolds
<1>2. \A i \in 0 .. Len(q) : f[i] = Keep(q, S, f, i) BY <1>1
<1>3. Len(q) \in Nat /\ \A i \in 1 .. Len(q) : q[i] \in J
  OBVIOUS
<1> DEFINE G == {n \in 0 .. Len(q) : f[n] = SubSeq(q, 1, n)}
<1>4. 0 \in G
  <2>1. f[0] = << >> BY <1>2, <1>3 DEF Keep
  <2>2. SubSeq(q, 1, 0) = << >> BY SubSeqEmpty
  <2>3. 0 \in 0 .. Len(q) BY <1>3
  <2> QED BY <2>1, <2>2, <2>3
<1>5. ASSUME NEW n \in 1 .. Len(q), n - 1 \in G PROVE n \in G
  <2>1. q[n] \notin S BY DEF Members
  <2>2. n \in 0 .. Len(q) /\ n # 0 BY <1>3
  <2>3. f[n] = Append(SubSeq(q, 1, n - 1), q[n])
    BY <2>1, <2>2, <1>2, <1>5 DEF Keep
  <2>4. Append(SubSeq(q, 1, n - 1), q[n]) = SubSeq(q, 1, n)
    BY <1>3
  <2> QED BY <2>2, <2>3, <2>4
<1>6. G = 0 .. Len(q)
  <2>1. G \in SUBSET (0 .. Len(q))
    OBVIOUS
  <2> HIDE DEF G
  <2> QED BY <2>1, <1>3, <1>4, <1>5, UpToInduction
<1>7. f[Len(q)] = SubSeq(q, 1, Len(q)) BY <1>3, <1>6
<1> QED BY <1>1, <1>7

\* Those of S leave, and then those of T.
LEMMA WithoutTwice ==
  ASSUME NEW J, NEW q \in Seq(J), NEW S, NEW T
  PROVE  Without(Without(q, S), T) = Without(q, S \cup T)
<1>1. Len(q) \in Nat
  OBVIOUS
<1> DEFINE Equal(r) == Without(Without(r, S), T) = Without(r, S \cup T)
           G == {n \in 0 .. Len(q) : \A r \in Seq(J) : Len(r) = n => Equal(r)}
<1>2. 0 \in G
  <2> SUFFICES ASSUME NEW r \in Seq(J), Len(r) = 0
               PROVE  Equal(r)
    <3> HIDE DEF Equal
    <3> QED BY <1>1
  <2>1. r = << >> /\ \A x \in Members(r) : FALSE BY DEF Members
  <2>2. Without(r, S) = r /\ Without(r, T) = r /\ Without(r, S \cup T) = r
    BY <2>1, WithoutNobody
  <2> QED BY <2>2
<1>3. ASSUME NEW n \in 1 .. Len(q), n - 1 \in G PROVE n \in G
  <2> SUFFICES ASSUME NEW r \in Seq(J), Len(r) = n
               PROVE  Equal(r)
    <3> HIDE DEF Equal
    <3> QED BY <1>1
  <2> DEFINE t == Tail(r)
             x == Head(r)
  <2>1. r # << >> /\ t \in Seq(J) /\ Len(t) = n - 1 /\ x \in J
    BY <1>1
  <2>2. Without(Without(t, S), T) = Without(t, S \cup T) BY <2>1, <1>3
  <2>3. CASE x \in S
    BY <2>1, <2>2, <2>3, WithoutHead
  <2>4. CASE x \notin S
    <3> DEFINE w == Without(t, S)
    <3>1. Without(r, S) = <<x>> \o w BY <2>1, <2>4, WithoutHead
    <3>2. w \in Seq(J) BY <2>1, WithoutMembers
    <3> HIDE DEF w, t, x
    <3> DEFINE v == <<x>> \o w
    <3>3. v \in Seq(J) /\ v # << >> /\ Head(v) = x /\ Tail(v) = w
      BY <2>1, <3>2
    <3> HIDE DEF v
    <3>4. /\ x \in T => Without(v, T) = Without(w, T)
          /\ x \notin T => Without(v, T) = <<x>> \o Without(w, T)
      BY <3>3, WithoutHead
    <3>5. /\ x \in T => Without(r, S \cup T) = Without(t, S \cup T)
          /\ x \notin T => Without(r, S \cup T) = <<x>> \o Without(t, S \cup T)
      BY <2>1, <2>4, WithoutHead DEF t, x
    <3> QED BY <3>1, <3>4, <3>5, <2>2 DEF v, w
  <2> QED BY <2>3, <2>4
<1>4. G = 0 .. Len(q)
  <2>1. G \in SUBSET (0 .. Len(q))
    OBVIOUS
  <2> HIDE DEF G
  <2> QED BY <2>1, <1>1, <1>2, <1>3, UpToInduction
<1>5. Equal(q)
  <2> HIDE DEF Equal
  <2> QED BY <1>1, <1>4
<1> QED BY <1>5

\* The first of a line, the line, and another one behind it.
LEMMA FirstInARow ==
  ASSUME NEW J, NEW x \in J, NEW q \in Seq(J), NEW r \in Seq(J)
  PROVE  (<<x>> \o q) \o r = <<x>> \o (q \o r)
<1>1. <<x>> \in Seq(J)
  OBVIOUS
<1> DEFINE y == <<x>>
<1> HIDE DEF y
<1>2. (y \o q) \o r = y \o (q \o r) BY <1>1, ConcatAssociative DEF y
<1> QED BY <1>2 DEF y

\* Two lines, one behind the other.
LEMMA WithoutConcat ==
  ASSUME NEW J, NEW q \in Seq(J), NEW r \in Seq(J), NEW S
  PROVE  Without(q \o r, S) = Without(q, S) \o Without(r, S)
<1>1. Len(q) \in Nat /\ << >> \in Seq(J)
  OBVIOUS
<1> DEFINE Equal(p) == Without(p \o r, S) = Without(p, S) \o Without(r, S)
           G == {n \in 0 .. Len(q) : \A p \in Seq(J) : Len(p) = n => Equal(p)}
<1>2. 0 \in G
  <2> SUFFICES ASSUME NEW p \in Seq(J), Len(p) = 0
               PROVE  Equal(p)
    <3> HIDE DEF Equal
    <3> QED BY <1>1
  <2>1. p = << >> /\ \A x \in Members(p) : FALSE BY DEF Members
  <2>2. Without(p, S) = << >> BY <2>1, WithoutNobody
  <2>3. Without(r, S) \in Seq(J) BY WithoutMembers
  <2>4. p \o r = r /\ << >> \o Without(r, S) = Without(r, S)
    BY <2>1, <2>3, ConcatEmptySeq
  <2> QED BY <2>2, <2>4
<1>3. ASSUME NEW n \in 1 .. Len(q), n - 1 \in G PROVE n \in G
  <2> SUFFICES ASSUME NEW p \in Seq(J), Len(p) = n
               PROVE  Equal(p)
    <3> HIDE DEF Equal
    <3> QED BY <1>1
  <2> DEFINE t == Tail(p)
             x == Head(p)
  <2>1. p # << >> /\ t \in Seq(J) /\ Len(t) = n - 1 /\ x \in J
    BY <1>1
  <2>2. Without(t \o r, S) = Without(t, S) \o Without(r, S) BY <2>1, <1>3
  <2>3. p \o r \in Seq(J) /\ p \o r # << >> /\ Head(p \o r) = x /\ Tail(p \o r) = t \o r
    <3>1. Len(p) \in Nat /\ Len(p) > 0 /\ Len(r) \in Nat BY <2>1
    <3>2. p \o r \in Seq(J) /\ Len(p \o r) = Len(p) + Len(r) BY <3>1
    <3>3. p \o r # << >> /\ Head(p \o r) = x BY <3>1, <3>2
    <3>4. Tail(p \o r) = t \o r BY <3>1, <3>2, <3>3
    <3> QED BY <3>2, <3>3, <3>4
  <2>4. CASE x \in S
    <3>1. Without(p, S) = Without(t, S) BY <2>1, <2>4, WithoutHead
    <3>2. Without(p \o r, S) = Without(t \o r, S) BY <2>3, <2>4, WithoutHead
    <3> HIDE DEF t, x
    <3> QED BY <2>2, <3>1, <3>2
  <2>5. CASE x \notin S
    <3>1. Without(p, S) = <<x>> \o Without(t, S) BY <2>1, <2>5, WithoutHead
    <3>2. Without(p \o r, S) = <<x>> \o Without(t \o r, S) BY <2>3, <2>5, WithoutHead
    <3>4. Without(t, S) \in Seq(J) /\ Without(r, S) \in Seq(J)
      BY <2>1, WithoutMembers
    <3>6. (<<x>> \o Without(t, S)) \o Without(r, S)
            = <<x>> \o (Without(t, S) \o Without(r, S))
      <4> HIDE DEF t, x, G, Equal
      <4> QED BY <2>1, <3>4, FirstInARow
    <3> QED BY <2>2, <3>1, <3>2, <3>6
  <2> QED BY <2>4, <2>5
<1>4. G = 0 .. Len(q)
  <2>1. G \in SUBSET (0 .. Len(q))
    OBVIOUS
  <2> HIDE DEF G
  <2> QED BY <2>1, <1>1, <1>2, <1>3, UpToInduction
<1>5. Equal(q)
  <2> HIDE DEF Equal
  <2> QED BY <1>1, <1>4
<1> QED BY <1>5

\* All who stand before the first that stays leave.
LEMMA FirstThatStays ==
  ASSUME NEW J, NEW q \in Seq(J), NEW S, Without(q, S) # << >>
  PROVE  \E k \in 1 .. Len(q) :
           q[k] = Head(Without(q, S)) /\ \A i \in 1 .. k - 1 : q[i] \in S
<1>1. Len(q) \in Nat
  OBVIOUS
<1> DEFINE First(p) == Without(p, S) # << >> =>
                         \E k \in 1 .. Len(p) :
                           p[k] = Head(Without(p, S)) /\ \A i \in 1 .. k - 1 : p[i] \in S
           G == {n \in 0 .. Len(q) : \A p \in Seq(J) : Len(p) = n => First(p)}
<1>2. 0 \in G
  <2> SUFFICES ASSUME NEW p \in Seq(J), Len(p) = 0
               PROVE  First(p)
    <3> HIDE DEF First
    <3> QED BY <1>1
  <2>1. p = << >> /\ \A x \in Members(p) : FALSE BY DEF Members
  <2>2. Without(p, S) = << >> BY <2>1, WithoutNobody
  <2> QED BY <2>2
<1>3. ASSUME NEW n \in 1 .. Len(q), n - 1 \in G PROVE n \in G
  <2> SUFFICES ASSUME NEW p \in Seq(J), Len(p) = n, Without(p, S) # << >>
               PROVE  \E k \in 1 .. Len(p) :
                        p[k] = Head(Without(p, S)) /\ \A i \in 1 .. k - 1 : p[i] \in S
    <3>1. \A p \in Seq(J) : Len(p) = n => First(p)
      OBVIOUS
    <3> HIDE DEF First
    <3> QED BY <1>1, <3>1
  <2> DEFINE t == Tail(p)
             x == Head(p)
  <2>1. /\ p # << >> /\ t \in Seq(J) /\ Len(t) = n - 1 /\ x \in J /\ x = p[1]
        /\ \A i \in 1 .. n - 1 : t[i] = p[i + 1]
    BY <1>1
  <2>2. CASE x \in S
    <3>1. Without(p, S) = Without(t, S) BY <2>1, <2>2, WithoutHead
    <3>2. First(t)
      <4> HIDE DEF First, t
      <4> QED BY <2>1, <1>3
    <3>3. PICK k \in 1 .. Len(t) :
            t[k] = Head(Without(t, S)) /\ \A i \in 1 .. k - 1 : t[i] \in S
      BY <3>1, <3>2
    <3> HIDE DEF t, x
    <3>4. k + 1 \in 1 .. Len(p) /\ p[k + 1] = Head(Without(p, S))
      BY <1>1, <2>1, <3>1, <3>3
    <3>5. ASSUME NEW i \in 1 .. (k + 1) - 1 PROVE p[i] \in S
      <4>1. CASE i = 1 BY <2>1, <2>2, <4>1
      <4>2. CASE i # 1
        <5>1. i - 1 \in 1 .. k - 1 /\ i - 1 \in 1 .. n - 1 /\ (i - 1) + 1 = i
          BY <1>1, <2>1, <3>3, <4>2
        <5> QED BY <2>1, <3>3, <5>1
      <4> QED BY <4>1, <4>2
    <3> QED BY <3>4, <3>5
  <2>3. CASE x \notin S
    <3>1. Without(p, S) = <<x>> \o Without(t, S) BY <2>1, <2>3, WithoutHead
    <3>2. Without(t, S) \in Seq(J) BY <2>1, WithoutMembers
    <3> HIDE DEF t, x
    <3>3. Head(Without(p, S)) = x BY <2>1, <3>1, <3>2
    <3>4. 1 \in 1 .. Len(p) BY <1>1
    <3> QED BY <2>1, <3>3, <3>4
  <2> QED BY <2>2, <2>3
<1>4. G = 0 .. Len(q)
  <2>1. G \in SUBSET (0 .. Len(q))
    OBVIOUS
  <2> HIDE DEF G
  <2> QED BY <2>1, <1>1, <1>2, <1>3, UpToInduction
<1>5. First(q)
  <2> HIDE DEF First
  <2> QED BY <1>1, <1>4
<1> QED BY <1>5

=============================================================================
