------------------------ MODULE NMEAAssemblyProofs ------------------------
(***************************************************************************)
(* Theorems about NMEAAssembly for any messages, any length of the queue   *)
(* and any time that parts may wait: it implements Reassembly, and it      *)
(* sends every message that nothing disturbs, damaged if it is.            *)
(***************************************************************************)
EXTENDS NMEAAssembly, SequenceTheorems, WellFoundedInduction, TLAPS

LEMMA LeastElement ==
  ASSUME NEW T \in SUBSET Nat, T # {}
  PROVE  \E x \in T : \A y \in T : x =< y
<1> DEFINE R == {e \in Nat \X Nat : e[1] < e[2]}
<1>1. IsWellFoundedOn(R, Nat)
  BY NatLessThanWellFounded DEF OpToRel
<1>2. \A x, y \in Nat : y < x => <<y, x>> \in R
  OBVIOUS
<1> HIDE DEF R
<1>3. PICK x \in T : \A y \in T : <<y, x>> \notin R
  BY <1>1, WFMin, Zenon
<1>4. \A y \in T : ~(y < x)
  BY <1>2, <1>3
<1> QED
  BY <1>3, <1>4

LEMMA InductionOnNat ==
  ASSUME NEW S, 0 \in S, \A n \in Nat : n \in S => n + 1 \in S
  PROVE  Nat \subseteq S
<1> SUFFICES ASSUME ~(Nat \subseteq S)
             PROVE  FALSE
  OBVIOUS
<1>1. PICK x \in Nat \ S : \A y \in Nat \ S : x =< y
  BY LeastElement
<1>2. x - 1 \in Nat
  BY <1>1
<1>3. x - 1 \in S
  BY <1>1, <1>2
<1> QED
  BY <1>1, <1>2, <1>3

-----------------------------------------------------------------------------
(* What Selected() returns.                                                *)

(* The first n steps of the recursion.                                     *)
Upto(f, n, q, S) ==
  f = [m \in 0 .. n |->
         IF m = 0 THEN <<>>
         ELSE IF m \in S THEN Append(f[m - 1], q[m]) ELSE f[m - 1]]

LEMMA UptoExists ==
  ASSUME NEW X, NEW q \in Seq(X), NEW S
  PROVE  \E f : Upto(f, Len(q), q, S) /\ f \in [0 .. Len(q) -> Seq(X)]
<1> DEFINE Can == {n \in Nat : n =< Len(q) =>
                     \E f : Upto(f, n, q, S) /\ f \in [0 .. n -> Seq(X)]}
<1>0. Len(q) \in Nat
  OBVIOUS
<1>1. 0 \in Can
  <2> DEFINE f == [m \in 0 .. 0 |-> <<>>]
  <2>1. f \in [0 .. 0 -> Seq(X)]
    OBVIOUS
  <2>2. Upto(f, 0, q, S)
    BY DEF Upto
  <2> QED
    BY <2>1, <2>2
<1>2. ASSUME NEW n \in Nat, n \in Can
      PROVE  n + 1 \in Can
  <2> SUFFICES ASSUME n + 1 =< Len(q)
               PROVE  \E f : Upto(f, n + 1, q, S) /\ f \in [0 .. n + 1 -> Seq(X)]
    OBVIOUS
  <2>1. PICK f : Upto(f, n, q, S) /\ f \in [0 .. n -> Seq(X)]
    BY <1>0, <1>2
  <2>2. q[n + 1] \in X
    BY <1>0
  <2> DEFINE new == IF n + 1 \in S THEN Append(f[n], q[n + 1]) ELSE f[n]
             g == [m \in 0 .. n + 1 |-> IF m = n + 1 THEN new ELSE f[m]]
  <2>3. f[n] \in Seq(X)
    BY <2>1
  <2>4. new \in Seq(X)
    BY <2>2, <2>3
  <2>5. \A m \in 0 .. n : f[m] = IF m = 0 THEN <<>>
                                 ELSE IF m \in S THEN Append(f[m - 1], q[m]) ELSE f[m - 1]
    BY <2>1 DEF Upto
  <2> HIDE DEF new
  <2>6. g \in [0 .. n + 1 -> Seq(X)]
    BY <2>1, <2>4
  <2>7. \A m \in 0 .. n : g[m] = f[m]
    OBVIOUS
  <2>8. \A m \in 0 .. n + 1 : m # 0 => m - 1 \in 0 .. n
    OBVIOUS
  <2>9. \A m \in 0 .. n + 1 : g[m] = IF m = 0 THEN <<>>
                                     ELSE IF m \in S THEN Append(g[m - 1], q[m]) ELSE g[m - 1]
    <3> SUFFICES ASSUME NEW m \in 0 .. n + 1
                 PROVE  g[m] = IF m = 0 THEN <<>>
                               ELSE IF m \in S THEN Append(g[m - 1], q[m]) ELSE g[m - 1]
      OBVIOUS
    <3>1. CASE m = n + 1
      <4>1. g[m] = new /\ g[m - 1] = f[n] /\ m # 0
        BY <3>1
      <4> QED
        BY <3>1, <4>1 DEF new
    <3>2. CASE m # n + 1
      <4>1. m \in 0 .. n /\ (m # 0 => m - 1 \in 0 .. n)
        BY <3>2
      <4> QED
        BY <2>5, <2>7, <4>1
    <3> QED
      BY <3>1, <3>2
  <2>10. Upto(g, n + 1, q, S)
    BY <2>9 DEF Upto
  <2> QED
    BY <2>6, <2>10
<1> HIDE DEF Can
<1>3. Nat \subseteq Can
  BY <1>1, <1>2, InductionOnNat
<1> QED
  BY <1>0, <1>3 DEF Can
(* r is what q has at the first n of its positions that are in S: at[i] is *)
(* where r's element i comes from.                                         *)
Chosen(r, n, q, S, at) ==
  /\ at \in [1 .. Len(r) -> 1 .. n]
  /\ \A i \in 1 .. Len(r) : at[i] \in S /\ r[i] = q[at[i]]
  /\ \A i, j \in 1 .. Len(r) : i =< j => at[j] - at[i] >= j - i
  /\ \A p \in 1 .. n : p \in S => \E i \in 1 .. Len(r) : at[i] = p

LEMMA ChosenMore ==
  ASSUME NEW X, NEW q \in Seq(X), NEW S, NEW n \in Nat, n + 1 =< Len(q), NEW r \in Seq(X),
         NEW at, Chosen(r, n, q, S, at)
  PROVE  \E u : Chosen(IF n + 1 \in S THEN Append(r, q[n + 1]) ELSE r, n + 1, q, S, u)
<1>0. Len(r) \in Nat /\ Len(q) \in Nat /\ q[n + 1] \in X
  OBVIOUS
<1>1. /\ at \in [1 .. Len(r) -> 1 .. n]
      /\ \A i \in 1 .. Len(r) : at[i] \in S /\ r[i] = q[at[i]]
      /\ \A i, j \in 1 .. Len(r) : i =< j => at[j] - at[i] >= j - i
      /\ \A p \in 1 .. n : p \in S => \E i \in 1 .. Len(r) : at[i] = p
  BY DEF Chosen
<1>2. CASE n + 1 \notin S
  <2>1. at \in [1 .. Len(r) -> 1 .. (n + 1)]
    BY <1>0, <1>1
  <2>2. \A p \in 1 .. (n + 1) : p \in S => \E i \in 1 .. Len(r) : at[i] = p
    BY <1>1, <1>2
  <2>3. Chosen(r, n + 1, q, S, at)
    BY <1>1, <2>1, <2>2 DEF Chosen
  <2> QED
    BY <1>2, <2>3
<1>3. CASE n + 1 \in S
  <2> DEFINE m == Len(r)
             t == Append(r, q[n + 1])
             u == [i \in 1 .. (m + 1) |-> IF i = m + 1 THEN n + 1 ELSE at[i]]
  <2>1. Len(t) = m + 1 /\ t[m + 1] = q[n + 1] /\ \A i \in 1 .. m : t[i] = r[i]
    BY <1>0
  <2>2. u[m + 1] = n + 1 /\ \A i \in 1 .. m : u[i] = at[i] /\ at[i] \in 1 .. n
    BY <1>0, <1>1
  <2>3. \A i \in 1 .. (m + 1) : i # m + 1 => i \in 1 .. m
    BY <1>0
  <2> HIDE DEF t
  <2>4. u \in [1 .. (m + 1) -> 1 .. (n + 1)]
    BY <1>0, <1>1, <2>3
  <2> HIDE DEF u
  <2>5. \A i \in 1 .. (m + 1) : u[i] \in S /\ t[i] = q[u[i]]
    BY <1>1, <1>3, <2>1, <2>2, <2>3
  <2>6. ASSUME NEW i \in 1 .. (m + 1), NEW j \in 1 .. (m + 1), i =< j
        PROVE  u[j] - u[i] >= j - i
    <3>1. CASE j # m + 1
      <4>1. j \in 1 .. m /\ i \in 1 .. m
        BY <1>0, <2>6, <3>1
      <4> QED
        BY <1>1, <2>2, <2>6, <4>1
    <3>2. CASE j = m + 1 /\ i = m + 1
      BY <1>0, <2>2, <3>2
    <3>3. CASE j = m + 1 /\ i # m + 1
      <4>1. i \in 1 .. m /\ m \in 1 .. m /\ i =< m
        BY <1>0, <2>6, <3>3
      <4>2. at[m] - at[i] >= m - i
        BY <1>1, <4>1
      <4>3. at[m] \in 1 .. n /\ at[i] \in 1 .. n /\ u[i] = at[i]
        BY <2>2, <4>1
      <4> QED
        BY <1>0, <2>2, <3>3, <4>2, <4>3
    <3> QED
      BY <3>1, <3>2, <3>3
  <2>7. ASSUME NEW p \in 1 .. (n + 1), p \in S
        PROVE  \E i \in 1 .. (m + 1) : u[i] = p
    <3>1. CASE p = n + 1
      <4>1. m + 1 \in 1 .. (m + 1)
        BY <1>0
      <4> QED
        BY <2>2, <3>1, <4>1
    <3>2. CASE p # n + 1
      <4>1. PICK i \in 1 .. m : at[i] = p
        BY <1>1, <2>7, <3>2
      <4>2. i \in 1 .. (m + 1) /\ u[i] = p
        BY <1>0, <2>2, <4>1
      <4> QED
        BY <4>2
    <3> QED
      BY <3>1, <3>2
  <2>8. Chosen(t, n + 1, q, S, u)
    BY <2>1, <2>4, <2>5, <2>6, <2>7 DEF Chosen
  <2> QED
    BY <1>3, <2>8 DEF t
<1> QED
  BY <1>2, <1>3

LEMMA Selection ==
  ASSUME NEW X, NEW q \in Seq(X), NEW S
  PROVE  /\ Selected(q, S) \in Seq(X)
         /\ \E at : Chosen(Selected(q, S), Len(q), q, S, at)
<1> DEFINE f == CHOOSE g : Upto(g, Len(q), q, S)
<1>0. Len(q) \in Nat
  OBVIOUS
<1>1. \E g : Upto(g, Len(q), q, S)
  BY UptoExists, Zenon
<1>2. Upto(f, Len(q), q, S)
  BY <1>1
<1>3. Selected(q, S) = f[Len(q)]
  BY DEF Selected, Upto
<1> HIDE DEF f
<1>4. \A m \in 0 .. Len(q) : f[m] = IF m = 0 THEN <<>>
                                    ELSE IF m \in S THEN Append(f[m - 1], q[m]) ELSE f[m - 1]
  BY <1>2 DEF Upto
<1> DEFINE Good == {n \in Nat : n =< Len(q) =>
                      f[n] \in Seq(X) /\ \E at : Chosen(f[n], n, q, S, at)}
<1>5. 0 \in Good
  <2>1. f[0] = <<>>
    BY <1>0, <1>4
  <2> DEFINE at == [i \in 1 .. 0 |-> 0]
  <2>2. Len(<<>>) = 0 /\ <<>> \in Seq(X)
    OBVIOUS
  <2>3. Chosen(<<>>, 0, q, S, at)
    BY <2>2 DEF Chosen
  <2> QED
    BY <2>1, <2>2, <2>3
<1>6. ASSUME NEW n \in Nat, n \in Good
      PROVE  n + 1 \in Good
  <2> SUFFICES ASSUME n + 1 =< Len(q)
               PROVE  f[n + 1] \in Seq(X) /\ \E at : Chosen(f[n + 1], n + 1, q, S, at)
    OBVIOUS
  <2>1. n + 1 \in 0 .. Len(q) /\ n + 1 # 0 /\ (n + 1) - 1 = n /\ q[n + 1] \in X
    BY <1>0
  <2>2. f[n + 1] = IF n + 1 \in S THEN Append(f[n], q[n + 1]) ELSE f[n]
    BY <1>4, <2>1
  <2>3. f[n] \in Seq(X)
    BY <1>0, <1>6
  <2>4. PICK at : Chosen(f[n], n, q, S, at)
    BY <1>0, <1>6
  <2>5. f[n + 1] \in Seq(X)
    BY <2>1, <2>2, <2>3
  <2>6. \E u : Chosen(IF n + 1 \in S THEN Append(f[n], q[n + 1]) ELSE f[n], n + 1, q, S, u)
    BY <2>3, <2>4, ChosenMore
  <2> QED
    BY <2>2, <2>5, <2>6
<1> HIDE DEF Good
<1>7. Nat \subseteq Good
  BY <1>5, <1>6, InductionOnNat
<1> QED
  BY <1>0, <1>3, <1>7 DEF Good

-----------------------------------------------------------------------------
(* The sentences.                                                          *)

LEMMA PartIs ==
  ASSUME NEW e
  PROVE  e \in Parts <=>
           \E m \in Names : \E h \in {Message[m], Ungrouped(m)} :
             \E n \in 1 .. MaxNumber, bad \in BOOLEAN, age \in 0 .. MaxAge + 1 :
               e = Part(h, m, n, bad, age)
BY DEF Parts

LEMMA HeaderCount ==
  ASSUME NEW m \in Names, NEW h \in {Message[m], Ungrouped(m)}
  PROVE  h.count = Message[m].count /\ h.count \in 2 .. MaxQueue
<1>1. /\ DOMAIN Message[m] = {"talker", "channel", "group", "id", "count"}
      /\ Message[m].count \in 2 .. MaxNumber /\ MaxNumber \in 2 .. MaxQueue /\ MaxQueue \in Nat
  BY Headers DEF Names
<1> QED
  BY <1>1 DEF Ungrouped

LEMMA PartFacts ==
  ASSUME NEW e \in Parts
  PROVE  /\ e.msg \in Names /\ e.count = Message[e.msg].count
         /\ e.count \in Nat /\ e.count >= 2 /\ e.count =< MaxQueue
         /\ e.number \in 1 .. MaxNumber /\ e.number \in Nat
         /\ e.age \in Nat /\ e.age =< MaxAge + 1 /\ e.message_error \in BOOLEAN
         /\ MaxQueue \in Nat /\ MaxAge \in Nat
<1>0. MaxQueue \in Nat /\ MaxAge \in Nat
  BY Headers
<1>a. PICK m \in Names : \E h \in {Message[m], Ungrouped(m)} :
        \E n \in 1 .. MaxNumber, bad \in BOOLEAN, age \in 0 .. MaxAge + 1 :
          e = Part(h, m, n, bad, age)
  BY PartIs, Zenon
<1>1. PICK h \in {Message[m], Ungrouped(m)} :
        \E n \in 1 .. MaxNumber, bad \in BOOLEAN, age \in 0 .. MaxAge + 1 :
          e = Part(h, m, n, bad, age)
  BY <1>a, Zenon
<1>2. h.count = Message[m].count /\ h.count \in 2 .. MaxQueue
  BY <1>1, HeaderCount
<1> QED
  BY <1>0, <1>1, <1>2 DEF Part

LEMMA AIVDMIsPart ==
  ASSUME NEW m \in Names, NEW h \in {Message[m], Ungrouped(m)},
         NEW n \in 1 .. MaxNumber, NEW bad \in BOOLEAN
  PROVE  /\ AIVDM(h, m, n, bad) \in Parts
         /\ AIVDM(h, m, n, bad).age = 0 /\ AIVDM(h, m, n, bad).msg = m
         /\ AIVDM(h, m, n, bad).number = n /\ AIVDM(h, m, n, bad).count = Message[m].count
         /\ AIVDM(h, m, n, bad).message_error = bad
<1>1. AIVDM(h, m, n, bad) = Part(h, m, n, bad, 0)
  BY DEF AIVDM, Part
<1>2. 0 \in 0 .. MaxAge + 1
  BY Headers
<1>3. h.count = Message[m].count
  BY HeaderCount
<1> QED
  BY <1>1, <1>2, <1>3, PartIs DEF Part

(* A part that gets older is still one, and all else of it stays.          *)
LEMMA OlderPart ==
  ASSUME NEW e \in Parts, NEW x \in 0 .. MaxAge + 1
  PROVE  LET f == [e EXCEPT !.age = x]
         IN  /\ f \in Parts /\ f.age = x
             /\ f.key = e.key /\ f.number = e.number /\ f.count = e.count /\ f.msg = e.msg
             /\ f.message_error = e.message_error /\ Bare(f) = Bare(e)
<1>a. PICK m \in Names : \E h \in {Message[m], Ungrouped(m)} :
        \E n \in 1 .. MaxNumber, bad \in BOOLEAN, age \in 0 .. MaxAge + 1 :
          e = Part(h, m, n, bad, age)
  BY PartIs, Zenon
<1>b. PICK h \in {Message[m], Ungrouped(m)} :
        \E n \in 1 .. MaxNumber, bad \in BOOLEAN, age \in 0 .. MaxAge + 1 :
          e = Part(h, m, n, bad, age)
  BY <1>a, Zenon
<1>1. PICK n \in 1 .. MaxNumber, bad \in BOOLEAN, age \in 0 .. MaxAge + 1 :
        e = Part(h, m, n, bad, age)
  BY <1>b, Zenon
<1>2. [e EXCEPT !.age = x] = Part(h, m, n, bad, x)
  BY <1>1 DEF Part
<1>3. Part(h, m, n, bad, x) \in Parts
  BY <1>1, PartIs, Zenon
<1> QED
  BY <1>1, <1>2, <1>3 DEF Part, Bare

-----------------------------------------------------------------------------
(* The queue: sentences stand in the order of their arrival; those of one  *)
(* key have increasing numbers without a gap.                              *)

OldestFirst(q) == \A i, j \in DOMAIN q : i < j => q[i].age >= q[j].age

Increasing(q) == \A i, j \in DOMAIN q : i < j /\ q[i].key = q[j].key => q[i].number < q[j].number

Gapless(q) ==
  \A i, j \in DOMAIN q : q[i].key = q[j].key =>
    \A n \in q[i].number .. q[j].number :
      \E p \in DOMAIN q : q[p].key = q[i].key /\ q[p].number = n

Sound(q) == q \in Seq(Parts) /\ OldestFirst(q) /\ Increasing(q) /\ Gapless(q)

(* With a sentence, the younger ones of its key stay.                      *)
KeepsLater(q, S) == \A i, p \in DOMAIN q : i \in S /\ i < p /\ q[i].key = q[p].key => p \in S

LEMMA ChosenAt ==
  ASSUME NEW q \in Seq(Parts), NEW r \in Seq(Parts), NEW S, NEW at,
         Chosen(r, Len(q), q, S, at)
  PROVE  /\ DOMAIN r = 1 .. Len(r) /\ DOMAIN q = 1 .. Len(q)
         /\ Len(r) \in Nat /\ Len(q) \in Nat /\ Len(r) =< Len(q)
         /\ \A i \in DOMAIN r : at[i] \in DOMAIN q /\ at[i] \in S /\ r[i] = q[at[i]]
         /\ \A i, j \in DOMAIN r : i < j => at[i] < at[j]
         /\ \A i, j \in DOMAIN r : at[i] < at[j] => i < j
         /\ \A i, j \in DOMAIN r : at[i] = at[j] => i = j
         /\ \A i, j \in DOMAIN r : i =< j => at[j] - at[i] >= j - i
         /\ \A i \in DOMAIN r : Len(q) - at[i] >= Len(r) - i
         /\ \A p \in DOMAIN q : p \in S => \E i \in DOMAIN r : at[i] = p
<1>1. DOMAIN r = 1 .. Len(r) /\ DOMAIN q = 1 .. Len(q) /\ Len(r) \in Nat /\ Len(q) \in Nat
  OBVIOUS
<1>2. /\ at \in [1 .. Len(r) -> 1 .. Len(q)]
      /\ \A i \in 1 .. Len(r) : at[i] \in S /\ r[i] = q[at[i]]
      /\ \A i, j \in 1 .. Len(r) : i =< j => at[j] - at[i] >= j - i
      /\ \A p \in 1 .. Len(q) : p \in S => \E i \in 1 .. Len(r) : at[i] = p
  BY DEF Chosen
<1>3. \A i \in 1 .. Len(r) : at[i] \in 1 .. Len(q) /\ at[i] \in Int
  BY <1>2
<1>4. \A i, j \in 1 .. Len(r) : i < j => at[i] < at[j]
  BY <1>1, <1>2, <1>3
<1>5. \A i, j \in 1 .. Len(r) : i < j \/ j < i \/ i = j
  BY <1>1
<1>6. \A i, j \in 1 .. Len(r) : (at[i] < at[j] => i < j) /\ (at[i] = at[j] => i = j)
  BY <1>3, <1>4, <1>5
<1>7. \A i \in 1 .. Len(r) : Len(q) - at[i] >= Len(r) - i
  <2> SUFFICES ASSUME NEW i \in 1 .. Len(r)
               PROVE  Len(q) - at[i] >= Len(r) - i
    OBVIOUS
  <2>1. Len(r) \in 1 .. Len(r) /\ i =< Len(r)
    BY <1>1
  <2>2. at[Len(r)] - at[i] >= Len(r) - i
    BY <1>2, <2>1
  <2>3. at[Len(r)] =< Len(q) /\ at[Len(r)] \in Int /\ at[i] \in Int
    BY <1>1, <1>3, <2>1
  <2> QED
    BY <1>1, <2>2, <2>3
<1>8. Len(r) =< Len(q)
  <2>1. CASE Len(r) = 0
    BY <1>1, <2>1
  <2>2. CASE Len(r) # 0
    <3>1. 1 \in 1 .. Len(r)
      BY <1>1, <2>2
    <3> QED
      BY <1>1, <1>3, <1>7, <3>1
  <2> QED
    BY <2>1, <2>2
<1> QED
  BY <1>1, <1>2, <1>3, <1>4, <1>6, <1>7, <1>8

LEMMA KeptSound ==
  ASSUME NEW q \in Seq(Parts), NEW r \in Seq(Parts), NEW S, NEW at,
         Chosen(r, Len(q), q, S, at), Sound(q), KeepsLater(q, S)
  PROVE  Sound(r)
<1>0. /\ \A i \in DOMAIN r : at[i] \in DOMAIN q /\ at[i] \in S /\ r[i] = q[at[i]]
      /\ \A i, j \in DOMAIN r : i < j => at[i] < at[j]
      /\ \A i, j \in DOMAIN r : at[i] < at[j] => i < j
      /\ \A p \in DOMAIN q : p \in S => \E i \in DOMAIN r : at[i] = p
      /\ DOMAIN q = 1 .. Len(q) /\ Len(q) \in Nat
  BY ChosenAt
<1>1. OldestFirst(r)
  <2> SUFFICES ASSUME NEW i \in DOMAIN r, NEW j \in DOMAIN r, i < j
               PROVE  r[i].age >= r[j].age
    BY DEF OldestFirst
  <2>1. at[i] \in DOMAIN q /\ at[j] \in DOMAIN q /\ at[i] < at[j] /\ r[i] = q[at[i]] /\ r[j] = q[at[j]]
    BY <1>0
  <2> QED
    BY <2>1 DEF Sound, OldestFirst
<1>2. Increasing(r)
  <2> SUFFICES ASSUME NEW i \in DOMAIN r, NEW j \in DOMAIN r, i < j, r[i].key = r[j].key
               PROVE  r[i].number < r[j].number
    BY DEF Increasing
  <2>1. at[i] \in DOMAIN q /\ at[j] \in DOMAIN q /\ at[i] < at[j] /\ r[i] = q[at[i]] /\ r[j] = q[at[j]]
    BY <1>0
  <2> QED
    BY <2>1 DEF Sound, Increasing
<1>3. Gapless(r)
  <2> SUFFICES ASSUME NEW i \in DOMAIN r, NEW j \in DOMAIN r, r[i].key = r[j].key,
                      NEW n \in r[i].number .. r[j].number
               PROVE  \E p \in DOMAIN r : r[p].key = r[i].key /\ r[p].number = n
    BY DEF Gapless
  <2>1. at[i] \in DOMAIN q /\ at[j] \in DOMAIN q /\ r[i] = q[at[i]] /\ r[j] = q[at[j]] /\ at[i] \in S
    BY <1>0
  <2>2. PICK p \in DOMAIN q : q[p].key = r[i].key /\ q[p].number = n
    BY <2>1 DEF Sound, Gapless
  <2>3. p \in S
    <3>1. CASE p = at[i]
      BY <2>1, <3>1
    <3>2. CASE at[i] < p
      BY <2>1, <2>2, <3>2 DEF KeepsLater
    <3>3. CASE p < at[i]
      <4>1. q[p].number < q[at[i]].number
        BY <2>1, <2>2, <3>3 DEF Sound, Increasing
      <4>2. q[at[i]] \in Parts /\ q[p] \in Parts
        BY <2>1
      <4>3. q[at[i]].number \in Nat /\ q[p].number \in Nat
        BY <4>2, PartFacts
      <4> QED
        BY <2>1, <2>2, <4>1, <4>3
    <3> QED
      BY <1>0, <2>1, <3>1, <3>2, <3>3
  <2>4. PICK x \in DOMAIN r : at[x] = p
    BY <1>0, <2>3
  <2> QED
    BY <1>0, <2>2, <2>4
<1> QED
  BY <1>1, <1>2, <1>3 DEF Sound

(* A sentence that continues its key, or is its first one in the queue.    *)
Continues(q, a) ==
  /\ a \in Parts /\ a.age = 0
  /\ \A i \in DOMAIN q : q[i].key = a.key =>
       q[i].number < a.number
       /\ \E p \in DOMAIN q : q[p].key = a.key /\ q[p].number = a.number - 1

LEMMA AppendSound ==
  ASSUME NEW q, Sound(q), NEW a, Continues(q, a)
  PROVE  Sound(Append(q, a))
<1> DEFINE r == Append(q, a)
<1>0. q \in Seq(Parts) /\ a \in Parts /\ Len(q) \in Nat /\ DOMAIN q = 1 .. Len(q)
  BY DEF Sound, Continues
<1>1. /\ r \in Seq(Parts) /\ DOMAIN r = 1 .. (Len(q) + 1)
      /\ r[Len(q) + 1] = a /\ \A i \in DOMAIN q : r[i] = q[i]
  BY <1>0
<1> HIDE DEF r
<1>2. \A i \in DOMAIN r : i = Len(q) + 1 \/ i \in DOMAIN q
  BY <1>0, <1>1
<1>3. \A i \in DOMAIN q : i \in DOMAIN r /\ i < Len(q) + 1 /\ i \in Nat
  BY <1>0, <1>1
<1>4. \A i \in DOMAIN q : q[i].age \in Nat /\ q[i].number \in Nat
  <2> TAKE i \in DOMAIN q
  <2>1. q[i] \in Parts
    BY <1>0
  <2> QED
    BY <2>1, PartFacts
<1>5. a.number \in Nat /\ a.age = 0 /\ a.number >= 1
  BY PartFacts DEF Continues
<1>6. OldestFirst(r)
  <2> SUFFICES ASSUME NEW i \in DOMAIN r, NEW j \in DOMAIN r, i < j
               PROVE  r[i].age >= r[j].age
    BY DEF OldestFirst
  <2>1. i \in DOMAIN q
    BY <1>0, <1>1
  <2>2. CASE j = Len(q) + 1
    BY <1>1, <1>4, <1>5, <2>1, <2>2
  <2>3. CASE j \in DOMAIN q
    BY <1>1, <2>1, <2>3 DEF Sound, OldestFirst
  <2> QED
    BY <1>2, <2>2, <2>3
<1>7. Increasing(r)
  <2> SUFFICES ASSUME NEW i \in DOMAIN r, NEW j \in DOMAIN r, i < j, r[i].key = r[j].key
               PROVE  r[i].number < r[j].number
    BY DEF Increasing
  <2>1. i \in DOMAIN q
    BY <1>0, <1>1
  <2>2. CASE j = Len(q) + 1
    BY <1>1, <2>1, <2>2 DEF Continues
  <2>3. CASE j \in DOMAIN q
    BY <1>1, <2>1, <2>3 DEF Sound, Increasing
  <2> QED
    BY <1>2, <2>2, <2>3
<1>8. Gapless(r)
  <2> SUFFICES ASSUME NEW i \in DOMAIN r, NEW j \in DOMAIN r, r[i].key = r[j].key,
                      NEW n \in r[i].number .. r[j].number
               PROVE  \E p \in DOMAIN r : r[p].key = r[i].key /\ r[p].number = n
    BY DEF Gapless
  <2>1. CASE i \in DOMAIN q /\ j \in DOMAIN q
    <3>1. PICK p \in DOMAIN q : q[p].key = q[i].key /\ q[p].number = n
      BY <1>1, <2>1 DEF Sound, Gapless
    <3> QED
      BY <1>1, <1>3, <2>1, <3>1
  <2>2. CASE i \in DOMAIN q /\ j = Len(q) + 1
    <3>1. /\ q[i].key = a.key /\ n \in q[i].number .. a.number
      BY <1>1, <2>2
    <3>2. CASE n = a.number
      BY <1>1, <2>2, <3>1, <3>2
    <3>3. CASE n # a.number
      <4>1. PICK p \in DOMAIN q : q[p].key = a.key /\ q[p].number = a.number - 1
        BY <2>2, <3>1 DEF Continues
      <4>2. n \in q[i].number .. q[p].number
        BY <1>4, <1>5, <2>2, <3>1, <3>3, <4>1
      <4>3. PICK x \in DOMAIN q : q[x].key = q[i].key /\ q[x].number = n
        BY <2>2, <3>1, <4>1, <4>2 DEF Sound, Gapless
      <4> QED
        BY <1>1, <1>3, <2>2, <4>3
    <3> QED
      BY <3>2, <3>3
  <2>3. CASE i = Len(q) + 1 /\ j = Len(q) + 1
    <3>1. n = a.number
      BY <1>1, <1>5, <2>3
    <3> QED
      BY <1>1, <2>3, <3>1
  <2>4. CASE i = Len(q) + 1 /\ j \in DOMAIN q
    <3>1. q[j].key = a.key /\ q[j].number < a.number
      BY <1>1, <2>4 DEF Continues
    <3> QED
      BY <1>1, <1>4, <1>5, <2>4, <3>1
  <2> QED
    BY <1>2, <2>1, <2>2, <2>3, <2>4
<1> QED
  BY <1>1, <1>6, <1>7, <1>8 DEF Sound, r

(* What the queue has of one key: consecutive numbers.                     *)
LEMMA OfKey ==
  ASSUME NEW q, Sound(q), NEW k, NEW r, r = Selected(q, Positions(q, k))
  PROVE  /\ r \in Seq(Parts)
         /\ \A i \in DOMAIN r : r[i] \in Parts /\ r[i].key = k
                                /\ \E p \in DOMAIN q : r[i] = q[p]
         /\ \A i \in DOMAIN r : r[i].number = r[1].number + (i - 1)
         /\ \A p \in DOMAIN q : q[p].key = k => \E i \in DOMAIN r : r[i] = q[p]
<1> DEFINE S == Positions(q, k)
<1>0. q \in Seq(Parts)
  BY DEF Sound
<1>1. r \in Seq(Parts) /\ \E at : Chosen(r, Len(q), q, S, at)
  BY <1>0, Selection
<1>2. PICK at : Chosen(r, Len(q), q, S, at)
  BY <1>1
<1>3. /\ \A i \in DOMAIN r : at[i] \in DOMAIN q /\ at[i] \in S /\ r[i] = q[at[i]]
      /\ \A p \in DOMAIN q : p \in S => \E i \in DOMAIN r : at[i] = p
  BY <1>0, <1>1, <1>2, ChosenAt
<1>4. KeepsLater(q, S)
  BY DEF KeepsLater, Positions
<1>5. Sound(r)
  BY <1>0, <1>1, <1>2, <1>4, KeptSound
<1>6. \A i \in DOMAIN r : r[i] \in Parts /\ r[i].key = k /\ \E p \in DOMAIN q : r[i] = q[p]
  <2> TAKE i \in DOMAIN r
  <2>1. at[i] \in DOMAIN q /\ q[at[i]].key = k /\ r[i] = q[at[i]]
    BY <1>3 DEF Positions
  <2>2. r[i] \in Parts
    BY <1>1
  <2> QED
    BY <2>1, <2>2
<1>7. \A p \in DOMAIN q : q[p].key = k => \E i \in DOMAIN r : r[i] = q[p]
  BY <1>3 DEF Positions
<1>8. DOMAIN r = 1 .. Len(r) /\ Len(r) \in Nat
  BY <1>1
<1>9. \A i \in DOMAIN r : r[i].number \in Nat
  BY <1>6, PartFacts
<1> DEFINE T == {n \in Nat : n + 1 \in DOMAIN r => r[n + 1].number = r[1].number + n}
<1>10. 0 \in T
  BY <1>8, <1>9
<1>11. ASSUME NEW n \in Nat, n \in T
       PROVE  n + 1 \in T
  <2> SUFFICES ASSUME n + 2 \in DOMAIN r
               PROVE  r[n + 2].number = r[1].number + (n + 1)
    BY DEF T
  <2>1. n + 1 \in DOMAIN r /\ 1 \in DOMAIN r /\ n + 1 < n + 2
    BY <1>8
  <2>2. r[n + 1].number = r[1].number + n
    BY <1>11, <2>1 DEF T
  <2>3. r[n + 1].number < r[n + 2].number
    BY <1>5, <1>6, <2>1 DEF Sound, Increasing
  <2> DEFINE x == r[n + 1].number + 1
  <2>4. x \in r[n + 1].number .. r[n + 2].number
    BY <1>9, <2>1, <2>3
  <2>5. PICK p \in DOMAIN r : r[p].number = x
    <3>1. r[n + 1].key = r[n + 2].key /\ n + 2 \in DOMAIN r
      BY <1>6, <2>1
    <3>2. Gapless(r)
      BY <1>5 DEF Sound
    <3> HIDE DEF x
    <3> QED
      BY <2>1, <2>4, <3>1, <3>2 DEF Gapless
  <2>6. ~(p < n + 1)
    <3> SUFFICES ASSUME p < n + 1 PROVE FALSE
      OBVIOUS
    <3>1. r[p].number < r[n + 1].number
      BY <1>5, <1>6, <2>1, <2>5 DEF Sound, Increasing
    <3> QED
      BY <1>9, <2>1, <2>5, <3>1
  <2>7. p # n + 1
    BY <1>9, <2>1, <2>5
  <2>8. ~(n + 2 < p)
    <3> SUFFICES ASSUME n + 2 < p PROVE FALSE
      OBVIOUS
    <3>1. r[n + 2].number < r[p].number
      BY <1>5, <1>6, <2>1, <2>5 DEF Sound, Increasing
    <3> QED
      BY <1>9, <2>1, <2>3, <2>5, <3>1
  <2>9. p = n + 2
    BY <1>8, <2>5, <2>6, <2>7, <2>8
  <2> QED
    BY <1>9, <2>1, <2>2, <2>5, <2>9
<1>12. Nat \subseteq T
  <2> HIDE DEF T
  <2> QED
    BY <1>10, <1>11, InductionOnNat
<1>13. \A i \in DOMAIN r : r[i].number = r[1].number + (i - 1)
  <2> TAKE i \in DOMAIN r
  <2>1. i - 1 \in Nat /\ (i - 1) + 1 = i
    BY <1>8
  <2> QED
    BY <1>12, <2>1
<1> QED
  BY <1>1, <1>6, <1>7, <1>13

RunOf(q, k) ==
  LET run == Selected(q, Positions(q, k))
  IN  IF run # <<>> /\ run[1].number = 1 THEN BareAll(run) ELSE <<>>

LEMMA RunFacts ==
  ASSUME NEW q, Sound(q), NEW k, NEW g, g = RunOf(q, k)
  PROVE  /\ g \in Seq(Sentences)
         /\ (\E p \in DOMAIN q : q[p].key = k /\ q[p].number = 1) <=> g # <<>>
         /\ \A i \in 1 .. Len(g) : g[i].key = k /\ g[i].number = i
              /\ \E p \in DOMAIN q : q[p].key = k /\ q[p].number = i /\ g[i] = Bare(q[p])
         /\ g # <<>> => \A p \in DOMAIN q : q[p].key = k =>
              q[p].number \in 1 .. Len(g) /\ g[q[p].number] = Bare(q[p])
<1> DEFINE r == Selected(q, Positions(q, k))
<1>1. /\ r \in Seq(Parts)
      /\ \A i \in DOMAIN r : r[i] \in Parts /\ r[i].key = k /\ \E p \in DOMAIN q : r[i] = q[p]
      /\ \A i \in DOMAIN r : r[i].number = r[1].number + (i - 1)
      /\ \A p \in DOMAIN q : q[p].key = k => \E i \in DOMAIN r : r[i] = q[p]
  BY OfKey
<1>2. g = IF r # <<>> /\ r[1].number = 1 THEN BareAll(r) ELSE <<>>
  BY DEF RunOf
<1> HIDE DEF r
<1>3. DOMAIN r = 1 .. Len(r) /\ Len(r) \in Nat /\ (r # <<>> <=> Len(r) # 0)
  BY <1>1
<1>4. \A i \in DOMAIN r : r[i].number \in Nat /\ r[i].number >= 1
  BY <1>1, PartFacts
<1>5. CASE r # <<>> /\ r[1].number = 1
  <2>1. g = [i \in 1 .. Len(r) |-> Bare(r[i])]
    BY <1>2, <1>3, <1>5 DEF BareAll
  <2>2. \A i \in 1 .. Len(r) : Bare(r[i]) \in Sentences
    BY <1>1, <1>3 DEF Sentences
  <2>3. g \in Seq(Sentences) /\ Len(g) = Len(r) /\ g # <<>>
    BY <1>3, <1>5, <2>1, <2>2
  <2>4. \A i \in DOMAIN r : r[i].number = i
    BY <1>1, <1>3, <1>5
  <2>5. 1 \in DOMAIN r
    BY <1>3, <1>5
  <2>6. \E p \in DOMAIN q : q[p].key = k /\ q[p].number = 1
    BY <1>1, <1>5, <2>5
  <2>7. ASSUME NEW i \in 1 .. Len(g)
        PROVE  g[i].key = k /\ g[i].number = i
               /\ \E p \in DOMAIN q : q[p].key = k /\ q[p].number = i /\ g[i] = Bare(q[p])
    <3>1. i \in DOMAIN r /\ g[i] = Bare(r[i])
      BY <1>3, <2>1, <2>3
    <3>2. PICK p \in DOMAIN q : r[i] = q[p]
      BY <1>1, <3>1
    <3>3. r[i].key = k /\ r[i].number = i
      BY <1>1, <2>4, <3>1
    <3> QED
      BY <3>1, <3>2, <3>3 DEF Bare
  <2>8. ASSUME NEW p \in DOMAIN q, q[p].key = k
        PROVE  q[p].number \in 1 .. Len(g) /\ g[q[p].number] = Bare(q[p])
    <3>1. PICK i \in DOMAIN r : r[i] = q[p]
      BY <1>1, <2>8
    <3>2. q[p].number = i
      BY <2>4, <3>1
    <3> QED
      BY <1>3, <2>1, <2>3, <3>1, <3>2
  <2> QED
    BY <2>3, <2>6, <2>7, <2>8
<1>6. CASE ~(r # <<>> /\ r[1].number = 1)
  <2>1. g = <<>>
    BY <1>2, <1>6
  <2>2. ASSUME NEW p \in DOMAIN q, q[p].key = k
        PROVE  q[p].number # 1
    <3>1. PICK i \in DOMAIN r : r[i] = q[p]
      BY <1>1, <2>2
    <3>2. 1 \in DOMAIN r /\ r # <<>> /\ r[1].number # 1
      BY <1>3, <1>6, <3>1
    <3>3. r[i].number = r[1].number + (i - 1) /\ r[1].number \in Nat /\ r[1].number >= 1
      BY <1>1, <1>4, <3>1, <3>2
    <3> QED
      BY <1>3, <3>1, <3>2, <3>3
  <2>3. <<>> \in Seq(Sentences) /\ Len(<<>>) = 0
    OBVIOUS
  <2>4. \A i \in 1 .. Len(g) : FALSE
    BY <2>1, <2>3
  <2> QED
    BY <2>1, <2>2, <2>3, <2>4
<1> QED
  BY <1>5, <1>6

LEMMA RunUnique ==
  ASSUME NEW q, Sound(q), NEW k, NEW g \in Seq(Sentences), Len(g) >= 1,
         \A i \in 1 .. Len(g) :
            \E p \in DOMAIN q : q[p].key = k /\ q[p].number = i /\ g[i] = Bare(q[p]),
         \A p \in DOMAIN q : q[p].key = k => q[p].number # Len(g) + 1
  PROVE  RunOf(q, k) = g
<1> DEFINE r == RunOf(q, k)
<1>1. /\ r \in Seq(Sentences)
      /\ (\E p \in DOMAIN q : q[p].key = k /\ q[p].number = 1) <=> r # <<>>
      /\ \A i \in 1 .. Len(r) : r[i].key = k /\ r[i].number = i
           /\ \E p \in DOMAIN q : q[p].key = k /\ q[p].number = i /\ r[i] = Bare(q[p])
      /\ r # <<>> => \A p \in DOMAIN q : q[p].key = k =>
           q[p].number \in 1 .. Len(r) /\ r[q[p].number] = Bare(q[p])
  BY RunFacts
<1> HIDE DEF r
<1>2. Len(g) \in Nat /\ Len(r) \in Nat /\ 1 \in 1 .. Len(g) /\ Len(g) \in 1 .. Len(g)
  BY <1>1
<1>3. r # <<>>
  BY <1>1, <1>2
<1>4. Len(g) =< Len(r)
  <2>1. PICK p \in DOMAIN q : q[p].key = k /\ q[p].number = Len(g)
    BY <1>2
  <2> QED
    BY <1>1, <1>2, <1>3, <2>1
<1>5. Len(r) =< Len(g)
  <2> SUFFICES ASSUME Len(g) < Len(r) PROVE FALSE
    BY <1>2
  <2>1. Len(g) + 1 \in 1 .. Len(r)
    BY <1>2
  <2>2. PICK p \in DOMAIN q : q[p].key = k /\ q[p].number = Len(g) + 1
    BY <1>1, <2>1
  <2> QED
    BY <2>2
<1>6. Len(r) = Len(g)
  BY <1>2, <1>4, <1>5
<1>7. \A i \in 1 .. Len(g) : r[i] = g[i]
  <2> TAKE i \in 1 .. Len(g)
  <2>1. PICK p \in DOMAIN q : q[p].key = k /\ q[p].number = i /\ g[i] = Bare(q[p])
    OBVIOUS
  <2> QED
    BY <1>1, <1>3, <2>1
<1>8. r = g
  BY <1>1, <1>6, <1>7, SeqEqual
<1> QED
  BY <1>8 DEF r

-----------------------------------------------------------------------------
(* What the queue loses, it loses oldest first: of a key either nothing    *)
(* that matters, or its first sentence and so all it was good for.         *)

LEMMA KeptRuns ==
  ASSUME NEW q, Sound(q), NEW r \in Seq(Parts), NEW S, NEW at,
         Chosen(r, Len(q), q, S, at), KeepsLater(q, S), NEW k
  PROVE  RunOf(r, k) \in {RunOf(q, k), <<>>}
<1> DEFINE g == RunOf(q, k)
<1>0. q \in Seq(Parts)
  BY DEF Sound
<1>1. Sound(r)
  BY <1>0, KeptSound
<1>2. /\ \A i \in DOMAIN r : at[i] \in DOMAIN q /\ at[i] \in S /\ r[i] = q[at[i]]
      /\ \A p \in DOMAIN q : p \in S => \E i \in DOMAIN r : at[i] = p
      /\ DOMAIN q = 1 .. Len(q) /\ Len(q) \in Nat
  BY <1>0, ChosenAt
<1>3. CASE ~ \E p \in DOMAIN r : r[p].key = k /\ r[p].number = 1
  BY <1>1, <1>3, RunFacts
<1>4. CASE \E p \in DOMAIN r : r[p].key = k /\ r[p].number = 1
  <2>1. PICK x \in DOMAIN r : r[x].key = k /\ r[x].number = 1
    BY <1>4
  <2>2. at[x] \in DOMAIN q /\ at[x] \in S /\ q[at[x]].key = k /\ q[at[x]].number = 1
    BY <1>2, <2>1
  <2>3. /\ g \in Seq(Sentences) /\ g # <<>>
        /\ \A i \in 1 .. Len(g) :
              \E p \in DOMAIN q : q[p].key = k /\ q[p].number = i /\ g[i] = Bare(q[p])
        /\ \A p \in DOMAIN q : q[p].key = k => q[p].number \in 1 .. Len(g)
    <3>1. /\ g \in Seq(Sentences)
          /\ (\E p \in DOMAIN q : q[p].key = k /\ q[p].number = 1) <=> g # <<>>
          /\ \A i \in 1 .. Len(g) : g[i].key = k /\ g[i].number = i
               /\ \E p \in DOMAIN q : q[p].key = k /\ q[p].number = i /\ g[i] = Bare(q[p])
          /\ g # <<>> => \A p \in DOMAIN q : q[p].key = k =>
               q[p].number \in 1 .. Len(g) /\ g[q[p].number] = Bare(q[p])
      BY RunFacts
    <3> HIDE DEF g
    <3>2. g # <<>>
      BY <2>2, <3>1
    <3> QED
      BY <3>1, <3>2
  <2> HIDE DEF g
  <2>4. ASSUME NEW p \in DOMAIN q, q[p].key = k
        PROVE  p \in S
    <3>1. CASE p < at[x]
      <4>1. q[p].number < 1
        BY <2>2, <2>4, <3>1 DEF Sound, Increasing
      <4>2. q[p] \in Parts
        BY <1>0
      <4>3. q[p].number \in Nat /\ q[p].number >= 1
        BY <4>2, PartFacts
      <4> QED
        BY <4>1, <4>3
    <3>2. CASE p = at[x]
      BY <2>2, <3>2
    <3>3. CASE at[x] < p
      BY <2>2, <2>4, <3>3 DEF KeepsLater
    <3> QED
      BY <1>2, <2>2, <3>1, <3>2, <3>3
  <2>5. \A i \in 1 .. Len(g) :
          \E p \in DOMAIN r : r[p].key = k /\ r[p].number = i /\ g[i] = Bare(r[p])
    <3> TAKE i \in 1 .. Len(g)
    <3>1. PICK p \in DOMAIN q : q[p].key = k /\ q[p].number = i /\ g[i] = Bare(q[p])
      BY <2>3
    <3>2. PICK y \in DOMAIN r : at[y] = p
      BY <1>2, <2>4, <3>1
    <3> QED
      BY <1>2, <3>1, <3>2
  <2>6. \A p \in DOMAIN r : r[p].key = k => r[p].number # Len(g) + 1
    <3> SUFFICES ASSUME NEW p \in DOMAIN r, r[p].key = k
                 PROVE  r[p].number # Len(g) + 1
      OBVIOUS
    <3>1. r[p].number \in 1 .. Len(g) /\ Len(g) \in Nat
      BY <1>2, <2>3
    <3> QED
      BY <3>1
  <2>7. Len(g) >= 1
    BY <2>3
  <2>8. RunOf(r, k) = g
    BY <1>1, <2>3, <2>5, <2>6, <2>7, RunUnique
  <2> QED
    BY <2>8 DEF g
<1> QED
  BY <1>3, <1>4

LEMMA KeptContinues ==
  ASSUME NEW q, Sound(q), NEW r \in Seq(Parts), NEW S, NEW at,
         Chosen(r, Len(q), q, S, at), KeepsLater(q, S), NEW a, Continues(q, a)
  PROVE  Continues(r, a)
<1>0. q \in Seq(Parts) /\ a \in Parts /\ a.age = 0
  BY DEF Sound, Continues
<1>1. /\ \A i \in DOMAIN r : at[i] \in DOMAIN q /\ at[i] \in S /\ r[i] = q[at[i]]
      /\ \A p \in DOMAIN q : p \in S => \E i \in DOMAIN r : at[i] = p
      /\ DOMAIN q = 1 .. Len(q) /\ Len(q) \in Nat
  BY <1>0, ChosenAt
<1>2. ASSUME NEW i \in DOMAIN r, r[i].key = a.key
      PROVE  /\ r[i].number < a.number
             /\ \E p \in DOMAIN r : r[p].key = a.key /\ r[p].number = a.number - 1
  <2>1. at[i] \in DOMAIN q /\ at[i] \in S /\ q[at[i]].key = a.key /\ r[i] = q[at[i]]
    BY <1>1, <1>2
  <2>2. q[at[i]].number < a.number
    BY <2>1 DEF Continues
  <2>3. PICK p \in DOMAIN q : q[p].key = a.key /\ q[p].number = a.number - 1
    BY <2>1 DEF Continues
  <2>4. q[at[i]] \in Parts /\ q[at[i]].number \in Nat /\ a.number \in Nat
    <3>1. q[at[i]] \in Parts
      BY <1>0, <2>1
    <3> QED
      BY <1>0, <3>1, PartFacts
  <2>5. p \in S
    <3>1. CASE p < at[i]
      <4>1. q[p].number < q[at[i]].number
        BY <2>1, <2>3, <3>1 DEF Sound, Increasing
      <4> QED
        BY <2>2, <2>3, <2>4, <4>1
    <3>2. CASE p = at[i]
      BY <2>1, <3>2
    <3>3. CASE at[i] < p
      BY <2>1, <2>3, <3>3 DEF KeepsLater
    <3> QED
      BY <1>1, <2>1, <3>1, <3>2, <3>3
  <2>6. PICK y \in DOMAIN r : at[y] = p
    BY <1>1, <2>5
  <2>7. r[y].key = a.key /\ r[y].number = a.number - 1
    BY <1>1, <2>3, <2>6
  <2> QED
    BY <2>1, <2>2, <2>7
<1> QED
  BY <1>0, <1>2 DEF Continues

Cleaned(r, q, ref) ==
  /\ r \in Seq(Parts) /\ KeepsLater(q, Fresh(q, ref))
  /\ \E at : Chosen(r, Len(q), q, Fresh(q, ref), at)
  /\ Sound(r) /\ Len(r) =< Len(q)
  /\ \A i \in DOMAIN r : r[i].key[1] # ref.key[1] /\ \E p \in DOMAIN q : r[i] = q[p]

LEMMA CleanIs ==
  ASSUME NEW q, Sound(q), NEW ref
  PROVE  Cleaned(clean(q, ref), q, ref)
<1> DEFINE r == clean(q, ref)
           S == Fresh(q, ref)
<1>0. q \in Seq(Parts) /\ OldestFirst(q)
  BY DEF Sound
<1>1. r \in Seq(Parts) /\ \E at : Chosen(r, Len(q), q, S, at)
  BY <1>0, Selection DEF clean
<1>2. PICK at : Chosen(r, Len(q), q, S, at)
  BY <1>1
<1> HIDE DEF r
<1>3. KeepsLater(q, S)
  <2> SUFFICES ASSUME NEW i \in DOMAIN q, NEW p \in DOMAIN q, i \in S, i < p, q[i].key = q[p].key
               PROVE  p \in S
    BY DEF KeepsLater
  <2>1. q[i] \in Parts /\ q[p] \in Parts
    BY <1>0
  <2>2. q[i].age \in Nat /\ q[p].age \in Nat /\ MaxAge \in Nat /\ q[i].age >= q[p].age
    BY <1>0, <2>1, PartFacts DEF OldestFirst
  <2>3. q[i].key[1] # ref.key[1] /\ q[i].age =< MaxAge
    BY DEF Fresh
  <2>4. q[p].age =< MaxAge
    BY <2>2, <2>3
  <2> QED
    BY <2>3, <2>4 DEF Fresh
<1>4. Sound(r)
  BY <1>0, <1>1, <1>2, <1>3, KeptSound
<1>5. /\ Len(r) =< Len(q)
      /\ \A i \in DOMAIN r : at[i] \in DOMAIN q /\ at[i] \in S /\ r[i] = q[at[i]]
  BY <1>0, <1>1, <1>2, ChosenAt
<1>6. \A i \in DOMAIN r : r[i].key[1] # ref.key[1] /\ \E p \in DOMAIN q : r[i] = q[p]
  <2> TAKE i \in DOMAIN r
  <2>1. at[i] \in DOMAIN q /\ q[at[i]].key[1] # ref.key[1] /\ r[i] = q[at[i]]
    BY <1>5 DEF Fresh
  <2> QED
    BY <2>1
<1> QED
  BY <1>1, <1>3, <1>4, <1>5, <1>6 DEF r, Cleaned

LEMMA TailIs ==
  ASSUME NEW q \in Seq(Parts), q # <<>>
  PROVE  /\ Tail(q) \in Seq(Parts) /\ Len(Tail(q)) = Len(q) - 1
         /\ Chosen(Tail(q), Len(q), q, 2 .. Len(q), [i \in 1 .. (Len(q) - 1) |-> i + 1])
         /\ KeepsLater(q, 2 .. Len(q))
<1> DEFINE r == Tail(q)
           at == [i \in 1 .. (Len(q) - 1) |-> i + 1]
<1>1. Len(q) \in Nat /\ Len(q) >= 1 /\ DOMAIN q = 1 .. Len(q)
  OBVIOUS
<1>2. r \in Seq(Parts) /\ Len(r) = Len(q) - 1 /\ \A i \in 1 .. (Len(q) - 1) : r[i] = q[i + 1]
  OBVIOUS
<1> HIDE DEF r
<1>3. \A i \in 1 .. Len(r) : at[i] = i + 1 /\ i + 1 \in 2 .. Len(q)
  BY <1>1, <1>2
<1>4. at \in [1 .. Len(r) -> 1 .. Len(q)]
  BY <1>1, <1>2
<1> HIDE DEF at
<1>5. \A p \in 1 .. Len(q) : p \in 2 .. Len(q) => \E i \in 1 .. Len(r) : at[i] = p
  <2> SUFFICES ASSUME NEW p \in 2 .. Len(q)
               PROVE  \E i \in 1 .. Len(r) : at[i] = p
    OBVIOUS
  <2>1. p - 1 \in 1 .. Len(r) /\ (p - 1) + 1 = p
    BY <1>1, <1>2
  <2> QED
    BY <1>3, <2>1
<1>6. \A i, j \in 1 .. Len(r) : i =< j => at[j] - at[i] >= j - i
  BY <1>1, <1>2, <1>3
<1>7. Chosen(r, Len(q), q, 2 .. Len(q), at)
  BY <1>2, <1>3, <1>4, <1>5, <1>6 DEF Chosen
<1>8. KeepsLater(q, 2 .. Len(q))
  BY <1>1 DEF KeepsLater
<1> QED
  BY <1>2, <1>7, <1>8 DEF r, at

(* A sentence that continues its key extends what is held of it.           *)
LEMMA AppendRuns ==
  ASSUME NEW q, Sound(q), NEW a, Continues(q, a), NEW k
  PROVE  RunOf(Append(q, a), k) = IF k = a.key THEN Promise!Extended(RunOf(q, k), Bare(a))
                                  ELSE RunOf(q, k)
<1> DEFINE r == Append(q, a)
           g == RunOf(q, k)
<1>0. q \in Seq(Parts) /\ a \in Parts /\ Len(q) \in Nat /\ DOMAIN q = 1 .. Len(q)
  BY DEF Sound, Continues
<1>1. Sound(r)
  BY AppendSound
<1>2. /\ r \in Seq(Parts) /\ DOMAIN r = 1 .. (Len(q) + 1)
      /\ r[Len(q) + 1] = a /\ \A i \in DOMAIN q : r[i] = q[i]
  BY <1>0
<1> HIDE DEF r
<1>3. \A i \in DOMAIN r : i = Len(q) + 1 \/ i \in DOMAIN q
  BY <1>0, <1>2
<1>4. \A i \in DOMAIN q : i \in DOMAIN r
  BY <1>0, <1>2
<1>5. Len(q) + 1 \in DOMAIN r
  BY <1>0, <1>2
<1>6. a.number \in Nat /\ a.number >= 1
  BY <1>0, PartFacts
<1>7. /\ g \in Seq(Sentences)
      /\ (\E p \in DOMAIN q : q[p].key = k /\ q[p].number = 1) <=> g # <<>>
      /\ \A i \in 1 .. Len(g) : g[i].key = k /\ g[i].number = i
           /\ \E p \in DOMAIN q : q[p].key = k /\ q[p].number = i /\ g[i] = Bare(q[p])
      /\ g # <<>> => \A p \in DOMAIN q : q[p].key = k =>
           q[p].number \in 1 .. Len(g) /\ g[q[p].number] = Bare(q[p])
  BY RunFacts
<1> HIDE DEF g
<1>8. Len(g) \in Nat /\ (g # <<>> <=> Len(g) >= 1)
  BY <1>7
<1>9. CASE k # a.key
  <2>1. CASE g = <<>>
    <3>1. ~ \E p \in DOMAIN r : r[p].key = k /\ r[p].number = 1
      BY <1>2, <1>3, <1>7, <1>9, <2>1
    <3>2. RunOf(r, k) = <<>>
      BY <1>1, <3>1, RunFacts
    <3> QED
      BY <1>9, <2>1, <3>2 DEF r, g
  <2>2. CASE g # <<>>
    <3>1. \A i \in 1 .. Len(g) :
            \E p \in DOMAIN r : r[p].key = k /\ r[p].number = i /\ g[i] = Bare(r[p])
      BY <1>2, <1>4, <1>7
    <3>2. \A p \in DOMAIN r : r[p].key = k => r[p].number # Len(g) + 1
      <4> SUFFICES ASSUME NEW p \in DOMAIN r, r[p].key = k
                   PROVE  r[p].number # Len(g) + 1
        OBVIOUS
      <4>1. p \in DOMAIN q /\ r[p] = q[p]
        BY <1>2, <1>3, <1>9
      <4>2. r[p].number \in 1 .. Len(g)
        BY <1>7, <2>2, <4>1
      <4> QED
        BY <1>8, <4>2
    <3>3. RunOf(r, k) = g
      BY <1>1, <1>7, <1>8, <2>2, <3>1, <3>2, RunUnique
    <3> QED
      BY <1>9, <3>3 DEF r, g
  <2> QED
    BY <2>1, <2>2
<1>10. CASE k = a.key
  <2>0. Bare(a).number = a.number /\ Bare(a).key = a.key /\ Bare(a) \in Sentences
    BY <1>0 DEF Bare, Sentences
  <2>1. CASE a.number = 1
    <3>1. \A p \in DOMAIN q : q[p].key # k
      <4> SUFFICES ASSUME NEW p \in DOMAIN q, q[p].key = k PROVE FALSE
        OBVIOUS
      <4>1. q[p].number < 1
        BY <1>10, <2>1 DEF Continues
      <4>2. q[p] \in Parts
        BY <1>0
      <4>3. q[p].number \in Nat /\ q[p].number >= 1
        BY <4>2, PartFacts
      <4> QED
        BY <4>1, <4>3
    <3> DEFINE u == <<Bare(a)>>
    <3>2. u \in Seq(Sentences) /\ Len(u) = 1 /\ u[1] = Bare(a)
      BY <2>0
    <3> HIDE DEF u
    <3>3. \A i \in 1 .. Len(u) :
            \E p \in DOMAIN r : r[p].key = k /\ r[p].number = i /\ u[i] = Bare(r[p])
      BY <1>2, <1>5, <1>10, <2>1, <3>2
    <3>4. \A p \in DOMAIN r : r[p].key = k => r[p].number # Len(u) + 1
      BY <1>2, <1>3, <2>1, <3>1, <3>2
    <3>5. RunOf(r, k) = u
      <4>1. u \in Seq(Sentences) /\ Len(u) >= 1
        BY <3>2
      <4> QED
        BY <1>1, <3>3, <3>4, <4>1, RunUnique
    <3>6. Promise!Extended(g, Bare(a)) = u
      BY <2>0, <2>1 DEF Promise!Extended, u
    <3> QED
      BY <1>10, <3>5, <3>6 DEF r, g
  <2>2. CASE a.number # 1 /\ g # <<>>
    <3>1. PICK x \in DOMAIN q : q[x].key = k /\ q[x].number = 1
      BY <1>7, <2>2
    <3>2. PICK y \in DOMAIN q : q[y].key = k /\ q[y].number = a.number - 1
      BY <1>10, <3>1 DEF Continues
    <3>3. PICK z \in DOMAIN q : q[z].key = k /\ q[z].number = Len(g)
      <4>1. Len(g) \in 1 .. Len(g)
        BY <1>8, <2>2
      <4> QED
        BY <1>7, <4>1
    <3>4. Len(g) < a.number
      BY <1>10, <3>3 DEF Continues
    <3>5. a.number - 1 \in 1 .. Len(g)
      BY <1>7, <2>2, <3>2
    <3>6. a.number = Len(g) + 1
      BY <1>6, <1>8, <3>4, <3>5
    <3> DEFINE u == Append(g, Bare(a))
    <3>7. u \in Seq(Sentences) /\ Len(u) = Len(g) + 1 /\ u[Len(g) + 1] = Bare(a)
          /\ \A i \in 1 .. Len(g) : u[i] = g[i]
      BY <1>7, <2>0
    <3> HIDE DEF u
    <3>8. ASSUME NEW i \in 1 .. Len(u)
          PROVE  \E p \in DOMAIN r : r[p].key = k /\ r[p].number = i /\ u[i] = Bare(r[p])
      <4>1. CASE i = Len(g) + 1
        BY <1>2, <1>5, <1>10, <3>6, <3>7, <4>1
      <4>2. CASE i # Len(g) + 1
        <5>1. i \in 1 .. Len(g)
          BY <1>8, <3>7, <4>2
        <5>2. PICK p \in DOMAIN q : q[p].key = k /\ q[p].number = i /\ g[i] = Bare(q[p])
          BY <1>7, <5>1
        <5> QED
          BY <1>2, <1>4, <3>7, <5>1, <5>2
      <4> QED
        BY <4>1, <4>2
    <3>9. ASSUME NEW p \in DOMAIN r, r[p].key = k
          PROVE  r[p].number # Len(u) + 1
      <4>1. CASE p = Len(q) + 1
        BY <1>2, <1>8, <3>6, <3>7, <4>1
      <4>2. CASE p \in DOMAIN q
        <5>1. q[p].number \in 1 .. Len(g) /\ r[p] = q[p]
          BY <1>2, <1>7, <2>2, <3>9, <4>2
        <5> QED
          BY <1>8, <3>7, <5>1
      <4> QED
        BY <1>3, <4>1, <4>2
    <3>10. RunOf(r, k) = u
      <4>1. u \in Seq(Sentences) /\ Len(u) >= 1
        BY <1>8, <3>7
      <4>2. \A i \in 1 .. Len(u) :
              \E p \in DOMAIN r : r[p].key = k /\ r[p].number = i /\ u[i] = Bare(r[p])
        BY <3>8
      <4>3. \A p \in DOMAIN r : r[p].key = k => r[p].number # Len(u) + 1
        BY <3>9
      <4> QED
        BY <1>1, <4>1, <4>2, <4>3, RunUnique
    <3>11. Promise!Extended(g, Bare(a)) = u
      BY <2>0, <2>2, <3>6 DEF Promise!Extended, u
    <3> QED
      BY <1>10, <3>10, <3>11 DEF r, g
  <2>3. CASE a.number # 1 /\ g = <<>>
    <3>1. ~ \E p \in DOMAIN r : r[p].key = k /\ r[p].number = 1
      BY <1>2, <1>3, <1>7, <2>3
    <3>2. RunOf(r, k) = <<>>
      BY <1>1, <3>1, RunFacts
    <3>3. Promise!Extended(g, Bare(a)) = <<>>
      BY <2>0, <2>3 DEF Promise!Extended
    <3> QED
      BY <1>10, <3>2, <3>3 DEF r, g
  <2> QED
    BY <2>1, <2>2, <2>3
<1> QED
  BY <1>9, <1>10

-----------------------------------------------------------------------------
(* A sentence that arrives: what search() finds, what is pushed.           *)

LEMMA MaxIs ==
  ASSUME NEW n \in Nat, NEW S \in SUBSET (1 .. n), S # {}
  PROVE  Max(S) \in S /\ \A y \in S : Max(S) >= y
<1> DEFINE T == {n - x : x \in S}
<1>1. T \in SUBSET Nat /\ T # {}
  <2>1. \A x \in S : n - x \in Nat
    OBVIOUS
  <2> QED
    BY <2>1
<1>2. PICK d \in T : \A e \in T : d =< e
  BY <1>1, LeastElement
<1>3. PICK x \in S : d = n - x
  BY <1>2
<1>4. \A y \in S : x >= y
  <2> TAKE y \in S
  <2>1. n - y \in T
    OBVIOUS
  <2> QED
    BY <1>2, <1>3, <2>1
<1> QED
  BY <1>3, <1>4 DEF Max

LEMMA SearchIs ==
  ASSUME Sound(queue), NEW k
  PROVE  /\ \A p \in DOMAIN queue : queue[p].key = k => queue[p].number =< search(k)
         /\ \/ search(k) = 0 /\ \A p \in DOMAIN queue : queue[p].key # k
            \/ \E p \in DOMAIN queue : queue[p].key = k /\ queue[p].number = search(k)
<1> DEFINE S == Positions(queue, k)
<1>0. queue \in Seq(Parts) /\ Len(queue) \in Nat /\ DOMAIN queue = 1 .. Len(queue)
  BY DEF Sound
<1>1. S \in SUBSET (1 .. Len(queue))
  BY <1>0 DEF Positions
<1>2. CASE S = {}
  <2>1. search(k) = 0
    BY <1>2 DEF search
  <2>2. \A p \in DOMAIN queue : queue[p].key # k
    BY <1>2 DEF Positions
  <2> QED
    BY <2>1, <2>2
<1>3. CASE S # {}
  <2> DEFINE x == Max(S)
  <2>1. x \in S /\ \A y \in S : x >= y
    BY <1>0, <1>1, <1>3, MaxIs
  <2>2. search(k) = queue[x].number
    BY <1>3 DEF search
  <2> HIDE DEF x
  <2>3. x \in DOMAIN queue /\ queue[x].key = k
    BY <2>1 DEF Positions
  <2>4. ASSUME NEW p \in DOMAIN queue, queue[p].key = k
        PROVE  queue[p].number =< queue[x].number
    <3>1. p \in S
      BY <2>4 DEF Positions
    <3>2. p = x \/ p < x
      BY <1>0, <2>1, <2>3, <3>1
    <3>3. p < x => queue[p].number < queue[x].number
      BY <2>3, <2>4 DEF Sound, Increasing
    <3>4. queue[p] \in Parts /\ queue[x] \in Parts
      BY <1>0, <2>3
    <3>5. queue[p].number \in Nat /\ queue[x].number \in Nat
      BY <3>4, PartFacts
    <3> QED
      BY <3>2, <3>3, <3>5
  <2> QED
    BY <2>2, <2>3, <2>4
<1> QED
  BY <1>2, <1>3

LEMMA SuccessorContinues ==
  ASSUME Sound(queue), NEW a \in Parts, a.age = 0, Successor(a)
  PROVE  Continues(queue, a)
<1>0. queue \in Seq(Parts)
  BY DEF Sound
<1>1. a.number \in Nat /\ a.number = search(a.key) + 1
  BY PartFacts DEF Successor
<1>2. ASSUME NEW i \in DOMAIN queue, queue[i].key = a.key
      PROVE  /\ queue[i].number < a.number
             /\ \E p \in DOMAIN queue : queue[p].key = a.key /\ queue[p].number = a.number - 1
  <2>1. /\ queue[i].number =< search(a.key)
        /\ \E p \in DOMAIN queue : queue[p].key = a.key /\ queue[p].number = search(a.key)
    BY <1>2, SearchIs
  <2>2. PICK p \in DOMAIN queue : queue[p].key = a.key /\ queue[p].number = search(a.key)
    BY <2>1
  <2>3. queue[i] \in Parts /\ queue[p] \in Parts
    BY <1>0
  <2>4. queue[i].number \in Nat /\ queue[p].number \in Nat
    BY <2>3, PartFacts
  <2> QED
    BY <1>1, <2>1, <2>2, <2>4
<1> QED
  BY <1>2 DEF Continues

Room(q) == IF Len(q) >= MaxQueue THEN Tail(q) ELSE q

(* Making room takes away the oldest sentence if anything.                 *)
LEMMA RoomIs ==
  ASSUME NEW q, Sound(q), Len(q) =< MaxQueue, MaxQueue \in Nat, MaxQueue >= 1
  PROVE  /\ Sound(Room(q)) /\ Len(Room(q)) < MaxQueue
         /\ \A k : RunOf(Room(q), k) \in {RunOf(q, k), <<>>}
         /\ \A a : Continues(q, a) => Continues(Room(q), a)
         /\ \A i \in DOMAIN Room(q) : \E p \in DOMAIN q :
              Room(q)[i] = q[p] /\ Len(Room(q)) - i = Len(q) - p
         /\ \A p \in DOMAIN q : p >= 2 \/ Len(q) < MaxQueue =>
              \E i \in DOMAIN Room(q) : Room(q)[i] = q[p] /\ Len(Room(q)) - i = Len(q) - p
<1>0. q \in Seq(Parts) /\ Len(q) \in Nat /\ DOMAIN q = 1 .. Len(q)
  BY DEF Sound
<1>1. CASE Len(q) < MaxQueue
  BY <1>0, <1>1 DEF Room
<1>2. CASE ~(Len(q) < MaxQueue)
  <2> DEFINE r == Tail(q)
             S == 2 .. Len(q)
             at == [i \in 1 .. (Len(q) - 1) |-> i + 1]
  <2>0. Room(q) = r /\ q # <<>> /\ Len(q) = MaxQueue
    <3>1. Len(q) >= MaxQueue /\ Len(q) = MaxQueue
      <4>1. \A n \in Nat : n =< MaxQueue /\ ~(n < MaxQueue) => n >= MaxQueue /\ n = MaxQueue
        OBVIOUS
      <4> QED
        BY <1>0, <1>2, <4>1
    <3>2. q # <<>>
      BY <1>0, <3>1
    <3> QED
      BY <3>1, <3>2 DEF Room
  <2>1. r \in Seq(Parts) /\ Len(r) = Len(q) - 1 /\ Chosen(r, Len(q), q, S, at) /\ KeepsLater(q, S)
    BY <1>0, <2>0, TailIs
  <2>2. DOMAIN r = 1 .. (Len(q) - 1) /\ \A i \in 1 .. (Len(q) - 1) : r[i] = q[i + 1]
    BY <1>0, <2>0
  <2> HIDE DEF r, S, at
  <2>3. Sound(r)
    BY <1>0, <2>1, KeptSound
  <2>4. \A k : RunOf(r, k) \in {RunOf(q, k), <<>>}
    BY <2>1, KeptRuns
  <2>5. \A a : Continues(q, a) => Continues(r, a)
    BY <2>1, KeptContinues
  <2>6. ASSUME NEW i \in DOMAIN r
        PROVE  \E p \in DOMAIN q : r[i] = q[p] /\ Len(r) - i = Len(q) - p
    <3>1. i + 1 \in DOMAIN q /\ r[i] = q[i + 1] /\ Len(r) - i = Len(q) - (i + 1)
      BY <1>0, <2>1, <2>2
    <3> QED
      BY <3>1
  <2>7. ASSUME NEW p \in DOMAIN q, p >= 2
        PROVE  \E i \in DOMAIN r : r[i] = q[p] /\ Len(r) - i = Len(q) - p
    <3>1. p - 1 \in DOMAIN r /\ (p - 1) + 1 = p /\ Len(r) - (p - 1) = Len(q) - p
      BY <1>0, <2>1, <2>2, <2>7
    <3> QED
      BY <2>2, <3>1
  <2> QED
    BY <1>0, <1>2, <2>0, <2>1, <2>3, <2>4, <2>5, <2>6, <2>7
<1> QED
  BY <1>1, <1>2

LEMMA ContinuedIs ==
  ASSUME Sound(queue), NEW a \in Parts, a.age = 0
  PROVE  /\ Sound(Continued(a)) /\ Continues(Continued(a), a)
         /\ Len(Continued(a)) =< Len(queue)
         /\ \A k : RunOf(Continued(a), k) \in {RunOf(queue, k), <<>>}
         /\ \A i \in DOMAIN Continued(a) : \E p \in DOMAIN queue : Continued(a)[i] = queue[p]
         /\ ~Successor(a) => \A i \in DOMAIN Continued(a) : Continued(a)[i].key[1] # a.key[1]
<1>0. queue \in Seq(Parts) /\ Len(queue) \in Nat
  BY DEF Sound
<1>1. CASE Successor(a)
  <2>1. Continued(a) = queue
    BY <1>1 DEF Continued
  <2>2. Continues(queue, a)
    BY <1>1, SuccessorContinues
  <2> QED
    BY <1>0, <1>1, <2>1, <2>2
<1>2. CASE ~Successor(a)
  <2> DEFINE r == clean(queue, a)
  <2>1. Continued(a) = r
    BY <1>2 DEF Continued
  <2>a. Cleaned(r, queue, a)
    BY CleanIs
  <2> HIDE DEF r
  <2>2. /\ r \in Seq(Parts) /\ KeepsLater(queue, Fresh(queue, a))
        /\ \E at : Chosen(r, Len(queue), queue, Fresh(queue, a), at)
        /\ Sound(r) /\ Len(r) =< Len(queue)
        /\ \A i \in DOMAIN r : r[i].key[1] # a.key[1] /\ \E p \in DOMAIN queue : r[i] = queue[p]
    BY <2>a DEF Cleaned
  <2> HIDE DEF r
  <2>3. \A k : RunOf(r, k) \in {RunOf(queue, k), <<>>}
    BY <2>2, KeptRuns
  <2>4. Continues(r, a)
    <3>1. \A i \in DOMAIN r : r[i].key # a.key
      BY <2>2
    <3> QED
      BY <3>1 DEF Continues
  <2> QED
    BY <1>2, <2>1, <2>2, <2>3, <2>4
<1> QED
  BY <1>1, <1>2

(* P is the queue with a pushed on it.                                     *)
Arrived(P, a) ==
  /\ Sound(P) /\ Len(P) =< MaxQueue /\ Len(P) >= 1 /\ P[Len(P)] = a
  /\ \A i \in DOMAIN P : P[i] = a \/ \E p \in DOMAIN queue : P[i] = queue[p]
  /\ \A i \in DOMAIN P : P[i].key = a.key => P[i].number =< a.number
  /\ RunOf(P, a.key) \in {Promise!Extended(RunOf(queue, a.key), Bare(a)),
                          Promise!Extended(<<>>, Bare(a))}
  /\ \A k : k # a.key => RunOf(P, k) \in {RunOf(queue, k), <<>>}

LEMMA PushedIs ==
  ASSUME Sound(queue), Len(queue) =< MaxQueue, NEW a \in Parts, a.age = 0
  PROVE  Arrived(Pushed(a), a)
<1> DEFINE c == Continued(a)
           t == Room(c)
           P == Append(t, a)
<1>0. Pushed(a) = P
  BY DEF Pushed, Room
<1>1. /\ Sound(c) /\ Continues(c, a) /\ Len(c) =< Len(queue)
      /\ \A k : RunOf(c, k) \in {RunOf(queue, k), <<>>}
      /\ \A i \in DOMAIN c : \E p \in DOMAIN queue : c[i] = queue[p]
  BY ContinuedIs
<1> HIDE DEF c
<1>2. a.number \in Nat /\ MaxQueue \in Nat /\ MaxQueue >= 1 /\ Len(c) =< MaxQueue
  <2>1. Len(c) \in Nat /\ Len(queue) \in Nat
    BY <1>1 DEF Sound
  <2>2. a.number \in Nat /\ MaxQueue \in Nat /\ a.count \in Nat /\ a.count >= 2 /\ a.count =< MaxQueue
    BY PartFacts
  <2> QED
    BY <1>1, <2>1, <2>2
<1>3. /\ Sound(t) /\ Len(t) < MaxQueue
      /\ \A k : RunOf(t, k) \in {RunOf(c, k), <<>>}
      /\ Continues(t, a)
      /\ \A i \in DOMAIN t : \E p \in DOMAIN c : t[i] = c[p] /\ Len(t) - i = Len(c) - p
  BY <1>1, <1>2, RoomIs
<1> HIDE DEF t
<1>4. t \in Seq(Parts) /\ DOMAIN t = 1 .. Len(t) /\ Len(t) \in Nat
  BY <1>3 DEF Sound
<1>5. Sound(P)
  BY <1>3, AppendSound
<1>6. /\ Len(P) = Len(t) + 1 /\ DOMAIN P = 1 .. (Len(t) + 1) /\ P[Len(t) + 1] = a
      /\ \A i \in DOMAIN t : P[i] = t[i]
  BY <1>4
<1>7. \A k : RunOf(t, k) \in {RunOf(queue, k), <<>>}
  BY <1>1, <1>3
<1>8. \A k : RunOf(P, k) = IF k = a.key THEN Promise!Extended(RunOf(t, k), Bare(a)) ELSE RunOf(t, k)
  BY <1>3, AppendRuns
<1> HIDE DEF P
<1>9. \A i \in DOMAIN P : i = Len(t) + 1 \/ i \in DOMAIN t
  BY <1>4, <1>6
<1>10. Len(P) =< MaxQueue /\ Len(P) >= 1 /\ P[Len(P)] = a
  BY <1>2, <1>3, <1>4, <1>6
<1>11. \A i \in DOMAIN P : P[i] = a \/ \E p \in DOMAIN queue : P[i] = queue[p]
  BY <1>1, <1>3, <1>6, <1>9
<1>12. ASSUME NEW i \in DOMAIN P, P[i].key = a.key
       PROVE  P[i].number =< a.number
  <2>1. CASE i = Len(t) + 1
    BY <1>2, <1>6, <2>1
  <2>2. CASE i \in DOMAIN t
    <3>1. t[i].number < a.number /\ P[i] = t[i] /\ t[i] \in Parts
      BY <1>3, <1>4, <1>6, <1>12, <2>2 DEF Continues
    <3>2. t[i].number \in Nat
      BY <3>1, PartFacts
    <3> QED
      BY <1>2, <3>1, <3>2
  <2> QED
    BY <1>9, <2>1, <2>2
<1>13. RunOf(P, a.key) \in {Promise!Extended(RunOf(queue, a.key), Bare(a)),
                            Promise!Extended(<<>>, Bare(a))}
  BY <1>7, <1>8
<1>14. \A k : k # a.key => RunOf(P, k) \in {RunOf(queue, k), <<>>}
  BY <1>7, <1>8
<1>15. Arrived(P, a)
  BY <1>5, <1>10, <1>11, <1>12, <1>13, <1>14 DEF Arrived
<1> QED
  BY <1>0, <1>15

(* The last sentence: the parts found are the whole message, or the first  *)
(* one is missing and nothing is held.                                     *)
Found(parts, P, a) ==
  /\ parts \in Seq(Parts)
  /\ \A i \in DOMAIN parts : \E p \in DOMAIN P : parts[i] = P[p]
  /\ \A p \in DOMAIN P : P[p].key = a.key => \E i \in DOMAIN parts : parts[i] = P[p]
  /\ Len(parts) = a.count =>
       /\ RunOf(P, a.key) = BareAll(parts) /\ Len(BareAll(parts)) = a.count
       /\ \A i \in DOMAIN parts : parts[i].number = i
  /\ Len(parts) # a.count => RunOf(P, a.key) = <<>>

LEMMA PartsFound ==
  ASSUME NEW P, NEW a \in Parts, Arrived(P, a), a.number = a.count
  PROVE  Found(Selected(P, Positions(P, a.key)), P, a)
<1> DEFINE parts == Selected(P, Positions(P, a.key))
<1>0. /\ Sound(P) /\ P[Len(P)] = a /\ Len(P) >= 1
      /\ \A i \in DOMAIN P : P[i].key = a.key => P[i].number =< a.number
  BY DEF Arrived
<1>a. Sound(P)
  BY DEF Arrived
<1>b. parts = Selected(P, Positions(P, a.key))
  OBVIOUS
<1>9. RunOf(P, a.key) = IF parts # <<>> /\ parts[1].number = 1 THEN BareAll(parts) ELSE <<>>
  BY DEF RunOf
<1> HIDE DEF parts
<1>1. /\ parts \in Seq(Parts)
      /\ \A i \in DOMAIN parts : parts[i] \in Parts /\ parts[i].key = a.key
                                 /\ \E p \in DOMAIN P : parts[i] = P[p]
      /\ \A i \in DOMAIN parts : parts[i].number = parts[1].number + (i - 1)
      /\ \A p \in DOMAIN P : P[p].key = a.key => \E i \in DOMAIN parts : parts[i] = P[p]
  BY <1>a, <1>b, OfKey
<1>2. DOMAIN parts = 1 .. Len(parts) /\ Len(parts) \in Nat
  BY <1>1
<1>3. PICK j \in DOMAIN parts : parts[j] = a
  <2>1. P \in Seq(Parts)
    BY <1>0 DEF Sound
  <2>2. Len(P) \in DOMAIN P
    BY <1>0, <2>1
  <2>3. P[Len(P)].key = a.key
    BY <1>0
  <2>4. \E j \in DOMAIN parts : parts[j] = P[Len(P)]
    BY <1>1, <2>2, <2>3
  <2> QED
    BY <1>0, <2>4
<1>4. 1 \in DOMAIN parts /\ Len(parts) \in DOMAIN parts /\ parts # <<>> /\ j \in Nat /\ j =< Len(parts)
  BY <1>2, <1>3
<1>5. parts[1].number \in Nat /\ parts[1].number >= 1 /\ a.number \in Nat /\ a.count \in Nat
  <2>1. parts[1] \in Parts
    BY <1>1, <1>4
  <2> QED
    BY <2>1, PartFacts
<1>6. a.number = parts[1].number + (j - 1)
  BY <1>1, <1>3
<1>7. parts[1].number + (Len(parts) - 1) =< a.number
  <2>1. PICK p \in DOMAIN P : parts[Len(parts)] = P[p]
    BY <1>1, <1>4
  <2>2. P[p].key = a.key
    BY <1>1, <1>4, <2>1
  <2>3. parts[Len(parts)].number =< a.number
    BY <1>0, <2>1, <2>2
  <2>4. parts[Len(parts)].number = parts[1].number + (Len(parts) - 1)
    BY <1>1, <1>4
  <2> QED
    BY <2>3, <2>4
<1>8. j = Len(parts) /\ a.count = parts[1].number + (Len(parts) - 1)
  BY <1>2, <1>4, <1>5, <1>6, <1>7
<1>10. Len(parts) = a.count <=> parts[1].number = 1
  BY <1>2, <1>5, <1>8
<1>11. Len(BareAll(parts)) = Len(parts)
  BY <1>2 DEF BareAll
<1>12. ASSUME Len(parts) = a.count
       PROVE  /\ RunOf(P, a.key) = BareAll(parts) /\ Len(BareAll(parts)) = a.count
              /\ \A i \in DOMAIN parts : parts[i].number = i
  <2>1. parts[1].number = 1
    BY <1>10, <1>12
  <2>2. \A i \in DOMAIN parts : parts[i].number = i
    BY <1>1, <1>2, <2>1
  <2> QED
    BY <1>4, <1>9, <1>11, <1>12, <2>1, <2>2
<1>13. Len(parts) # a.count => RunOf(P, a.key) = <<>>
  BY <1>9, <1>10
<1>14. Found(parts, P, a)
  BY <1>1, <1>12, <1>13 DEF Found
<1> QED
  BY <1>b, <1>14

LEMMA CleanRuns ==
  ASSUME NEW q, Sound(q), NEW ref
  PROVE  /\ \A k : RunOf(clean(q, ref), k) \in {RunOf(q, k), <<>>}
         /\ RunOf(clean(q, ref), ref.key) = <<>>
<1> DEFINE r == clean(q, ref)
<1>1. Cleaned(r, q, ref)
  BY CleanIs
<1> HIDE DEF r
<1>2. /\ r \in Seq(Parts) /\ KeepsLater(q, Fresh(q, ref))
      /\ \E at : Chosen(r, Len(q), q, Fresh(q, ref), at)
      /\ Sound(r)
      /\ \A i \in DOMAIN r : r[i].key[1] # ref.key[1]
  BY <1>1 DEF Cleaned
<1>3. \A k : RunOf(r, k) \in {RunOf(q, k), <<>>}
  BY <1>2, KeptRuns
<1>4. ~ \E p \in DOMAIN r : r[p].key = ref.key /\ r[p].number = 1
  BY <1>2
<1>5. RunOf(r, ref.key) = <<>>
  BY <1>2, <1>4, RunFacts
<1> QED
  BY <1>3, <1>5 DEF r

-----------------------------------------------------------------------------
(* The inductive invariant, but for the history `watched`.                 *)

QueueOK ==
  /\ Sound(queue) /\ Len(queue) =< MaxQueue
  /\ \A i \in DOMAIN queue : queue[i].number # queue[i].count

(* While an array is read, a damaged sentence that waits is one of it, and *)
(* only such a one has set the flag.                                       *)
ArrayOK ==
  /\ reading \in BOOLEAN /\ tainted \in BOOLEAN
  /\ reading => /\ tag_error => tainted
                /\ \A i \in DOMAIN queue : queue[i].message_error => tainted

Flags == tag_error \in BOOLEAN /\ sent_error \in BOOLEAN /\ sent \in Seq(Parts)

BInv == QueueOK /\ ArrayOK /\ Flags /\ ErrorExact

-----------------------------------------------------------------------------
(* The steps of the refinement.                                            *)

LEMMA RunIs == \A k : Run(k) = RunOf(queue, k)
BY DEF Run, RunOf

LEMMA RunIsNext == \A k : Run(k)' = RunOf(queue', k)
BY DEF Run, RunOf

LEMMA BareNone == BareAll(<<>>) = <<>>
BY DEF BareAll

(* Whatever a step leaves of what is held, it forgets the rest.            *)
LEMMA ForgetStep ==
  ASSUME \A k : RunOf(queue', k) \in {RunOf(queue, k), <<>>}, sent' = <<>>
  PROVE  Promise!Next
<1> DEFINE old == [k \in Keys |-> Run(k)]
           new == [k \in Keys |-> Run(k)']
<1>1. \A k \in Keys : new[k] \in {old[k], <<>>}
  BY RunIs, RunIsNext
<1>2. new = [k \in Keys |-> new[k]]
  OBVIOUS
<1>3. (BareAll(sent))' = <<>>
  BY BareNone
<1> HIDE DEF old, new
<1>4. Promise!Forgetting(old, new, Keys)
  BY <1>1, <1>2 DEF Promise!Forgetting
<1>5. Promise!Forget(old, new)
  BY <1>3, <1>4 DEF Promise!Forget
<1> QED
  BY <1>5 DEF Promise!Next, old, new

LEMMA ReceiveStep ==
  ASSUME NEW a \in Parts,
         \A k : k # a.key => RunOf(queue', k) \in {RunOf(queue, k), <<>>},
         NEW before \in {RunOf(queue, a.key), <<>>},
         NEW run, run = Promise!Extended(before, Bare(a)),
         IF Len(run) = a.count
           THEN RunOf(queue', a.key) = <<>> /\ (BareAll(sent))' \in {run, <<>>}
           ELSE RunOf(queue', a.key) = run /\ (BareAll(sent))' = <<>>
  PROVE  Promise!Next
<1> DEFINE old == [k \in Keys |-> Run(k)]
           new == [k \in Keys |-> Run(k)']
           s == Bare(a)
<1>0. s \in Sentences /\ s.key = a.key /\ s.count = a.count /\ a.key \in Keys
  BY DEF Bare, Sentences, Keys
<1>1. old[a.key] = RunOf(queue, a.key) /\ new[a.key] = RunOf(queue', a.key)
  BY <1>0, RunIs, RunIsNext
<1>2. \A k \in Keys \ {a.key} : new[k] \in {old[k], <<>>}
  BY RunIs, RunIsNext
<1>3. new = [k \in Keys |-> new[k]]
  OBVIOUS
<1> HIDE DEF old, new
<1>4. Promise!Forgetting(old, new, Keys \ {s.key})
  BY <1>0, <1>2, <1>3 DEF Promise!Forgetting
<1>5. /\ before \in {old[s.key], <<>>}
      /\ IF Len(run) = s.count
           THEN new[s.key] = <<>> /\ (BareAll(sent))' \in {run, <<>>}
           ELSE new[s.key] = run /\ (BareAll(sent))' = <<>>
  BY <1>0, <1>1
<1> HIDE DEF s
<1>6. Promise!Receive(old, new, s)
  BY <1>4, <1>5 DEF Promise!Receive, s
<1> QED
  BY <1>0, <1>6 DEF Promise!Next, old, new

LEMMA ExtendedIs ==
  ASSUME NEW a \in Parts, NEW before \in Seq(Sentences),
         NEW run, run = Promise!Extended(before, Bare(a))
  PROVE  Len(run) = a.count => a.number = a.count
<1>0. a.number \in Nat /\ a.count \in Nat /\ a.count >= 2
  BY PartFacts
<1>1. Bare(a).number = a.number /\ Bare(a) \in Sentences
  BY DEF Bare, Sentences
<1>2. CASE a.number = 1
  <2>1. run = <<Bare(a)>>
    BY <1>1, <1>2 DEF Promise!Extended
  <2>2. Len(run) = 1
    BY <2>1
  <2> QED
    BY <1>0, <2>2
<1>3. CASE a.number # 1 /\ before # <<>> /\ a.number = Len(before) + 1
  <2>1. run = Append(before, Bare(a))
    BY <1>1, <1>3 DEF Promise!Extended
  <2>2. Len(run) = Len(before) + 1
    BY <1>1, <2>1
  <2> QED
    BY <1>3, <2>2
<1>4. CASE a.number # 1 /\ ~(before # <<>> /\ a.number = Len(before) + 1)
  <2>1. run = <<>>
    BY <1>1, <1>4 DEF Promise!Extended
  <2> QED
    BY <1>0, <2>1
<1> QED
  BY <1>2, <1>3, <1>4

(* What a sentence does, whichever way it goes: nothing is queued but what *)
(* was and the sentence, and nothing but these and the flag sets the flag. *)
Processed == QueueOK' /\ Flags' /\ ErrorExact' /\ Promise!Next

Sources(a, error) ==
  /\ \A i \in DOMAIN queue' : queue'[i] = a \/ \E p \in DOMAIN queue : queue'[i] = queue[p]
  /\ tag_error' => error \/ a.message_error \/ \E p \in DOMAIN queue : queue[p].message_error

LEMMA NothingIsExact ==
  ASSUME NothingSent, tag_error' \in BOOLEAN
  PROVE  ErrorExact' /\ Flags' /\ sent' = <<>>
<1>1. sent' = <<>> /\ sent_error' = FALSE /\ DOMAIN <<>> = {} /\ <<>> \in Seq(Parts)
  BY DEF NothingSent
<1> QED
  BY <1>1 DEF ErrorExact, Flags

LEMMA DropStep ==
  ASSUME QueueOK, NEW a \in Parts, NEW error \in BOOLEAN, Drop(a, error)
  PROVE  Processed /\ Sources(a, error)
<1>1. queue' = clean(queue, a) /\ tag_error' = error /\ NothingSent
  BY DEF Drop
<1>2. Sound(queue) /\ Len(queue) =< MaxQueue /\ Len(queue) \in Nat /\ queue \in Seq(Parts)
  BY DEF QueueOK, Sound
<1>3. Cleaned(queue', queue, a)
  BY <1>1, <1>2, CleanIs
<1>4. QueueOK'
  <2>1. /\ Sound(queue') /\ Len(queue') =< Len(queue)
        /\ \A i \in DOMAIN queue' : \E p \in DOMAIN queue : queue'[i] = queue[p]
    BY <1>3 DEF Cleaned
  <2>2. Len(queue') \in Nat /\ MaxQueue \in Nat
    BY <2>1, Headers DEF Sound
  <2>3. Len(queue') =< MaxQueue
    BY <1>2, <2>1, <2>2
  <2>4. \A i \in DOMAIN queue' : queue'[i].number # queue'[i].count
    BY <2>1 DEF QueueOK
  <2>5. (Sound(queue))'
    BY <2>1 DEF Sound, OldestFirst, Increasing, Gapless
  <2> QED
    BY <2>3, <2>4, <2>5 DEF QueueOK
<1>5. \A k : RunOf(queue', k) \in {RunOf(queue, k), <<>>}
  BY <1>1, <1>2, CleanRuns
<1>6. ErrorExact' /\ Flags' /\ sent' = <<>>
  BY <1>1, NothingIsExact
<1>7. Promise!Next
  BY <1>5, <1>6, ForgetStep
<1>8. Sources(a, error)
  BY <1>1, <1>3 DEF Sources, Cleaned
<1> QED
  BY <1>4, <1>6, <1>7, <1>8 DEF Processed

LEMMA WaitStep ==
  ASSUME QueueOK, NEW a \in Parts, a.age = 0, NEW error \in BOOLEAN, Wait(a, error)
  PROVE  Processed /\ Sources(a, error)
<1>1. queue' = Pushed(a) /\ tag_error' = error /\ NothingSent /\ a.number # a.count
  BY DEF Wait
<1>2. Sound(queue) /\ Len(queue) =< MaxQueue
  BY DEF QueueOK
<1>3. Arrived(queue', a)
  BY <1>1, <1>2, PushedIs
<1>4. a.number \in Nat /\ a.count \in Nat /\ a.number # a.count
  BY <1>1, PartFacts
<1>5. QueueOK'
  <2>1. \A i \in DOMAIN queue' : queue'[i].number # queue'[i].count
    BY <1>3, <1>4 DEF Arrived, QueueOK
  <2>2. (Sound(queue))' /\ Len(queue') =< MaxQueue
    BY <1>3 DEF Arrived, Sound, OldestFirst, Increasing, Gapless
  <2> QED
    BY <2>1, <2>2 DEF QueueOK
<1>6. ErrorExact' /\ Flags' /\ sent' = <<>>
  BY <1>1, NothingIsExact
<1>7. PICK before \in {RunOf(queue, a.key), <<>>} :
        RunOf(queue', a.key) = Promise!Extended(before, Bare(a))
  BY <1>3 DEF Arrived
<1> DEFINE run == Promise!Extended(before, Bare(a))
<1>8. before \in Seq(Sentences)
  <2>1. RunOf(queue, a.key) \in Seq(Sentences)
    BY <1>2, RunFacts
  <2>2. <<>> \in Seq(Sentences)
    OBVIOUS
  <2> QED
    BY <2>1, <2>2
<1>9. Len(run) # a.count
  BY <1>1, <1>8, ExtendedIs
<1>10. \A k : k # a.key => RunOf(queue', k) \in {RunOf(queue, k), <<>>}
  BY <1>3 DEF Arrived
<1>11. (BareAll(sent))' = <<>>
  BY <1>6, BareNone
<1> HIDE DEF run
<1>12. Promise!Next
  BY <1>7, <1>9, <1>10, <1>11, ReceiveStep DEF run
<1>13. Sources(a, error)
  BY <1>1, <1>3 DEF Sources, Arrived
<1> QED
  BY <1>5, <1>6, <1>12, <1>13 DEF Processed

LEMMA CompleteStep ==
  ASSUME QueueOK, NEW a \in Parts, a.age = 0, NEW error \in BOOLEAN, error => tainted',
         Complete(a, error)
  PROVE  Processed /\ Sources(a, error)
<1> DEFINE P == Pushed(a)
           parts == Selected(P, Positions(P, a.key))
<1>1. a.number = a.count /\ queue' = clean(P, a)
  BY DEF Complete
<1>2. PICK valid \in BOOLEAN :
        /\ tag_error' = (error \/ \E i \in DOMAIN parts : parts[i].message_error)
        /\ IF Len(parts) = a.count /\ valid
             THEN sent' = parts /\ sent_error' = tag_error'
             ELSE NothingSent
  BY DEF Complete
<1>3. Sound(queue) /\ Len(queue) =< MaxQueue
  BY DEF QueueOK
<1>4. Arrived(P, a)
  BY <1>3, PushedIs
<1> HIDE DEF P
<1>5. /\ parts \in Seq(Parts)
      /\ Len(parts) = a.count =>
           RunOf(P, a.key) = BareAll(parts) /\ Len(BareAll(parts)) = a.count
      /\ Len(parts) # a.count => RunOf(P, a.key) = <<>>
  <2>1. Found(parts, P, a)
    BY <1>1, <1>4, PartsFound
  <2> QED
    BY <2>1 DEF Found
<1>p. \A i \in DOMAIN parts : \E p \in DOMAIN P : parts[i] = P[p]
  <2>1. Found(parts, P, a)
    BY <1>1, <1>4, PartsFound
  <2> QED
    BY <2>1 DEF Found
<1> HIDE DEF parts
<1>6. Sound(P) /\ Len(P) =< MaxQueue /\ Len(P) \in Nat
  BY <1>4 DEF Arrived, Sound
<1>7. Cleaned(queue', P, a)
  BY <1>1, <1>6, CleanIs
<1>8. QueueOK'
  <2>1. /\ Sound(queue') /\ Len(queue') =< Len(P)
        /\ \A i \in DOMAIN queue' : queue'[i].key[1] # a.key[1] /\ \E p \in DOMAIN P : queue'[i] = P[p]
    BY <1>7 DEF Cleaned
  <2>2. Len(queue') \in Nat /\ MaxQueue \in Nat
    BY <2>1, Headers DEF Sound
  <2>3. Len(queue') =< MaxQueue
    BY <1>6, <2>1, <2>2
  <2>4. ASSUME NEW i \in DOMAIN queue'
        PROVE  queue'[i].number # queue'[i].count
    <3>1. PICK p \in DOMAIN P : queue'[i] = P[p]
      BY <2>1
    <3>2. P[p] # a
      BY <2>1, <3>1
    <3>3. \E x \in DOMAIN queue : P[p] = queue[x]
      BY <1>4, <3>2 DEF Arrived
    <3> QED
      BY <3>1, <3>3 DEF QueueOK
  <2>5. (Sound(queue))'
    BY <2>1 DEF Sound, OldestFirst, Increasing, Gapless
  <2> QED
    BY <2>3, <2>4, <2>5 DEF QueueOK
<1>9. tag_error' \in BOOLEAN
  BY <1>2
<1>10. ErrorExact' /\ Flags' /\ sent' \in {parts, <<>>} /\ (Len(parts) # a.count => sent' = <<>>)
  <2>1. CASE Len(parts) = a.count /\ valid
    <3>1. sent' = parts /\ sent_error' = tag_error'
      BY <1>2, <2>1
    <3>2. ErrorExact'
      BY <1>2, <3>1 DEF ErrorExact
    <3> QED
      BY <1>5, <1>9, <2>1, <3>1, <3>2 DEF Flags
  <2>2. CASE ~(Len(parts) = a.count /\ valid)
    <3>1. NothingSent
      BY <1>2, <2>2
    <3>2. ErrorExact' /\ Flags' /\ sent' = <<>>
      BY <1>9, <3>1, NothingIsExact
    <3> QED
      BY <3>2
  <2> QED
    BY <2>1, <2>2
<1>11. /\ \A k : RunOf(queue', k) \in {RunOf(P, k), <<>>}
       /\ RunOf(queue', a.key) = <<>>
  BY <1>1, <1>6, CleanRuns
<1>12. \A k : k # a.key => RunOf(P, k) \in {RunOf(queue, k), <<>>}
  BY <1>4 DEF Arrived
<1>13. \A k : k # a.key => RunOf(queue', k) \in {RunOf(queue, k), <<>>}
  BY <1>11, <1>12
<1>14. PICK before \in {RunOf(queue, a.key), <<>>} :
         RunOf(P, a.key) = Promise!Extended(before, Bare(a))
  BY <1>4 DEF Arrived
<1> DEFINE run == Promise!Extended(before, Bare(a))
<1>15. (BareAll(sent))' = BareAll(sent')
  BY DEF BareAll
<1>16. IF Len(run) = a.count
         THEN RunOf(queue', a.key) = <<>> /\ (BareAll(sent))' \in {run, <<>>}
         ELSE RunOf(queue', a.key) = run /\ (BareAll(sent))' = <<>>
  <2>0. run = RunOf(P, a.key)
    BY <1>14
  <2> HIDE DEF run
  <2>1. CASE Len(parts) = a.count
    <3>1. run = BareAll(parts) /\ Len(run) = a.count
      BY <1>5, <2>0, <2>1
    <3>2. (BareAll(sent))' \in {run, <<>>}
      BY <1>10, <1>15, <3>1, BareNone
    <3> QED
      BY <1>11, <3>1, <3>2
  <2>2. CASE Len(parts) # a.count
    <3>1. run = <<>> /\ (BareAll(sent))' = <<>>
      BY <1>5, <1>10, <1>15, <2>0, <2>2, BareNone
    <3>2. Len(<<>>) = 0 /\ a.count \in Nat /\ a.count >= 2
      BY PartFacts
    <3> QED
      BY <1>11, <3>1, <3>2
  <2> QED
    BY <2>1, <2>2
<1> HIDE DEF run
<1>17. Promise!Next
  BY <1>13, <1>16, ReceiveStep DEF run
<1>18. Sources(a, error)
  <2>1. \A x \in DOMAIN P : P[x] = a \/ \E p \in DOMAIN queue : P[x] = queue[p]
    BY <1>4 DEF Arrived
  <2>2. \A i \in DOMAIN queue' : \E x \in DOMAIN P : queue'[i] = P[x]
    BY <1>7 DEF Cleaned
  <2>3. \A i \in DOMAIN queue' : queue'[i] = a \/ \E p \in DOMAIN queue : queue'[i] = queue[p]
    BY <2>1, <2>2
  <2>4. tag_error' => error \/ a.message_error \/ \E p \in DOMAIN queue : queue[p].message_error
    BY <1>2, <1>p, <2>1
  <2> QED
    BY <2>3, <2>4 DEF Sources
<1> QED
  BY <1>8, <1>10, <1>17, <1>18 DEF Processed

LEMMA ProcessStep ==
  ASSUME QueueOK, NEW a \in Parts, a.age = 0, NEW error \in BOOLEAN, error => tainted',
         processAIS(a, error)
  PROVE  Processed /\ Sources(a, error)
<1>1. CASE Dropped(a)
  <2>1. queue' = queue /\ tag_error' = error /\ NothingSent
    BY <1>1 DEF processAIS
  <2>2. ErrorExact' /\ Flags' /\ sent' = <<>>
    BY <2>1, NothingIsExact
  <2>3. QueueOK'
    BY <2>1 DEF QueueOK, Sound, OldestFirst, Increasing, Gapless
  <2>4. \A k : RunOf(queue', k) \in {RunOf(queue, k), <<>>}
    BY <2>1
  <2>5. Promise!Next
    BY <2>2, <2>4, ForgetStep
  <2>6. Sources(a, error)
    BY <2>1 DEF Sources
  <2> QED
    BY <2>2, <2>3, <2>5, <2>6 DEF Processed
<1>2. CASE Drop(a, error)
  BY <1>2, DropStep
<1>3. CASE Wait(a, error)
  BY <1>3, WaitStep
<1>4. CASE Complete(a, error)
  BY <1>4, CompleteStep
<1> QED
  BY <1>1, <1>2, <1>3, <1>4 DEF processAIS

(* One second on: every sentence is older, and nothing else has changed.   *)
LEMMA TickQueue ==
  ASSUME QueueOK, Tick
  PROVE  /\ queue' \in Seq(Parts) /\ Len(queue') = Len(queue) /\ DOMAIN queue' = DOMAIN queue
         /\ \A i \in DOMAIN queue :
              /\ queue'[i] \in Parts /\ queue'[i].age = Older(queue[i].age)
              /\ queue'[i].key = queue[i].key /\ queue'[i].number = queue[i].number
              /\ queue'[i].count = queue[i].count /\ queue'[i].msg = queue[i].msg
              /\ queue'[i].message_error = queue[i].message_error
              /\ Bare(queue'[i]) = Bare(queue[i])
              /\ queue[i].age \in Nat /\ queue[i].number \in Nat
<1> DEFINE new == [i \in DOMAIN queue |-> [queue[i] EXCEPT !.age = Older(queue[i].age)]]
<1>1. queue' = new
  BY DEF Tick
<1>2. queue \in Seq(Parts) /\ DOMAIN queue = 1 .. Len(queue) /\ Len(queue) \in Nat
  BY DEF QueueOK, Sound
<1>3. \A i \in DOMAIN queue : new[i] = [queue[i] EXCEPT !.age = Older(queue[i].age)]
  OBVIOUS
<1>4. DOMAIN new = DOMAIN queue
  OBVIOUS
<1> HIDE DEF new
<1>5. \A i \in DOMAIN queue :
        /\ new[i] \in Parts /\ new[i].age = Older(queue[i].age)
        /\ new[i].key = queue[i].key /\ new[i].number = queue[i].number
        /\ new[i].count = queue[i].count /\ new[i].msg = queue[i].msg
        /\ new[i].message_error = queue[i].message_error
        /\ Bare(new[i]) = Bare(queue[i])
        /\ queue[i].age \in Nat /\ queue[i].number \in Nat
  <2> TAKE i \in DOMAIN queue
  <2>1. queue[i] \in Parts
    BY <1>2
  <2>2. queue[i].age \in Nat /\ queue[i].age =< MaxAge + 1 /\ MaxAge \in Nat /\ queue[i].number \in Nat
    BY <2>1, PartFacts
  <2> DEFINE e == queue[i]
             x == Older(queue[i].age)
  <2>3. x \in 0 .. MaxAge + 1
    BY <2>2 DEF Older
  <2>4. new[i] = [e EXCEPT !.age = x] /\ e \in Parts
    BY <1>3, <2>1
  <2> HIDE DEF e, x
  <2>5. /\ new[i] \in Parts /\ new[i].age = x
        /\ new[i].key = e.key /\ new[i].number = e.number /\ new[i].count = e.count
        /\ new[i].msg = e.msg /\ Bare(new[i]) = Bare(e) /\ new[i].message_error = e.message_error
    BY <2>3, <2>4, OlderPart
  <2> QED
    BY <2>2, <2>5 DEF e, x
<1>6. new \in Seq(Parts) /\ Len(new) = Len(queue)
  <2>1. new = [i \in 1 .. Len(queue) |-> new[i]]
    BY <1>2 DEF new
  <2>2. \A i \in 1 .. Len(queue) : new[i] \in Parts
    BY <1>2, <1>5
  <2> QED
    BY <1>2, <2>1, <2>2
<1> QED
  BY <1>1, <1>4, <1>5, <1>6

LEMMA TickStep ==
  ASSUME QueueOK, ArrayOK, Flags, Tick
  PROVE  BInv' /\ Promise!Next
<1>1. NothingSent /\ NotReading /\ tag_error' = tag_error
  BY DEF Tick
<1>2. /\ Sound(queue) /\ queue \in Seq(Parts) /\ DOMAIN queue = 1 .. Len(queue) /\ Len(queue) \in Nat
      /\ Len(queue) =< MaxQueue
  BY DEF QueueOK, Sound
<1>5. DOMAIN queue' = DOMAIN queue
  BY TickQueue
<1>6. \A i \in DOMAIN queue :
        /\ queue'[i] \in Parts /\ queue'[i].age = Older(queue[i].age)
        /\ queue'[i].key = queue[i].key /\ queue'[i].number = queue[i].number
        /\ queue'[i].count = queue[i].count /\ Bare(queue'[i]) = Bare(queue[i])
        /\ queue[i].age \in Nat /\ queue[i].number \in Nat
  BY TickQueue
<1>7. queue' \in Seq(Parts) /\ Len(queue') = Len(queue)
  BY TickQueue
<1>8. OldestFirst(queue')
  <2> SUFFICES ASSUME NEW i \in DOMAIN queue, NEW j \in DOMAIN queue, i < j
               PROVE  queue'[i].age >= queue'[j].age
    BY <1>5 DEF OldestFirst
  <2>1. queue[i].age >= queue[j].age /\ queue[i].age \in Nat /\ queue[j].age \in Nat
    BY <1>2, <1>6 DEF Sound, OldestFirst
  <2>2. MaxAge \in Nat
    BY Headers
  <2>3. Older(queue[i].age) >= Older(queue[j].age)
    BY <2>1, <2>2 DEF Older
  <2> QED
    BY <1>6, <2>3
<1>9. Increasing(queue') /\ Gapless(queue')
  <2>1. Increasing(queue) /\ Gapless(queue)
    BY <1>2 DEF Sound
  <2>2. Increasing(queue')
    BY <1>5, <1>6, <2>1 DEF Increasing
  <2>3. Gapless(queue')
    BY <1>5, <1>6, <2>1 DEF Gapless
  <2> QED
    BY <2>2, <2>3
<1>10. Sound(queue')
  BY <1>7, <1>8, <1>9 DEF Sound
<1>11. QueueOK'
  <2>1. (Sound(queue))' /\ Len(queue') =< MaxQueue
    BY <1>2, <1>7, <1>10 DEF Sound, OldestFirst, Increasing, Gapless
  <2>2. \A i \in DOMAIN queue' : queue'[i].number # queue'[i].count
    BY <1>5, <1>6 DEF QueueOK
  <2> QED
    BY <2>1, <2>2 DEF QueueOK
<1>12. ErrorExact' /\ Flags' /\ sent' = <<>>
  <2>1. tag_error' \in BOOLEAN
    BY <1>1 DEF Flags
  <2> QED
    BY <1>1, <2>1, NothingIsExact
<1>13. ArrayOK'
  BY <1>1 DEF ArrayOK, NotReading
<1>14. ASSUME NEW k
       PROVE  RunOf(queue', k) \in {RunOf(queue, k), <<>>}
  <2> DEFINE g == RunOf(queue, k)
             r == RunOf(queue', k)
  <2>0. Sound(queue)
    BY <1>2
  <2>1. /\ g \in Seq(Sentences)
        /\ (\E p \in DOMAIN queue : queue[p].key = k /\ queue[p].number = 1) <=> g # <<>>
        /\ \A i \in 1 .. Len(g) : g[i].key = k /\ g[i].number = i
             /\ \E p \in DOMAIN queue : queue[p].key = k /\ queue[p].number = i /\ g[i] = Bare(queue[p])
        /\ g # <<>> => \A p \in DOMAIN queue : queue[p].key = k =>
             queue[p].number \in 1 .. Len(g) /\ g[queue[p].number] = Bare(queue[p])
    BY <2>0, RunFacts
  <2> HIDE DEF g
  <2>2. CASE g = <<>>
    <3>1. ~ \E p \in DOMAIN queue' : queue'[p].key = k /\ queue'[p].number = 1
      BY <1>5, <1>6, <2>1, <2>2
    <3>2. r = <<>>
      BY <1>10, <3>1, RunFacts
    <3> QED
      BY <3>2
  <2>3. CASE g # <<>>
    <3>1. Len(g) \in Nat /\ Len(g) >= 1
      BY <2>1, <2>3
    <3>2. \A i \in 1 .. Len(g) : \E p \in DOMAIN queue' :
            queue'[p].key = k /\ queue'[p].number = i /\ g[i] = Bare(queue'[p])
      BY <1>5, <1>6, <2>1
    <3>3. \A p \in DOMAIN queue' : queue'[p].key = k => queue'[p].number # Len(g) + 1
      <4> SUFFICES ASSUME NEW p \in DOMAIN queue', queue'[p].key = k
                   PROVE  queue'[p].number # Len(g) + 1
        OBVIOUS
      <4>1. p \in DOMAIN queue /\ queue[p].key = k /\ queue'[p].number = queue[p].number
        BY <1>5, <1>6
      <4>2. queue[p].number \in 1 .. Len(g)
        BY <2>1, <2>3, <4>1
      <4> QED
        BY <3>1, <4>1, <4>2
    <3>4. g \in Seq(Sentences) /\ Sound(queue')
      BY <1>10, <2>1
    <3>5. RunOf(queue', k) = g
      BY <3>1, <3>2, <3>3, <3>4, RunUnique
    <3> QED
      BY <3>5 DEF g
  <2> QED
    BY <2>2, <2>3
<1>15. Promise!Next
  BY <1>12, <1>14, ForgetStep
<1> QED
  BY <1>11, <1>12, <1>13, <1>15 DEF BInv

LEMMA NoneQueued == Sound(<<>>) /\ \A k : RunOf(<<>>, k) = <<>>
<1>1. <<>> \in Seq(Parts) /\ DOMAIN <<>> = {}
  OBVIOUS
<1>2. Sound(<<>>)
  BY <1>1 DEF Sound, OldestFirst, Increasing, Gapless
<1>3. ASSUME NEW k
      PROVE  RunOf(<<>>, k) = <<>>
  <2>1. ~ \E p \in DOMAIN <<>> : <<>>[p].key = k /\ <<>>[p].number = 1
    BY <1>1
  <2> QED
    BY <1>2, <2>1, RunFacts
<1> QED
  BY <1>2, <1>3

LEMMA LineStep ==
  ASSUME BInv, NEW m \in Names, NEW n \in 1 .. MaxNumber, NEW bad \in BOOLEAN,
         Line(m, n, bad)
  PROVE  BInv' /\ Promise!Next
<1> DEFINE a == AIVDM(Message[m], m, n, bad)
<1>1. a \in Parts /\ a.age = 0
  BY AIVDMIsPart
<1>2. processAIS(a, FALSE) /\ NotReading
  BY DEF Line
<1> HIDE DEF a
<1>3. Processed
  BY <1>1, <1>2, ProcessStep DEF BInv
<1>4. ArrayOK'
  BY <1>2 DEF ArrayOK, NotReading
<1> QED
  BY <1>3, <1>4 DEF BInv, Processed

LEMMA JSONObjectStep ==
  ASSUME BInv, JSONObject
  PROVE  BInv' /\ Promise!Next
<1>1. queue' = <<>> /\ tag_error' = FALSE /\ NothingSent /\ reading' = TRUE /\ tainted' = FALSE
  BY DEF JSONObject
<1>2. Len(<<>>) = 0 /\ DOMAIN <<>> = {} /\ MaxQueue \in Nat
  BY Headers
<1>3. ArrayOK'
  BY <1>1, <1>2 DEF ArrayOK
<1>4. QueueOK'
  <2>1. (Sound(queue))'
    BY <1>1, NoneQueued DEF Sound, OldestFirst, Increasing, Gapless
  <2> QED
    BY <1>1, <1>2, <2>1 DEF QueueOK
<1>5. ErrorExact' /\ Flags' /\ sent' = <<>>
  BY <1>1, NothingIsExact
<1>6. \A k : RunOf(queue', k) \in {RunOf(queue, k), <<>>}
  BY <1>1, NoneQueued
<1>7. Promise!Next
  BY <1>5, <1>6, ForgetStep
<1> QED
  BY <1>3, <1>4, <1>5, <1>7 DEF BInv

LEMMA JSONSentenceStep ==
  ASSUME BInv, NEW m \in Names, NEW n \in 1 .. MaxNumber, NEW bad \in BOOLEAN,
         JSONSentence(m, n, bad)
  PROVE  BInv' /\ Promise!Next
<1> DEFINE a == AIVDM(Ungrouped(m), m, n, bad)
<1>1. a \in Parts /\ a.age = 0 /\ a.message_error = bad
  BY AIVDMIsPart
<1>2. processAIS(a, tag_error) /\ reading /\ reading' = reading /\ tainted' = (tainted \/ bad)
  BY DEF JSONSentence
<1> HIDE DEF a
<1>3. /\ tag_error \in BOOLEAN /\ tainted \in BOOLEAN /\ reading \in BOOLEAN
      /\ tag_error => tainted
      /\ \A p \in DOMAIN queue : queue[p].message_error => tainted
  BY <1>2 DEF BInv, Flags, ArrayOK
<1>4. Processed /\ Sources(a, tag_error)
  <2>1. tag_error => tainted'
    BY <1>2, <1>3
  <2> QED
    BY <1>1, <1>2, <1>3, <2>1, ProcessStep DEF BInv
<1>5. ArrayOK'
  <2>1. tag_error' => tainted'
    BY <1>1, <1>2, <1>3, <1>4 DEF Sources
  <2>2. \A i \in DOMAIN queue' : queue'[i].message_error => tainted'
    BY <1>1, <1>2, <1>3, <1>4 DEF Sources
  <2>3. reading' \in BOOLEAN /\ tainted' \in BOOLEAN
    BY <1>2, <1>3
  <2> QED
    BY <2>1, <2>2, <2>3 DEF ArrayOK
<1> QED
  BY <1>4, <1>5 DEF BInv, Processed

LEMMA JSONSingleStep ==
  ASSUME BInv, NEW bad \in BOOLEAN, JSONSingle(bad)
  PROVE  BInv' /\ Promise!Next
<1>1. /\ queue' = queue /\ reading /\ reading' = reading
      /\ tag_error' = bad /\ tainted' = (tainted \/ bad) /\ NothingSent
  BY DEF JSONSingle
<1>2. ErrorExact' /\ Flags' /\ sent' = <<>>
  BY <1>1, NothingIsExact
<1>3. QueueOK'
  BY <1>1 DEF BInv, QueueOK, Sound, OldestFirst, Increasing, Gapless
<1>4. ArrayOK'
  BY <1>1 DEF BInv, ArrayOK
<1>5. Promise!Next
  BY <1>1, <1>2, ForgetStep
<1> QED
  BY <1>2, <1>3, <1>4, <1>5 DEF BInv

LEMMA BInvInit == Init => BInv /\ Promise!Init
<1> SUFFICES ASSUME Init
             PROVE  BInv /\ Promise!Init
  OBVIOUS
<1>1. /\ queue = <<>> /\ reading = FALSE /\ tainted = FALSE
      /\ tag_error = FALSE /\ sent = <<>> /\ sent_error = FALSE
  BY DEF Init
<1>2. Len(<<>>) = 0 /\ DOMAIN <<>> = {} /\ <<>> \in Seq(Parts) /\ MaxQueue \in Nat
  BY Headers
<1>3. QueueOK
  BY <1>1, <1>2, NoneQueued DEF QueueOK
<1>4. ArrayOK /\ Flags /\ ErrorExact
  BY <1>1, <1>2 DEF ArrayOK, Flags, ErrorExact
<1>5. \A k : Run(k) = <<>>
  BY <1>1, NoneQueued, RunIs
<1>6. BareAll(sent) = <<>>
  BY <1>1, BareNone
<1>7. Promise!Init
  BY <1>5, <1>6 DEF Promise!Init
<1> QED
  BY <1>3, <1>4, <1>7 DEF BInv

LEMMA BInvStep == BInv /\ [Next]_vars => BInv' /\ [Promise!Next]_Promise!vars
<1> SUFFICES ASSUME BInv, [Next]_vars
             PROVE  BInv' /\ [Promise!Next]_Promise!vars
  OBVIOUS
<1>1. ASSUME NEW m \in Names, NEW n \in 1 .. MaxNumber, NEW bad \in BOOLEAN,
             Line(m, n, bad)
      PROVE  BInv' /\ Promise!Next
  BY <1>1, LineStep
<1>2. CASE JSONObject
  BY <1>2, JSONObjectStep
<1>3. ASSUME NEW m \in Names, NEW n \in 1 .. MaxNumber, NEW bad \in BOOLEAN,
             JSONSentence(m, n, bad)
      PROVE  BInv' /\ Promise!Next
  BY <1>3, JSONSentenceStep
<1>6. ASSUME NEW bad \in BOOLEAN, JSONSingle(bad)
      PROVE  BInv' /\ Promise!Next
  BY <1>6, JSONSingleStep
<1>4. CASE Tick
  BY <1>4, TickStep DEF BInv
<1>5. CASE UNCHANGED vars
  <2>1. /\ queue' = queue /\ tag_error' = tag_error /\ sent' = sent /\ sent_error' = sent_error
        /\ reading' = reading /\ tainted' = tainted
    BY <1>5 DEF vars
  <2>2. BInv'
    BY <2>1 DEF BInv, QueueOK, Sound, OldestFirst, Increasing, Gapless, ArrayOK, Flags, ErrorExact
  <2>3. \A k : Run(k)' = Run(k)
    BY <2>1, RunIs, RunIsNext
  <2>4. (BareAll(sent))' = BareAll(sent)
    BY <2>1 DEF BareAll
  <2>5. UNCHANGED Promise!vars
    BY <2>3, <2>4 DEF Promise!vars
  <2> QED
    BY <2>2, <2>5
<1> QED
  BY <1>1, <1>2, <1>3, <1>4, <1>5, <1>6 DEF Next

-----------------------------------------------------------------------------
(* The history of a message that is followed.                              *)

Followee(m, k, p, u, g) ==
  [msg |-> m, key |-> k, parts |-> p, pushed |-> u, age |-> g]

(* q has the first p parts of m, under the key k and no others: none came  *)
(* in before the last u + 1 sentences, or more than g seconds ago.         *)
Has(q, m, k, p, u, g) ==
  /\ \A n \in 1 .. p : \E i \in DOMAIN q :
       /\ q[i].key = k /\ q[i].number = n /\ q[i].msg = m /\ ~q[i].message_error
       /\ q[i].age =< g /\ Len(q) - i =< u
  /\ \A i \in DOMAIN q : q[i].key = k => q[i].number =< p

Following(q, m, k, p, u, g) ==
  /\ p >= 1 /\ p < Message[m].count /\ u =< MaxQueue - 1 /\ g =< MaxAge
  /\ Has(q, m, k, p, u, g)

SentAll(s, m) ==
  Len(s) = Message[m].count /\ \A i \in DOMAIN s : s[i].msg = m /\ s[i].number = i

Watched(w, q, s) ==
  \/ w = Unwatched
  \/ \E m \in Names, p, u, g \in Nat : \E k :
       /\ w = Followee(m, k, p, u, g)
       /\ (p = Message[m].count /\ SentAll(s, m)) \/ Following(q, m, k, p, u, g)

Watching == Watched(watched, queue, sent)

LEMMA HasCleaned ==
  ASSUME NEW q, Sound(q), NEW ref, NEW m, NEW k, NEW p \in Nat, NEW u \in Nat, NEW g \in Nat,
         Has(q, m, k, p, u, g), g =< MaxAge, ref.key[1] # k[1]
  PROVE  Has(clean(q, ref), m, k, p, u, g)
<1> DEFINE r == clean(q, ref)
<1>0. q \in Seq(Parts)
  BY DEF Sound
<1>1. Cleaned(r, q, ref)
  BY CleanIs
<1> HIDE DEF r
<1>2. /\ r \in Seq(Parts)
      /\ \A i \in DOMAIN r : \E j \in DOMAIN q : r[i] = q[j]
  BY <1>1 DEF Cleaned
<1>3. PICK at : Chosen(r, Len(q), q, Fresh(q, ref), at)
  BY <1>1 DEF Cleaned
<1>4. /\ \A i \in DOMAIN r : at[i] \in DOMAIN q /\ r[i] = q[at[i]]
      /\ \A i \in DOMAIN r : Len(q) - at[i] >= Len(r) - i
      /\ \A j \in DOMAIN q : j \in Fresh(q, ref) => \E i \in DOMAIN r : at[i] = j
      /\ Len(q) \in Nat /\ Len(r) \in Nat /\ DOMAIN r = 1 .. Len(r) /\ DOMAIN q = 1 .. Len(q)
  BY <1>0, <1>2, <1>3, ChosenAt
<1>5. ASSUME NEW n \in 1 .. p
      PROVE  \E i \in DOMAIN r :
               /\ r[i].key = k /\ r[i].number = n /\ r[i].msg = m /\ ~r[i].message_error
               /\ r[i].age =< g /\ Len(r) - i =< u
  <2>1. PICK j \in DOMAIN q : /\ q[j].key = k /\ q[j].number = n /\ q[j].msg = m /\ ~q[j].message_error
                              /\ q[j].age =< g /\ Len(q) - j =< u
    BY DEF Has
  <2>2. q[j].age \in Nat /\ MaxAge \in Nat
    <3>1. q[j] \in Parts
      BY <1>0
    <3> QED
      BY <3>1, PartFacts
  <2>3. j \in Fresh(q, ref)
    BY <2>1, <2>2 DEF Fresh
  <2>4. PICK i \in DOMAIN r : at[i] = j
    BY <1>4, <2>3
  <2>5. Len(q) - j >= Len(r) - i /\ r[i] = q[j]
    BY <1>4, <2>4
  <2>6. Len(r) - i =< u
    <3>1. i \in Int /\ j \in Int
      BY <1>4
    <3> QED
      BY <1>4, <2>1, <2>5, <3>1
  <2> QED
    BY <2>1, <2>5, <2>6
<1>6. \A i \in DOMAIN r : r[i].key = k => r[i].number =< p
  BY <1>2 DEF Has
<1> QED
  BY <1>5, <1>6 DEF Has, r

LEMMA HasRoom ==
  ASSUME NEW q, Sound(q), Len(q) =< MaxQueue, MaxQueue \in Nat, NEW m, NEW k,
         NEW p \in Nat, NEW u \in Nat, NEW g \in Nat, Has(q, m, k, p, u, g), u + 1 < MaxQueue
  PROVE  Has(Room(q), m, k, p, u, g)
<1> DEFINE r == Room(q)
<1>0. q \in Seq(Parts) /\ Len(q) \in Nat /\ DOMAIN q = 1 .. Len(q) /\ MaxQueue >= 1
  BY DEF Sound
<1>1. /\ \A i \in DOMAIN r : \E j \in DOMAIN q : r[i] = q[j] /\ Len(r) - i = Len(q) - j
      /\ \A j \in DOMAIN q : j >= 2 \/ Len(q) < MaxQueue =>
           \E i \in DOMAIN r : r[i] = q[j] /\ Len(r) - i = Len(q) - j
  BY <1>0, RoomIs
<1> HIDE DEF r
<1>2. ASSUME NEW n \in 1 .. p
      PROVE  \E i \in DOMAIN r :
               /\ r[i].key = k /\ r[i].number = n /\ r[i].msg = m /\ ~r[i].message_error
               /\ r[i].age =< g /\ Len(r) - i =< u
  <2>1. PICK j \in DOMAIN q : /\ q[j].key = k /\ q[j].number = n /\ q[j].msg = m /\ ~q[j].message_error
                              /\ q[j].age =< g /\ Len(q) - j =< u
    BY DEF Has
  <2>2. j >= 2 \/ Len(q) < MaxQueue
    BY <1>0, <2>1
  <2>3. PICK i \in DOMAIN r : r[i] = q[j] /\ Len(r) - i = Len(q) - j
    BY <1>1, <2>2
  <2> QED
    BY <2>1, <2>3
<1>3. \A i \in DOMAIN r : r[i].key = k => r[i].number =< p
  BY <1>1 DEF Has
<1> QED
  BY <1>2, <1>3 DEF Has, r

LEMMA HasAppended ==
  ASSUME NEW q \in Seq(Parts), NEW a \in Parts, a.age = 0, NEW m, NEW k,
         NEW p \in Nat, NEW u \in Nat, NEW g \in Nat, Has(q, m, k, p, u, g)
  PROVE  /\ a.key # k => Has(Append(q, a), m, k, p, u + 1, g)
         /\ a.key = k /\ a.msg = m /\ a.number = p + 1 /\ ~a.message_error
              => Has(Append(q, a), m, k, p + 1, u + 1, g)
<1> DEFINE r == Append(q, a)
<1>0. /\ Len(q) \in Nat /\ DOMAIN q = 1 .. Len(q) /\ Len(r) = Len(q) + 1
      /\ DOMAIN r = 1 .. Len(q) + 1 /\ r[Len(q) + 1] = a /\ \A i \in DOMAIN q : r[i] = q[i]
  OBVIOUS
<1> HIDE DEF r
<1>1. \A i \in DOMAIN r : i = Len(q) + 1 \/ i \in DOMAIN q
  BY <1>0
<1>2. ASSUME NEW n \in 1 .. p
      PROVE  \E i \in DOMAIN r :
               /\ r[i].key = k /\ r[i].number = n /\ r[i].msg = m /\ ~r[i].message_error
               /\ r[i].age =< g /\ Len(r) - i =< u + 1
  <2>1. PICK j \in DOMAIN q : /\ q[j].key = k /\ q[j].number = n /\ q[j].msg = m /\ ~q[j].message_error
                              /\ q[j].age =< g /\ Len(q) - j =< u
    BY DEF Has
  <2>2. j \in DOMAIN r /\ r[j] = q[j] /\ Len(r) - j =< u + 1
    BY <1>0, <2>1
  <2> QED
    BY <2>1, <2>2
<1>3. \A i \in DOMAIN q : q[i].key = k => q[i].number =< p
  BY DEF Has
<1>4. ASSUME a.key # k
      PROVE  Has(r, m, k, p, u + 1, g)
  <2>1. \A i \in DOMAIN r : r[i].key = k => r[i].number =< p
    BY <1>0, <1>1, <1>3, <1>4
  <2> QED
    BY <1>2, <2>1 DEF Has
<1>5. ASSUME a.key = k, a.msg = m, a.number = p + 1, ~a.message_error
      PROVE  Has(r, m, k, p + 1, u + 1, g)
  <2>1. ASSUME NEW i \in DOMAIN r, r[i].key = k
        PROVE  r[i].number =< p + 1
    <3>1. CASE i = Len(q) + 1
      BY <1>0, <1>5, <3>1
    <3>2. CASE i \in DOMAIN q
      <4>1. q[i] \in Parts
        BY <3>2
      <4>2. q[i].number \in Nat
        BY <4>1, PartFacts
      <4> QED
        BY <1>0, <1>3, <2>1, <3>2, <4>2
    <3> QED
      BY <1>1, <3>1, <3>2
  <2>2. ASSUME NEW n \in 1 .. (p + 1)
        PROVE  \E i \in DOMAIN r :
                 /\ r[i].key = k /\ r[i].number = n /\ r[i].msg = m /\ ~r[i].message_error
                 /\ r[i].age =< g /\ Len(r) - i =< u + 1
    <3>1. CASE n = p + 1
      <4>1. /\ Len(q) + 1 \in DOMAIN r /\ r[Len(q) + 1] = a /\ a.age =< g
            /\ Len(r) - (Len(q) + 1) =< u + 1
        BY <1>0
      <4> QED
        BY <1>5, <3>1, <4>1
    <3>2. CASE n # p + 1
      <4>1. n \in 1 .. p
        BY <3>2
      <4> QED
        BY <1>2, <4>1
    <3> QED
      BY <3>1, <3>2
  <2> QED
    BY <2>1, <2>2 DEF Has
<1> QED
  BY <1>4, <1>5 DEF r

(* The next sentence of the message that is followed finds its place.      *)
LEMMA NextOfFollowed ==
  ASSUME QueueOK, NEW a \in Parts, a.age = 0, NEW p \in Nat, NEW u \in Nat, NEW g \in Nat,
         p >= 1, u + 1 < MaxQueue, Has(queue, a.msg, a.key, p, u, g),
         a.number = p + 1, ~a.message_error
  PROVE  Successor(a) /\ Has(Pushed(a), a.msg, a.key, p + 1, u + 1, g)
<1>0. Sound(queue) /\ Len(queue) =< MaxQueue /\ queue \in Seq(Parts) /\ MaxQueue \in Nat
  BY Headers DEF QueueOK, Sound
<1>1. PICK i \in DOMAIN queue : queue[i].key = a.key /\ queue[i].number = p
  <2>1. p \in 1 .. p
    OBVIOUS
  <2> QED
    BY <2>1 DEF Has
<1>2. /\ queue[i].number =< search(a.key)
      /\ \E j \in DOMAIN queue : queue[j].key = a.key /\ queue[j].number = search(a.key)
  BY <1>0, <1>1, SearchIs
<1>3. PICK j \in DOMAIN queue : queue[j].key = a.key /\ queue[j].number = search(a.key)
  BY <1>2
<1>4. queue[j].number =< p
  BY <1>3 DEF Has
<1>5. queue[j] \in Parts
  BY <1>0
<1>6. queue[j].number \in Nat
  BY <1>5, PartFacts
<1>7. search(a.key) = p
  BY <1>1, <1>2, <1>3, <1>4, <1>6
<1>8. Successor(a)
  BY <1>7 DEF Successor
<1>9. Pushed(a) = Append(Room(queue), a)
  BY <1>8 DEF Pushed, Continued, Room
<1>10. Has(Room(queue), a.msg, a.key, p, u, g)
  BY <1>0, HasRoom
<1>11. Sound(Room(queue))
  BY <1>0, RoomIs
<1>12. Room(queue) \in Seq(Parts)
  BY <1>11 DEF Sound
<1>13. Has(Append(Room(queue), a), a.msg, a.key, p + 1, u + 1, g)
  BY <1>10, <1>12, HasAppended
<1> QED
  BY <1>8, <1>9, <1>13

(* A sentence of another talker, channel or group does not disturb it.     *)
LEMMA OtherThanFollowed ==
  ASSUME QueueOK, NEW a \in Parts, a.age = 0, NEW m, NEW k, NEW p \in Nat, NEW u \in Nat, NEW g \in Nat,
         u + 1 < MaxQueue, g =< MaxAge, Has(queue, m, k, p, u, g), a.key[1] # k[1]
  PROVE  Has(Pushed(a), m, k, p, u + 1, g)
<1>0. Sound(queue) /\ Len(queue) =< MaxQueue /\ Len(queue) \in Nat /\ MaxQueue \in Nat
  BY Headers DEF QueueOK, Sound
<1> DEFINE c == Continued(a)
<1>1. Sound(c) /\ Len(c) =< Len(queue)
  BY <1>0, ContinuedIs
<1>2. Has(c, m, k, p, u, g)
  <2>1. CASE Successor(a)
    BY <2>1 DEF Continued
  <2>2. CASE ~Successor(a)
    <3>1. Has(clean(queue, a), m, k, p, u, g)
      BY <1>0, HasCleaned
    <3> QED
      BY <2>2, <3>1 DEF Continued
  <2> QED
    BY <2>1, <2>2
<1>3. Pushed(a) = Append(Room(c), a)
  BY DEF Pushed, Room
<1> HIDE DEF c
<1>4. Len(c) =< MaxQueue /\ MaxQueue >= 1
  <2>1. Len(c) \in Nat
    BY <1>1 DEF Sound
  <2> QED
    BY <1>0, <1>1, <2>1
<1>5. Has(Room(c), m, k, p, u, g)
  BY <1>0, <1>1, <1>2, <1>4, HasRoom
<1>6. Sound(Room(c))
  BY <1>0, <1>1, <1>4, RoomIs
<1>7. Room(c) \in Seq(Parts)
  BY <1>6 DEF Sound
<1>8. Has(Append(Room(c), a), m, k, p, u + 1, g)
  <2>1. a.key # k
    OBVIOUS
  <2> QED
    BY <1>5, <1>7, <2>1, HasAppended
<1> QED
  BY <1>3, <1>8

LEMMA HasLonger ==
  ASSUME NEW q \in Seq(Parts), NEW m, NEW k, NEW p \in Nat, NEW u \in Nat, NEW g \in Nat,
         Has(q, m, k, p, u, g)
  PROVE  Has(q, m, k, p, u + 1, g)
<1>1. Len(q) \in Nat /\ DOMAIN q = 1 .. Len(q)
  OBVIOUS
<1>2. ASSUME NEW n \in 1 .. p
      PROVE  \E i \in DOMAIN q : /\ q[i].key = k /\ q[i].number = n /\ q[i].msg = m /\ ~q[i].message_error
                                 /\ q[i].age =< g /\ Len(q) - i =< u + 1
  <2>1. PICK i \in DOMAIN q : /\ q[i].key = k /\ q[i].number = n /\ q[i].msg = m /\ ~q[i].message_error
                              /\ q[i].age =< g /\ Len(q) - i =< u
    BY DEF Has
  <2>2. Len(q) - i =< u + 1
    BY <1>1, <2>1
  <2> QED
    BY <2>1, <2>2
<1>3. \A i \in DOMAIN q : q[i].key = k => q[i].number =< p
  BY DEF Has
<1> QED
  BY <1>2, <1>3 DEF Has

(* Its last sentence completes it: all parts are found, and no others.     *)
LEMMA FollowedSent ==
  ASSUME QueueOK, NEW a \in Parts, a.age = 0, NEW error \in BOOLEAN, Complete(a, error),
         NEW u \in Nat, NEW g \in Nat,
         Has(Pushed(a), a.msg, a.key, a.count, u, g)
  PROVE  Len(sent') = a.count /\ \A i \in DOMAIN sent' : sent'[i].msg = a.msg /\ sent'[i].number = i
<1> DEFINE P == Pushed(a)
           parts == Selected(P, Positions(P, a.key))
<1>0. a.number = a.count /\ a.count \in Nat /\ a.count >= 2
  BY PartFacts DEF Complete
<1>1. PICK valid \in BOOLEAN :
        /\ Intact(parts) => valid
        /\ IF Len(parts) = a.count /\ valid
             THEN sent' = parts /\ sent_error' = tag_error'
             ELSE NothingSent
  BY DEF Complete
<1>2. Sound(queue) /\ Len(queue) =< MaxQueue
  BY DEF QueueOK
<1>3. Arrived(P, a) /\ Has(P, a.msg, a.key, a.count, u, g)
  BY <1>2, PushedIs
<1> HIDE DEF P
<1>4. /\ parts \in Seq(Parts)
      /\ Len(parts) = a.count =>
           /\ RunOf(P, a.key) = BareAll(parts) /\ Len(BareAll(parts)) = a.count
           /\ \A i \in DOMAIN parts : parts[i].number = i
      /\ Len(parts) # a.count => RunOf(P, a.key) = <<>>
  <2>1. Found(parts, P, a)
    BY <1>0, <1>3, PartsFound
  <2> HIDE DEF parts
  <2> QED
    BY <2>1 DEF Found
<1>5. \A i \in DOMAIN parts : parts[i].key = a.key /\ \E x \in DOMAIN P : parts[i] = P[x]
  BY <1>3, OfKey DEF Arrived
<1> HIDE DEF parts
<1>6. Sound(P)
  BY <1>3 DEF Arrived
<1>7. RunOf(P, a.key) # <<>>
  <2>1. 1 \in 1 .. a.count
    BY <1>0
  <2>2. \E x \in DOMAIN P : P[x].key = a.key /\ P[x].number = 1
    BY <1>3, <2>1 DEF Has
  <2> QED
    BY <1>6, <2>2, RunFacts
<1>8. Len(parts) = a.count /\ \A i \in DOMAIN parts : parts[i].number = i
  BY <1>4, <1>7
<1>9. DOMAIN parts = 1 .. a.count
  BY <1>4, <1>8
<1>10. ASSUME NEW i \in DOMAIN parts
       PROVE  parts[i].msg = a.msg /\ ~parts[i].message_error
  <2>1. PICK x \in DOMAIN P : parts[i] = P[x] /\ P[x].key = a.key /\ P[x].number = i
    BY <1>5, <1>8
  <2>2. PICK y \in DOMAIN P : P[y].key = a.key /\ P[y].number = i /\ P[y].msg = a.msg /\ ~P[y].message_error
    BY <1>3, <1>9 DEF Has
  <2>3. P \in Seq(Parts) /\ Increasing(P) /\ DOMAIN P = 1 .. Len(P) /\ Len(P) \in Nat
    BY <1>6 DEF Sound
  <2>4. ~(x < y) /\ ~(y < x)
    <3>1. P[x].number = P[y].number /\ P[x].number \in Int /\ P[x].key = P[y].key
      BY <1>9, <2>1, <2>2
    <3>2. x < y => P[x].number < P[y].number
      BY <2>3, <3>1 DEF Increasing
    <3>3. y < x => P[y].number < P[x].number
      BY <2>3, <3>1 DEF Increasing
    <3> QED
      BY <3>1, <3>2, <3>3
  <2>5. x = y
    BY <2>3, <2>4
  <2> QED
    BY <2>1, <2>2, <2>5
<1>11. Intact(parts)
  <2>1. 1 \in DOMAIN parts
    BY <1>0, <1>9
  <2> QED
    BY <1>10, <2>1 DEF Intact
<1>12. sent' = parts
  BY <1>1, <1>8, <1>11
<1> QED
  BY <1>8, <1>10, <1>12

LEMMA FolloweeIs ==
  ASSUME NEW m \in Names, NEW k, NEW p \in Nat, NEW u \in Nat, NEW g \in Nat,
         watched = Followee(m, k, p, u, g)
  PROVE  /\ p # 0 => watched # Unwatched
         /\ watched.msg = m /\ watched.key = k /\ watched.parts = p
         /\ watched.pushed = u /\ watched.age = g
         /\ [watched EXCEPT !.parts = watched.parts + 1, !.pushed = watched.pushed + 1]
              = Followee(m, k, p + 1, u + 1, g)
         /\ [watched EXCEPT !.pushed = watched.pushed + 1] = Followee(m, k, p, u + 1, g)
         /\ [watched EXCEPT !.age = watched.age + 1] = Followee(m, k, p, u, g + 1)
<1>0. p # 0 => watched # Unwatched
  BY DEF Unwatched, Followee
<1>1. /\ watched.msg = m /\ watched.key = k /\ watched.parts = p
      /\ watched.pushed = u /\ watched.age = g
  BY DEF Followee
<1>2. [watched EXCEPT !.parts = watched.parts + 1, !.pushed = watched.pushed + 1]
        = Followee(m, k, p + 1, u + 1, g)
  <2> DEFINE x == p + 1
             y == u + 1
  <2>1. x = watched.parts + 1 /\ y = watched.pushed + 1
    BY <1>1
  <2> HIDE DEF x, y
  <2> DEFINE w == [watched EXCEPT !.parts = x]
  <2>2. [watched EXCEPT !.parts = x, !.pushed = y] = [w EXCEPT !.pushed = y]
    BY DEF Followee
  <2>3. w = Followee(m, k, x, u, g)
    BY DEF Followee
  <2> HIDE DEF w
  <2>4. [w EXCEPT !.pushed = y] = Followee(m, k, x, y, g)
    BY <2>3 DEF Followee
  <2>5. [watched EXCEPT !.parts = x, !.pushed = y] = Followee(m, k, x, y, g)
    BY <2>2, <2>4
  <2> QED
    BY <2>1, <2>5 DEF x, y
<1>3. [watched EXCEPT !.pushed = watched.pushed + 1] = Followee(m, k, p, u + 1, g)
  BY DEF Followee
<1>4. [watched EXCEPT !.age = watched.age + 1] = Followee(m, k, p, u, g + 1)
  BY DEF Followee
<1> QED
  BY <1>0, <1>1, <1>2, <1>3, <1>4

LEMMA FinishedIs ==
  ASSUME NEW m \in Names, NEW k, NEW p \in Nat, NEW u \in Nat, NEW g \in Nat,
         watched = Followee(m, k, p, u, g)
  PROVE  Finished <=> p = Message[m].count
<1>1. watched.parts = p /\ watched.msg = m /\ (p # 0 => watched # Unwatched)
  BY FolloweeIs
<1>2. Message[m].count \in Nat /\ Message[m].count # 0
  BY Headers DEF Names
<1> QED
  BY <1>1, <1>2 DEF Finished

LEMMA NobodyWatched == watched = Unwatched => ~Finished
BY DEF Finished

LEMMA FollowingStep ==
  ASSUME QueueOK, NEW a \in Parts, a.age = 0, NEW error \in BOOLEAN, processAIS(a, error), ~Dropped(a),
         NEW m \in Names, NEW k, NEW p \in Nat, NEW u \in Nat, NEW g \in Nat,
         watched = Followee(m, k, p, u, g), Following(queue, m, k, p, u, g)
  PROVE  Watched(Followed(a), queue', sent')
<1>1. /\ p >= 1 /\ p < Message[m].count /\ u =< MaxQueue - 1 /\ g =< MaxAge
      /\ Has(queue, m, k, p, u, g)
  BY DEF Following
<1>2. Message[m].count \in Nat /\ MaxQueue \in Nat /\ MaxAge \in Nat
  BY Headers DEF Names
<1>3. /\ watched # Unwatched /\ watched.msg = m /\ watched.key = k /\ watched.parts = p
      /\ watched.pushed = u /\ ~Finished
      /\ [watched EXCEPT !.parts = watched.parts + 1, !.pushed = watched.pushed + 1]
           = Followee(m, k, p + 1, u + 1, g)
      /\ [watched EXCEPT !.pushed = watched.pushed + 1] = Followee(m, k, p, u + 1, g)
  <2>1. p # Message[m].count
    BY <1>1, <1>2
  <2>2. ~Finished
    BY <2>1, FinishedIs
  <2>3. p # 0
    BY <1>1
  <2> QED
    BY <2>2, <2>3, FolloweeIs
<1>4. Drop(a, error) \/ Wait(a, error) \/ Complete(a, error)
  BY DEF processAIS
<1>5. CASE u + 1 = MaxQueue
  <2>1. Followed(a) = Unwatched
    BY <1>3, <1>5 DEF Followed
  <2> QED
    BY <2>1 DEF Watched
<1>6. CASE u + 1 # MaxQueue /\ a.key = k /\ a.msg = m /\ a.number = p + 1 /\ ~a.message_error
  <2>1. Followed(a) = Followee(m, k, p + 1, u + 1, g)
    BY <1>3, <1>6 DEF Followed
  <2>2. u + 1 < MaxQueue
    BY <1>1, <1>2, <1>6
  <2>3. Successor(a) /\ Has(Pushed(a), m, k, p + 1, u + 1, g)
    BY <1>1, <1>6, <2>2, NextOfFollowed
  <2>4. ~Drop(a, error)
    BY <2>3 DEF Drop
  <2>5. a.count = Message[m].count
    BY <1>6, PartFacts
  <2>6. CASE Wait(a, error)
    <3>1. queue' = Pushed(a) /\ a.number # a.count
      BY <2>6 DEF Wait
    <3>2. p + 1 >= 1 /\ p + 1 < Message[m].count /\ u + 1 =< MaxQueue - 1
      BY <1>1, <1>2, <1>6, <2>2, <2>5, <3>1
    <3>3. Following(queue', m, k, p + 1, u + 1, g)
      BY <1>1, <2>3, <3>1, <3>2 DEF Following
    <3>4. p + 1 \in Nat /\ u + 1 \in Nat
      OBVIOUS
    <3> QED
      BY <2>1, <3>3, <3>4 DEF Watched
  <2>7. CASE Complete(a, error)
    <3>1. p + 1 = a.count
      BY <1>6, <2>7 DEF Complete
    <3>2. p + 1 \in Nat /\ u + 1 \in Nat
      OBVIOUS
    <3>3. Has(Pushed(a), a.msg, a.key, a.count, u + 1, g)
      BY <1>6, <2>3, <3>1
    <3>4. SentAll(sent', m)
      BY <1>6, <2>5, <2>7, <3>2, <3>3, FollowedSent DEF SentAll
    <3> QED
      BY <2>1, <2>5, <3>1, <3>2, <3>4 DEF Watched
  <2> QED
    BY <1>4, <2>4, <2>6, <2>7
<1>7. CASE /\ u + 1 # MaxQueue /\ a.key[1] = k[1]
           /\ ~(a.key = k /\ a.msg = m /\ a.number = p + 1 /\ ~a.message_error)
  <2>1. Followed(a) = Unwatched
    BY <1>3, <1>7 DEF Followed
  <2> QED
    BY <2>1 DEF Watched
<1>8. CASE u + 1 # MaxQueue /\ a.key[1] # k[1]
  <2>1. Followed(a) = Followee(m, k, p, u + 1, g)
    BY <1>3, <1>8 DEF Followed
  <2>2. u + 1 < MaxQueue
    BY <1>1, <1>2, <1>8
  <2>3. Has(Pushed(a), m, k, p, u + 1, g)
    BY <1>1, <1>8, <2>2, OtherThanFollowed
  <2>4. u + 1 \in Nat
    OBVIOUS
  <2>5. Sound(queue) /\ queue \in Seq(Parts) /\ Len(queue) =< MaxQueue
    BY DEF QueueOK, Sound
  <2>6. Has(queue', m, k, p, u + 1, g)
    <3>1. CASE Drop(a, error)
      <4>1. queue' = clean(queue, a)
        BY <3>1 DEF Drop
      <4>2. Has(queue, m, k, p, u + 1, g)
        BY <1>1, <2>5, HasLonger
      <4> QED
        BY <1>1, <1>8, <2>4, <2>5, <4>1, <4>2, HasCleaned
    <3>2. CASE Wait(a, error)
      BY <2>3, <3>2 DEF Wait
    <3>3. CASE Complete(a, error)
      <4>1. queue' = clean(Pushed(a), a)
        BY <3>3 DEF Complete
      <4>2. Arrived(Pushed(a), a)
        BY <2>5, PushedIs
      <4>3. Sound(Pushed(a))
        BY <4>2 DEF Arrived
      <4> QED
        BY <1>1, <1>8, <2>3, <2>4, <4>1, <4>3, HasCleaned
    <3> QED
      BY <1>4, <3>1, <3>2, <3>3
  <2>7. Following(queue', m, k, p, u + 1, g)
    <3>1. u + 1 =< MaxQueue - 1
      BY <1>2, <2>2
    <3> QED
      BY <1>1, <2>6, <3>1 DEF Following
  <2> QED
    BY <2>1, <2>4, <2>7 DEF Watched
<1> QED
  BY <1>5, <1>6, <1>7, <1>8

(* A first part begins another history.                                    *)
LEMMA BegunStep ==
  ASSUME QueueOK, NEW a \in Parts, a.age = 0, NEW error \in BOOLEAN, processAIS(a, error), ~Dropped(a),
         a.number = 1, NEW w \in Begun(a)
  PROVE  Watched(w, queue', sent')
<1>1. /\ a.msg \in Names /\ a.count = Message[a.msg].count /\ a.count \in Nat /\ a.count >= 2
      /\ a.count =< MaxQueue /\ MaxQueue \in Nat /\ MaxAge \in Nat
      /\ ~a.message_error
  BY PartFacts DEF Begun
<1>2. w = Followee(a.msg, a.key, 1, 0, 0)
  BY <1>1 DEF Begun, Followee
<1>3. queue' = Pushed(a)
  BY <1>1 DEF processAIS, Drop, Wait, Complete
<1>4. Arrived(queue', a)
  BY <1>3, PushedIs DEF QueueOK
<1>5. Has(queue', a.msg, a.key, 1, 0, 0)
  <2> DEFINE n == Len(queue')
  <2>1. Sound(queue') /\ n >= 1 /\ queue'[n] = a
    BY <1>4 DEF Arrived
  <2>2. queue' \in Seq(Parts)
    BY <2>1 DEF Sound
  <2>3. n \in DOMAIN queue' /\ n - n =< 0 /\ a.age =< 0
    BY <2>1, <2>2
  <2>4. \A i \in DOMAIN queue' : queue'[i].key = a.key => queue'[i].number =< 1
    BY <1>4 DEF Arrived
  <2>5. \E i \in DOMAIN queue' :
          /\ queue'[i].key = a.key /\ queue'[i].number = 1 /\ queue'[i].msg = a.msg /\ ~queue'[i].message_error
          /\ queue'[i].age =< 0 /\ Len(queue') - i =< 0
    BY <1>1, <2>1, <2>3
  <2> QED
    BY <2>4, <2>5 DEF Has
<1>6. Following(queue', a.msg, a.key, 1, 0, 0)
  BY <1>1, <1>5 DEF Following
<1>7. 0 \in Nat /\ 1 \in Nat
  OBVIOUS
<1> QED
  BY <1>1, <1>2, <1>6, <1>7 DEF Watched

(* What leaves the queue alone leaves what is followed to be finished.     *)
LEMMA WatchKept ==
  ASSUME Watching, queue' = queue, watched' = IF Finished THEN Unwatched ELSE watched
  PROVE  Watching'
<1> SUFFICES Watched(watched', queue', sent')
  BY DEF Watching
<1>1. CASE watched = Unwatched
  <2>1. watched' = Unwatched
    BY <1>1
  <2> QED
    BY <2>1 DEF Watched
<1>2. CASE watched # Unwatched
  <2>1. PICK m \in Names, p, u, g \in Nat : \E k :
          /\ watched = Followee(m, k, p, u, g)
          /\ (p = Message[m].count /\ SentAll(sent, m)) \/ Following(queue, m, k, p, u, g)
    BY <1>2 DEF Watching, Watched
  <2>2. PICK k :
          /\ watched = Followee(m, k, p, u, g)
          /\ (p = Message[m].count /\ SentAll(sent, m)) \/ Following(queue, m, k, p, u, g)
    BY <2>1
  <2>3. Finished <=> p = Message[m].count
    BY <2>2, FinishedIs
  <2>4. CASE p = Message[m].count
    <3>1. watched' = Unwatched
      BY <2>3, <2>4
    <3> QED
      BY <3>1 DEF Watched
  <2>5. CASE p # Message[m].count
    <3>1. watched' = Followee(m, k, p, u, g) /\ Following(queue', m, k, p, u, g)
      BY <2>2, <2>3, <2>5
    <3> QED
      BY <3>1 DEF Watched
  <2> QED
    BY <2>4, <2>5
<1> QED
  BY <1>1, <1>2

LEMMA WatchSingle ==
  ASSUME Watching, NEW bad \in BOOLEAN, JSONSingle(bad)
  PROVE  Watching'
BY WatchKept DEF JSONSingle

LEMMA WatchStep ==
  ASSUME QueueOK, Watching, NEW a \in Parts, a.age = 0, NEW error \in BOOLEAN, processAIS(a, error), Watch(a)
  PROVE  Watching'
<1> SUFFICES Watched(watched', queue', sent')
  BY DEF Watching
<1>0. \/ watched = Unwatched
      \/ \E m \in Names, p, u, g \in Nat : \E k :
           /\ watched = Followee(m, k, p, u, g)
           /\ (p = Message[m].count /\ SentAll(sent, m)) \/ Following(queue, m, k, p, u, g)
  BY DEF Watching, Watched
<1>1. CASE Dropped(a)
  <2>1. queue' = queue /\ watched' = IF Finished THEN Unwatched ELSE watched
    BY <1>1 DEF Watch, processAIS
  <2> QED
    BY <2>1, WatchKept DEF Watching
<1>2. CASE ~Dropped(a) /\ watched' = Followed(a)
  <2>1. CASE watched = Unwatched
    <3>1. Followed(a) = Unwatched
      BY <2>1, NobodyWatched DEF Followed
    <3> QED
      BY <1>2, <3>1 DEF Watched
  <2>2. CASE watched # Unwatched
    <3>1. PICK m \in Names, p, u, g \in Nat : \E k :
            /\ watched = Followee(m, k, p, u, g)
            /\ (p = Message[m].count /\ SentAll(sent, m)) \/ Following(queue, m, k, p, u, g)
      BY <1>0, <2>2
    <3>2. PICK k :
            /\ watched = Followee(m, k, p, u, g)
            /\ (p = Message[m].count /\ SentAll(sent, m)) \/ Following(queue, m, k, p, u, g)
      BY <3>1
    <3>3. CASE p = Message[m].count
      <4>1. Finished
        BY <3>2, <3>3, FinishedIs
      <4>2. watched' = Unwatched
        BY <1>2, <4>1 DEF Followed
      <4> QED
        BY <4>2 DEF Watched
    <3>4. CASE Following(queue, m, k, p, u, g)
      BY <1>2, <3>2, <3>4, FollowingStep
    <3> QED
      BY <3>2, <3>3, <3>4
  <2> QED
    BY <2>1, <2>2
<1>3. CASE ~Dropped(a) /\ watched' \in Begun(a)
  <2>1. a.number = 1
    BY <1>3 DEF Begun
  <2> QED
    BY <1>3, <2>1, BegunStep
<1>4. Dropped(a) \/ (~Dropped(a) /\ watched' = Followed(a)) \/ (~Dropped(a) /\ watched' \in Begun(a))
  BY DEF Watch
<1> QED
  BY <1>1, <1>2, <1>3, <1>4

LEMMA WatchTick ==
  ASSUME QueueOK, Watching, Tick
  PROVE  Watching'
<1> SUFFICES Watched(watched', queue', sent')
  BY DEF Watching
<1>0. \/ watched = Unwatched
      \/ \E m \in Names, p, u, g \in Nat : \E k :
           /\ watched = Followee(m, k, p, u, g)
           /\ (p = Message[m].count /\ SentAll(sent, m)) \/ Following(queue, m, k, p, u, g)
  BY DEF Watching, Watched
<1>1. watched' = IF watched = Unwatched \/ Finished \/ watched.age = MaxAge THEN Unwatched
                 ELSE [watched EXCEPT !.age = watched.age + 1]
  BY DEF Tick
<1>2. CASE watched = Unwatched \/ Finished \/ watched.age = MaxAge
  <2>1. watched' = Unwatched
    BY <1>1, <1>2
  <2> QED
    BY <2>1 DEF Watched
<1>3. CASE watched # Unwatched /\ ~Finished /\ watched.age # MaxAge
  <2>1. PICK m \in Names, p, u, g \in Nat : \E k :
          /\ watched = Followee(m, k, p, u, g)
          /\ (p = Message[m].count /\ SentAll(sent, m)) \/ Following(queue, m, k, p, u, g)
    BY <1>0, <1>3
  <2>2. PICK k :
          /\ watched = Followee(m, k, p, u, g)
          /\ (p = Message[m].count /\ SentAll(sent, m)) \/ Following(queue, m, k, p, u, g)
    BY <2>1
  <2>3. p # Message[m].count
    BY <1>3, <2>2, FinishedIs
  <2>4. Following(queue, m, k, p, u, g)
    BY <2>2, <2>3
  <2>5. watched.age = g /\ [watched EXCEPT !.age = watched.age + 1] = Followee(m, k, p, u, g + 1)
    BY <2>2, FolloweeIs
  <2>6. watched' = Followee(m, k, p, u, g + 1) /\ g + 1 \in Nat
    BY <1>1, <1>3, <2>5
  <2>7. /\ p >= 1 /\ p < Message[m].count /\ u =< MaxQueue - 1 /\ g =< MaxAge
        /\ Has(queue, m, k, p, u, g)
    BY <2>4 DEF Following
  <2>8. g + 1 =< MaxAge
    <3>1. MaxAge \in Nat
      BY Headers
    <3> QED
      BY <1>3, <2>5, <2>7, <3>1
  <2>9. DOMAIN queue' = DOMAIN queue /\ Len(queue') = Len(queue)
    BY TickQueue
  <2>10. \A i \in DOMAIN queue :
           /\ queue'[i].key = queue[i].key /\ queue'[i].number = queue[i].number
           /\ queue'[i].msg = queue[i].msg /\ queue'[i].age =< queue[i].age + 1
           /\ queue'[i].message_error = queue[i].message_error
           /\ queue[i].age \in Nat
    <3> TAKE i \in DOMAIN queue
    <3>1. /\ queue'[i].age = Older(queue[i].age) /\ queue[i].age \in Nat
          /\ queue'[i].key = queue[i].key /\ queue'[i].number = queue[i].number
          /\ queue'[i].msg = queue[i].msg /\ queue'[i].message_error = queue[i].message_error
      BY TickQueue
    <3>2. Older(queue[i].age) =< queue[i].age + 1
      BY <3>1 DEF Older
    <3> QED
      BY <3>1, <3>2
  <2>11. ASSUME NEW n \in 1 .. p
         PROVE  \E i \in DOMAIN queue' :
                  /\ queue'[i].key = k /\ queue'[i].number = n /\ queue'[i].msg = m /\ ~queue'[i].message_error
                  /\ queue'[i].age =< g + 1 /\ Len(queue') - i =< u
    <3>1. PICK i \in DOMAIN queue :
            /\ queue[i].key = k /\ queue[i].number = n /\ queue[i].msg = m /\ ~queue[i].message_error
            /\ queue[i].age =< g /\ Len(queue) - i =< u
      BY <2>7 DEF Has
    <3>2. queue'[i].age =< g + 1
      <4>1. /\ queue'[i].age =< queue[i].age + 1 /\ queue[i].age \in Nat
            /\ queue'[i].age = Older(queue[i].age)
        BY <2>10, TickQueue
      <4>2. Older(queue[i].age) \in Nat
        BY <4>1 DEF Older
      <4> QED
        BY <3>1, <4>1, <4>2
    <3> QED
      BY <2>9, <2>10, <3>1, <3>2
  <2>12. \A i \in DOMAIN queue' : queue'[i].key = k => queue'[i].number =< p
    BY <2>7, <2>9, <2>10 DEF Has
  <2>13. Following(queue', m, k, p, u, g + 1)
    BY <2>7, <2>8, <2>11, <2>12 DEF Following, Has
  <2> QED
    BY <2>6, <2>13 DEF Watched
<1> QED
  BY <1>2, <1>3

LEMMA WatchNext == BInv /\ Watching /\ [Next]_vars => Watching'
<1> SUFFICES ASSUME BInv, Watching, [Next]_vars
             PROVE  Watching'
  OBVIOUS
<1>0. QueueOK
  BY DEF BInv
<1>1. ASSUME NEW m \in Names, NEW n \in 1 .. MaxNumber, NEW bad \in BOOLEAN,
             Line(m, n, bad)
      PROVE  Watching'
  <2> DEFINE a == AIVDM(Message[m], m, n, bad)
  <2>1. a \in Parts /\ a.age = 0
    BY AIVDMIsPart
  <2>2. processAIS(a, FALSE) /\ Watch(a)
    BY <1>1 DEF Line
  <2> HIDE DEF a
  <2> QED
    BY <1>0, <2>1, <2>2, WatchStep
<1>2. CASE JSONObject
  <2>1. watched' = Unwatched
    BY <1>2 DEF JSONObject
  <2> QED
    BY <2>1 DEF Watching, Watched
<1>3. ASSUME NEW m \in Names, NEW n \in 1 .. MaxNumber, NEW bad \in BOOLEAN,
             JSONSentence(m, n, bad)
      PROVE  Watching'
  <2> DEFINE a == AIVDM(Ungrouped(m), m, n, bad)
  <2>1. a \in Parts /\ a.age = 0
    BY AIVDMIsPart
  <2>2. processAIS(a, tag_error) /\ Watch(a) /\ tag_error \in BOOLEAN
    BY <1>3 DEF JSONSentence, BInv, Flags
  <2> HIDE DEF a
  <2> QED
    BY <1>0, <2>1, <2>2, WatchStep
<1>6. ASSUME NEW bad \in BOOLEAN, JSONSingle(bad)
      PROVE  Watching'
  BY <1>6, WatchSingle
<1>4. CASE Tick
  BY <1>0, <1>4, WatchTick
<1>5. CASE UNCHANGED vars
  <2>1. queue' = queue /\ sent' = sent /\ watched' = watched
    BY <1>5 DEF vars
  <2> QED
    BY <2>1 DEF Watching
<1> QED
  BY <1>1, <1>2, <1>3, <1>4, <1>5, <1>6 DEF Next

LEMMA WatchingSends == Watching => UndisturbedSent
<1> SUFFICES ASSUME Watching, Finished
             PROVE  /\ Len(sent) = Message[watched.msg].count
                    /\ \A i \in DOMAIN sent : sent[i].msg = watched.msg /\ sent[i].number = i
  BY DEF UndisturbedSent
<1>1. watched # Unwatched
  BY NobodyWatched
<1>2. PICK m \in Names, p, u, g \in Nat : \E k :
        /\ watched = Followee(m, k, p, u, g)
        /\ (p = Message[m].count /\ SentAll(sent, m)) \/ Following(queue, m, k, p, u, g)
  BY <1>1 DEF Watching, Watched
<1>3. PICK k :
        /\ watched = Followee(m, k, p, u, g)
        /\ (p = Message[m].count /\ SentAll(sent, m)) \/ Following(queue, m, k, p, u, g)
  BY <1>2
<1>4. p = Message[m].count
  BY <1>3, FinishedIs
<1>5. ~Following(queue, m, k, p, u, g)
  <2>1. Message[m].count \in Nat
    BY Headers DEF Names
  <2> QED
    BY <1>4, <2>1 DEF Following
<1>6. SentAll(sent, m) /\ watched.msg = m
  BY <1>3, <1>5, FolloweeIs
<1> QED
  BY <1>6 DEF SentAll

-----------------------------------------------------------------------------
(* The queue stays within its limit and holds parts of messages, of none   *)
(* the last one; assembleAIS().                                            *)
THEOREM TypeCorrect == Spec => []TypeOK
<1>1. Init => BInv
  BY BInvInit
<1>2. BInv /\ [Next]_vars => BInv'
  BY BInvStep
<1>3. BInv => TypeOK
  <2> SUFFICES ASSUME BInv
               PROVE  TypeOK
    OBVIOUS
  <2>1. queue \in Seq(Parts) /\ QueueOK /\ Flags
    BY DEF BInv, QueueOK, Sound
  <2>2. \A i \in DOMAIN queue : queue[i] \in Parts
    BY <2>1
  <2> QED
    BY <2>1, <2>2 DEF BInv, QueueOK, ArrayOK, Flags, TypeOK
<1> QED
  BY <1>1, <1>2, <1>3, PTL DEF Spec

(* A message whose parts come in order and in time goes out, whatever of   *)
(* other talkers, channels and groups comes in between, unless that fills  *)
(* the queue; clean() and the limit in assembleAIS().                      *)
THEOREM UndisturbedIsSent == Spec => []UndisturbedSent
<1>1. Init => BInv /\ Watching
  <2>1. Init => Watching
    BY DEF Init, Watching, Watched
  <2> QED
    BY <2>1, BInvInit
<1>2. BInv /\ Watching /\ [Next]_vars => BInv' /\ Watching'
  BY BInvStep, WatchNext
<1>3. Watching => UndisturbedSent
  BY WatchingSends
<1> QED
  BY <1>1, <1>2, <1>3, PTL DEF Spec

(* A message is sent as damaged if one of its own sentences had a bad      *)
(* checksum, and only then, unless another sentence of the same JSON array *)
(* had one; the flag of assembleAIS() and tag.clear().                     *)
THEOREM ErrorIsExact == Spec => []ErrorExact
<1>1. Init => BInv
  BY BInvInit
<1>2. BInv /\ [Next]_vars => BInv'
  BY BInvStep
<1>3. BInv => ErrorExact
  BY DEF BInv
<1> QED
  BY <1>1, <1>2, <1>3, PTL DEF Spec

(* assembleAIS(), search() and clean() implement Reassembly: what goes out *)
(* is a gapless run of one key since its last first part, used once.       *)
THEOREM IsReassembly == Spec => ImplementsReassembly
<1>1. Init => BInv /\ Promise!Init
  BY BInvInit
<1>2. BInv /\ [Next]_vars => BInv' /\ [Promise!Next]_Promise!vars
  BY BInvStep
<1> QED
  BY <1>1, <1>2, PTL DEF Spec, ImplementsReassembly, Promise!Spec
=============================================================================
