--------------------------- MODULE PathStoreProofs --------------------------
(***************************************************************************)
(* Theorems about PathStore for any number of ships, blocks and points per *)
(* block, any limits of time and any order of reports.                     *)
(***************************************************************************)
EXTENDS PathStore, SequenceTheorems, FiniteSetTheorems, WellFoundedInduction, TLAPS

LEMMA LeastElement ==
  ASSUME NEW V \in SUBSET Nat, V # {}
  PROVE  \E x \in V : \A y \in V : x =< y
<1> DEFINE R == {e \in Nat \X Nat : e[1] < e[2]}
<1>1. IsWellFoundedOn(R, Nat)
  BY NatLessThanWellFounded DEF OpToRel
<1>2. \A x, y \in Nat : y < x => <<y, x>> \in R
  OBVIOUS
<1> HIDE DEF R
<1>3. PICK x \in V : \A y \in V : <<y, x>> \notin R
  BY <1>1, WFMin, Zenon
<1>4. \A y \in V : ~(y < x)
  BY <1>2, <1>3
<1> QED
  BY <1>3, <1>4

LEMMA InductionOnNat ==
  ASSUME NEW S, 0 \in S, \A n \in Nat : n \in S => n + 1 \in S
  PROVE  Nat \subseteq S
<1> SUFFICES ASSUME ~(Nat \subseteq S)
             PROVE  FALSE
  OBVIOUS
<1>1. PICK x \in Nat \ S : \A y \in Nat \ S : x =< y
  BY LeastElement
<1>2. x - 1 \in Nat
  BY <1>1
<1>3. x - 1 \in S
  BY <1>1, <1>2
<1> QED
  BY <1>1, <1>2, <1>3

-----------------------------------------------------------------------------
(* Doubly linked lists, of blocks as of points.                            *)

(* The nodes N are linked in one list from h to t, both ways; out is what  *)
(* stands for no node.  The rank rises from each node to the next, so that *)
(* no part of the links is a circle.                                       *)
Linked(N, nx, pv, h, t, out, rk) ==
  /\ out \notin N
  /\ h \in N \cup {out} /\ t \in N \cup {out} /\ (h = out <=> t = out)
  /\ \A x \in N :
       /\ nx[x] \in N \cup {out} /\ pv[x] \in N \cup {out}
       /\ nx[x] \in N => pv[nx[x]] = x /\ rk[x] < rk[nx[x]]
       /\ pv[x] \in N => nx[pv[x]] = x
       /\ pv[x] = out <=> x = h
       /\ nx[x] = out <=> x = t

(* A list that shares no node and no end with the change.                  *)
LEMMA LinksCarry ==
  ASSUME NEW N, NEW nx, NEW pv, NEW h, NEW t, NEW out, NEW rk, Linked(N, nx, pv, h, t, out, rk),
         NEW nx2, NEW pv2, NEW rk2,
         \A x \in N : nx2[x] = nx[x] /\ pv2[x] = pv[x] /\ rk2[x] = rk[x]
  PROVE  Linked(N, nx2, pv2, h, t, out, rk2)
BY DEF Linked

(* x is taken out.                                                         *)
Removal(D, rk, N, nx, pv, h, t, out, x, nx2, pv2, h2, t2) ==
  /\ rk \in [D -> Nat] /\ N \in SUBSET D /\ Linked(N, nx, pv, h, t, out, rk) /\ x \in N
  /\ \A y \in N \ {x} : /\ nx2[y] = IF y = pv[x] THEN nx[x] ELSE nx[y]
                        /\ pv2[y] = IF y = nx[x] THEN pv[x] ELSE pv[y]
  /\ h2 = IF pv[x] = out THEN nx[x] ELSE h
  /\ t2 = IF nx[x] = out THEN pv[x] ELSE t

LEMMA LinksRemoved ==
  ASSUME NEW D, NEW rk, NEW N, NEW nx, NEW pv, NEW h, NEW t, NEW out, NEW x,
         NEW nx2, NEW pv2, NEW h2, NEW t2,
         Removal(D, rk, N, nx, pv, h, t, out, x, nx2, pv2, h2, t2)
  PROVE  Linked(N \ {x}, nx2, pv2, h2, t2, out, rk)
<1> USE DEF Removal
<1>1. /\ out \notin N /\ h \in N \cup {out} /\ t \in N \cup {out} /\ (h = out <=> t = out)
      /\ nx[x] \in N \cup {out} /\ pv[x] \in N \cup {out} /\ nx[x] # x /\ pv[x] # x
      /\ nx[x] \in N => pv[nx[x]] = x /\ rk[x] < rk[nx[x]]
      /\ pv[x] \in N => nx[pv[x]] = x /\ rk[pv[x]] < rk[x]
      /\ pv[x] = out <=> x = h
      /\ nx[x] = out <=> x = t
  BY DEF Linked
<1>2. h2 \in (N \ {x}) \cup {out} /\ t2 \in (N \ {x}) \cup {out} /\ (h2 = out <=> t2 = out)
  BY <1>1
<1>3. ASSUME NEW y \in N \ {x}
      PROVE  /\ nx2[y] \in (N \ {x}) \cup {out} /\ pv2[y] \in (N \ {x}) \cup {out}
             /\ nx2[y] \in N \ {x} => pv2[nx2[y]] = y /\ rk[y] < rk[nx2[y]]
             /\ pv2[y] \in N \ {x} => nx2[pv2[y]] = y
             /\ pv2[y] = out <=> y = h2
             /\ nx2[y] = out <=> y = t2
  <2>1. /\ nx[y] \in N \cup {out} /\ pv[y] \in N \cup {out}
        /\ nx[y] \in N => pv[nx[y]] = y /\ rk[y] < rk[nx[y]]
        /\ pv[y] \in N => nx[pv[y]] = y
        /\ pv[y] = out <=> y = h
        /\ nx[y] = out <=> y = t
    BY DEF Linked
  <2>2. rk[x] \in Nat /\ rk[y] \in Nat /\ (nx[x] \in N => rk[nx[x]] \in Nat)
    OBVIOUS
  <2>3. nx[y] = x <=> y = pv[x]
    BY <1>1, <2>1
  <2>4. pv[y] = x <=> y = nx[x]
    BY <1>1, <2>1
  <2>5. /\ nx2[y] = IF y = pv[x] THEN nx[x] ELSE nx[y]
        /\ pv2[y] = IF y = nx[x] THEN pv[x] ELSE pv[y]
    OBVIOUS
  <2>6. nx2[y] \in (N \ {x}) \cup {out} /\ pv2[y] \in (N \ {x}) \cup {out}
    BY <1>1, <2>1, <2>3, <2>4, <2>5
  <2>7. ASSUME nx2[y] \in N \ {x}
        PROVE  pv2[nx2[y]] = y /\ rk[y] < rk[nx2[y]]
    <3>1. pv2[nx2[y]] = IF nx2[y] = nx[x] THEN pv[x] ELSE pv[nx2[y]]
      BY <2>7
    <3>2. CASE y = pv[x]
      BY <1>1, <2>2, <2>5, <2>7, <3>1, <3>2
    <3>3. CASE y # pv[x]
      BY <1>1, <2>1, <2>3, <2>5, <2>7, <3>1, <3>3
    <3> QED
      BY <3>2, <3>3
  <2>8. ASSUME pv2[y] \in N \ {x}
        PROVE  nx2[pv2[y]] = y
    <3>1. nx2[pv2[y]] = IF pv2[y] = pv[x] THEN nx[x] ELSE nx[pv2[y]]
      BY <2>8
    <3>2. CASE y = nx[x]
      BY <1>1, <2>5, <2>8, <3>1, <3>2
    <3>3. CASE y # nx[x]
      BY <1>1, <2>1, <2>4, <2>5, <2>8, <3>1, <3>3
    <3> QED
      BY <3>2, <3>3
  <2>9. pv2[y] = out <=> y = h2
    BY <1>1, <2>1, <2>4, <2>5
  <2>10. nx2[y] = out <=> y = t2
    BY <1>1, <2>1, <2>3, <2>5
  <2> QED
    BY <2>6, <2>7, <2>8, <2>9, <2>10
<1> QED
  BY <1>1, <1>2, <1>3 DEF Linked

(* z takes the place of x.                                                 *)
Replacement(D, rk, N, nx, pv, h, t, out, x, z, nx2, pv2, h2, t2) ==
  /\ rk \in [D -> Nat] /\ N \in SUBSET D /\ Linked(N, nx, pv, h, t, out, rk) /\ x \in N
  /\ z \in D \ N /\ z # out
  /\ \A y \in N \ {x} : /\ nx2[y] = IF y = pv[x] THEN z ELSE nx[y]
                        /\ pv2[y] = IF y = nx[x] THEN z ELSE pv[y]
  /\ nx2[z] = nx[x] /\ pv2[z] = pv[x]
  /\ h2 = IF pv[x] = out THEN z ELSE h
  /\ t2 = IF nx[x] = out THEN z ELSE t

LEMMA LinksReplaced ==
  ASSUME NEW D, NEW rk, NEW N, NEW nx, NEW pv, NEW h, NEW t, NEW out, NEW x, NEW z,
         NEW nx2, NEW pv2, NEW h2, NEW t2,
         Replacement(D, rk, N, nx, pv, h, t, out, x, z, nx2, pv2, h2, t2)
  PROVE  Linked((N \ {x}) \cup {z}, nx2, pv2, h2, t2, out, [rk EXCEPT ![z] = rk[x]])
<1> USE DEF Replacement
<1> DEFINE M == (N \ {x}) \cup {z}
           r2 == [rk EXCEPT ![z] = rk[x]]
<1>0. /\ r2[z] = rk[x] /\ \A y \in N : r2[y] = rk[y]
      /\ \A y \in N : rk[y] \in Nat
  OBVIOUS
<1>1. /\ out \notin N /\ h \in N \cup {out} /\ t \in N \cup {out} /\ (h = out <=> t = out)
      /\ nx[x] \in N \cup {out} /\ pv[x] \in N \cup {out} /\ nx[x] # x /\ pv[x] # x
      /\ nx[x] \in N => pv[nx[x]] = x /\ rk[x] < rk[nx[x]]
      /\ pv[x] \in N => nx[pv[x]] = x /\ rk[pv[x]] < rk[x]
      /\ pv[x] = out <=> x = h
      /\ nx[x] = out <=> x = t
  BY <1>0 DEF Linked
<1>2. h2 \in M \cup {out} /\ t2 \in M \cup {out} /\ out \notin M /\ (h2 = out <=> t2 = out)
  BY <1>1
<1> HIDE DEF r2
<1>3. ASSUME NEW y \in N \ {x}
      PROVE  /\ nx2[y] \in M \cup {out} /\ pv2[y] \in M \cup {out}
             /\ nx2[y] \in M => pv2[nx2[y]] = y /\ r2[y] < r2[nx2[y]]
             /\ pv2[y] \in M => nx2[pv2[y]] = y
             /\ pv2[y] = out <=> y = h2
             /\ nx2[y] = out <=> y = t2
  <2>1. /\ nx[y] \in N \cup {out} /\ pv[y] \in N \cup {out}
        /\ nx[y] \in N => pv[nx[y]] = y /\ rk[y] < rk[nx[y]]
        /\ pv[y] \in N => nx[pv[y]] = y
        /\ pv[y] = out <=> y = h
        /\ nx[y] = out <=> y = t
    BY DEF Linked
  <2>3. nx[y] = x <=> y = pv[x]
    BY <1>1, <2>1
  <2>4. pv[y] = x <=> y = nx[x]
    BY <1>1, <2>1
  <2>5. /\ nx2[y] = IF y = pv[x] THEN z ELSE nx[y]
        /\ pv2[y] = IF y = nx[x] THEN z ELSE pv[y]
    OBVIOUS
  <2>6. nx2[y] \in M \cup {out} /\ pv2[y] \in M \cup {out}
    BY <1>1, <2>1, <2>3, <2>4, <2>5
  <2>7. ASSUME nx2[y] \in M
        PROVE  pv2[nx2[y]] = y /\ r2[y] < r2[nx2[y]]
    <3>2. CASE y = pv[x]
      BY <1>0, <1>1, <2>5, <3>2
    <3>3. CASE y # pv[x]
      <4>1. nx2[y] = nx[y] /\ nx[y] \in N \ {x}
        BY <1>1, <2>1, <2>3, <2>5, <2>7, <3>3
      <4>2. pv2[nx[y]] = IF nx[y] = nx[x] THEN z ELSE pv[nx[y]]
        BY <4>1
      <4> QED
        BY <1>0, <1>1, <2>1, <4>1, <4>2
    <3> QED
      BY <3>2, <3>3
  <2>8. ASSUME pv2[y] \in M
        PROVE  nx2[pv2[y]] = y
    <3>2. CASE y = nx[x]
      BY <1>1, <2>5, <3>2
    <3>3. CASE y # nx[x]
      <4>1. pv2[y] = pv[y] /\ pv[y] \in N \ {x}
        BY <1>1, <2>1, <2>4, <2>5, <2>8, <3>3
      <4>2. nx2[pv[y]] = IF pv[y] = pv[x] THEN z ELSE nx[pv[y]]
        BY <4>1
      <4> QED
        BY <1>1, <2>1, <4>1, <4>2
    <3> QED
      BY <3>2, <3>3
  <2>9. pv2[y] = out <=> y = h2
    BY <1>1, <2>1, <2>4, <2>5
  <2>10. nx2[y] = out <=> y = t2
    BY <1>1, <2>1, <2>3, <2>5
  <2> QED
    BY <2>6, <2>7, <2>8, <2>9, <2>10
<1>4. /\ nx2[z] \in M \cup {out} /\ pv2[z] \in M \cup {out}
      /\ nx2[z] \in M => pv2[nx2[z]] = z /\ r2[z] < r2[nx2[z]]
      /\ pv2[z] \in M => nx2[pv2[z]] = z
      /\ pv2[z] = out <=> z = h2
      /\ nx2[z] = out <=> z = t2
  <2>1. nx2[z] \in M => nx[x] \in N \ {x} /\ pv2[nx[x]] = z
    BY <1>1
  <2>2. pv2[z] \in M => pv[x] \in N \ {x} /\ nx2[pv[x]] = z
    BY <1>1
  <2> QED
    BY <1>0, <1>1, <2>1, <2>2
<1>5. Linked(M, nx2, pv2, h2, t2, out, r2)
  BY <1>2, <1>3, <1>4 DEF Linked
<1> QED
  BY <1>5 DEF r2

(* A list without a first node has none.                                   *)
LEMMA NoneLinked ==
  ASSUME NEW D, NEW rk \in [D -> Nat], NEW N \in SUBSET D,
         NEW nx, NEW pv, NEW h, NEW t, NEW out, Linked(N, nx, pv, h, t, out, rk), h = out
  PROVE  N = {}
<1> SUFFICES ASSUME N # {}
             PROVE  FALSE
  OBVIOUS
<1> DEFINE R == {rk[y] : y \in N}
<1>1. R \in SUBSET Nat /\ R # {}
  OBVIOUS
<1> HIDE DEF R
<1>2. PICK n \in R : \A m \in R : n =< m
  BY <1>1, LeastElement
<1>3. PICK x \in N : rk[x] = n /\ \A y \in N : rk[x] =< rk[y]
  BY <1>2 DEF R
<1>4. pv[x] \in N /\ rk[pv[x]] < rk[x]
  BY DEF Linked
<1> QED
  BY <1>3, <1>4

(* z is put behind the last node.                                          *)
Appending(D, rk, N, nx, pv, h, t, out, z, nx2, pv2, h2) ==
  /\ rk \in [D -> Nat] /\ N \in SUBSET D /\ Linked(N, nx, pv, h, t, out, rk)
  /\ z \in D \ N /\ z # out
  /\ \A y \in N : nx2[y] = (IF y = t THEN z ELSE nx[y]) /\ pv2[y] = pv[y]
  /\ nx2[z] = out /\ pv2[z] = t
  /\ h2 = IF t = out THEN z ELSE h

LEMMA LinksAppended ==
  ASSUME NEW D, NEW rk, NEW N, NEW nx, NEW pv, NEW h, NEW t, NEW out, NEW z,
         NEW nx2, NEW pv2, NEW h2,
         Appending(D, rk, N, nx, pv, h, t, out, z, nx2, pv2, h2),
         NEW n \in Nat, t # out => rk[t] < n
  PROVE  Linked(N \cup {z}, nx2, pv2, h2, z, out, [rk EXCEPT ![z] = n])
<1> USE DEF Appending
<1> DEFINE M == N \cup {z}
           r2 == [rk EXCEPT ![z] = n]
<1>0. /\ r2[z] = n /\ \A y \in N : r2[y] = rk[y]
      /\ \A y \in N : rk[y] \in Nat
  OBVIOUS
<1>1. out \notin N /\ h \in N \cup {out} /\ t \in N \cup {out} /\ (t = out <=> h = out)
  BY DEF Linked
<1>2. h2 \in M \cup {out} /\ out \notin M /\ h2 # out
  BY <1>1
<1> HIDE DEF r2
<1>3. ASSUME NEW y \in N
      PROVE  /\ nx2[y] \in M \cup {out} /\ pv2[y] \in M \cup {out}
             /\ nx2[y] \in M => pv2[nx2[y]] = y /\ r2[y] < r2[nx2[y]]
             /\ pv2[y] \in M => nx2[pv2[y]] = y
             /\ pv2[y] = out <=> y = h2
             /\ nx2[y] = out <=> y = z
  <2>1. /\ nx[y] \in N \cup {out} /\ pv[y] \in N \cup {out}
        /\ nx[y] \in N => pv[nx[y]] = y /\ rk[y] < rk[nx[y]]
        /\ pv[y] \in N => nx[pv[y]] = y
        /\ pv[y] = out <=> y = h
        /\ nx[y] = out <=> y = t
    BY DEF Linked
  <2>2. /\ nx2[y] = (IF y = t THEN z ELSE nx[y])
        /\ pv2[y] = pv[y]
    OBVIOUS
  <2>3. t # out /\ t \in N /\ nx[t] = out /\ h2 = h
    <3>1. t # out
      BY <1>1, NoneLinked
    <3> QED
      BY <1>1, <3>1 DEF Linked
  <2>4. nx2[y] \in M => pv2[nx2[y]] = y /\ r2[y] < r2[nx2[y]]
    <3>1. CASE y = t
      BY <1>0, <2>2, <2>3, <3>1
    <3>2. CASE y # t
      <4>1. nx2[y] = nx[y] /\ (nx[y] \in M => nx[y] \in N)
        BY <2>1, <2>2, <3>2
      <4> QED
        BY <1>0, <2>1, <4>1
    <3> QED
      BY <3>1, <3>2
  <2>5. pv2[y] \in M => nx2[pv2[y]] = y
    <3>1. pv2[y] = pv[y] /\ (pv[y] \in M => pv[y] \in N)
      BY <2>1, <2>2
    <3> QED
      BY <1>1, <2>1, <2>3, <3>1
  <2> QED
    BY <1>1, <2>1, <2>2, <2>3, <2>4, <2>5
<1>4. /\ nx2[z] \in M \cup {out} /\ pv2[z] \in M \cup {out}
      /\ nx2[z] \in M => pv2[nx2[z]] = z /\ r2[z] < r2[nx2[z]]
      /\ pv2[z] \in M => nx2[pv2[z]] = z
      /\ pv2[z] = out <=> z = h2
      /\ nx2[z] = out <=> z = z
  BY <1>1
<1>5. Linked(M, nx2, pv2, h2, z, out, r2)
  BY <1>2, <1>3, <1>4 DEF Linked
<1> QED
  BY <1>5 DEF r2

(* z is put in front of the first node.                                    *)
Prepending(D, rk, N, nx, pv, h, t, out, z, nx2, pv2, t2, r2) ==
  /\ rk \in [D -> Nat] /\ N \in SUBSET D /\ Linked(N, nx, pv, h, t, out, rk)
  /\ z \in D \ N /\ z # out
  /\ \A y \in N : nx2[y] = nx[y] /\ pv2[y] = (IF y = h THEN z ELSE pv[y]) /\ r2[y] = rk[y] + 1
  /\ nx2[z] = h /\ pv2[z] = out /\ r2[z] = 0
  /\ t2 = IF t = out THEN z ELSE t

LEMMA LinksPrepended ==
  ASSUME NEW D, NEW rk, NEW N, NEW nx, NEW pv, NEW h, NEW t, NEW out, NEW z,
         NEW nx2, NEW pv2, NEW t2, NEW r2,
         Prepending(D, rk, N, nx, pv, h, t, out, z, nx2, pv2, t2, r2)
  PROVE  Linked(N \cup {z}, nx2, pv2, z, t2, out, r2)
<1> USE DEF Prepending
<1> DEFINE M == N \cup {z}
<1>0. \A y \in N : rk[y] \in Nat
  OBVIOUS
<1>1. out \notin N /\ h \in N \cup {out} /\ t \in N \cup {out} /\ (t = out <=> h = out)
  BY DEF Linked
<1>2. t2 \in M \cup {out} /\ out \notin M /\ t2 # out
  BY <1>1
<1>3. ASSUME NEW y \in N
      PROVE  /\ nx2[y] \in M \cup {out} /\ pv2[y] \in M \cup {out}
             /\ nx2[y] \in M => pv2[nx2[y]] = y /\ r2[y] < r2[nx2[y]]
             /\ pv2[y] \in M => nx2[pv2[y]] = y
             /\ pv2[y] = out <=> y = z
             /\ nx2[y] = out <=> y = t2
  <2>1. /\ nx[y] \in N \cup {out} /\ pv[y] \in N \cup {out}
        /\ nx[y] \in N => pv[nx[y]] = y /\ rk[y] < rk[nx[y]]
        /\ pv[y] \in N => nx[pv[y]] = y
        /\ pv[y] = out <=> y = h
        /\ nx[y] = out <=> y = t
    BY DEF Linked
  <2>2. /\ nx2[y] = nx[y] /\ r2[y] = rk[y] + 1
        /\ pv2[y] = IF y = h THEN z ELSE pv[y]
    OBVIOUS
  <2>3. t # out
    BY <1>1, NoneLinked
  <2>4. nx[y] \in N => nx[y] # h
    <3>1. h \in N => pv[h] = out
      BY DEF Linked
    <3> QED
      BY <1>1, <2>1, <3>1
  <2> QED
    BY <1>0, <1>1, <2>1, <2>2, <2>3, <2>4
<1>4. /\ nx2[z] \in M \cup {out} /\ pv2[z] \in M \cup {out}
      /\ nx2[z] \in M => pv2[nx2[z]] = z /\ r2[z] < r2[nx2[z]]
      /\ pv2[z] \in M => nx2[pv2[z]] = z
      /\ pv2[z] = out <=> z = z
      /\ nx2[z] = out <=> z = t2
  <2>1. \A y \in N : rk[y] + 1 \in Nat /\ 0 < rk[y] + 1
    BY <1>0
  <2> QED
    BY <1>1, <2>1
<1>5. z \in M /\ z # out
  OBVIOUS
<1> QED
  BY <1>2, <1>3, <1>4, <1>5 DEF Linked
-----------------------------------------------------------------------------
(* What Chain() makes of a list.                                           *)

ChainFrom(f, next, n) ==
  f = [k \in 0 .. n |->
         [y \in Int |-> IF y \notin DOMAIN next \/ k = 0 THEN <<>>
                        ELSE <<y>> \o f[k - 1][next[y]]]]

LEMMA ChainFromExists ==
  ASSUME NEW next, NEW n \in Nat
  PROVE  \E f : ChainFrom(f, next, n)
<1> DEFINE Can == {m \in Nat : \E f : ChainFrom(f, next, m)}
<1>1. 0 \in Can
  <2> DEFINE f == [k \in 0 .. 0 |-> [y \in Int |-> <<>>]]
  <2>1. \A k \in 0 .. 0 :
          [y \in Int |-> IF y \notin DOMAIN next \/ k = 0 THEN <<>>
                         ELSE <<y>> \o f[k - 1][next[y]]] = [y \in Int |-> <<>>]
    OBVIOUS
  <2>2. ChainFrom(f, next, 0)
    BY <2>1 DEF ChainFrom
  <2> QED
    BY <2>2
<1>2. ASSUME NEW m \in Nat, m \in Can
      PROVE  m + 1 \in Can
  <2>1. PICK f : ChainFrom(f, next, m)
    BY <1>2
  <2> DEFINE row(g, k) == [y \in Int |-> IF y \notin DOMAIN next \/ k = 0 THEN <<>>
                                         ELSE <<y>> \o g[k - 1][next[y]]]
             new == row(f, m + 1)
             g == [k \in 0 .. m + 1 |-> IF k = m + 1 THEN new ELSE f[k]]
  <2>2. f = [k \in 0 .. m |-> row(f, k)]
    BY <2>1 DEF ChainFrom
  <2>3. \A k \in 0 .. m : f[k] = row(f, k)
    <3> HIDE DEF row
    <3> QED
      BY <2>2
  <2>4. \A k \in 0 .. m : g[k] = f[k]
    OBVIOUS
  <2>5. g[m + 1] = new
    OBVIOUS
  <2> HIDE DEF g, new
  <2>6. ASSUME NEW k \in 0 .. m + 1
        PROVE  g[k] = row(g, k)
    <3>1. CASE k = 0
      <4>1. g[k] = row(f, k)
        BY <2>3, <2>4, <3>1
      <4> QED
        BY <3>1, <4>1
    <3>2. CASE k # 0
      <4>1. k - 1 \in 0 .. m
        BY <3>2
      <4>2. g[k - 1] = f[k - 1]
        BY <2>4, <4>1
      <4>3. row(g, k) = row(f, k)
        BY <4>2
      <4>4. g[k] = row(f, k)
        <5>1. CASE k = m + 1
          BY <2>5, <5>1 DEF new
        <5>2. CASE k # m + 1
          <6>1. k \in 0 .. m
            BY <5>2
          <6> QED
            BY <2>3, <2>4, <6>1
        <5> QED
          BY <5>1, <5>2
      <4> QED
        BY <4>3, <4>4
    <3> QED
      BY <3>1, <3>2
  <2> HIDE DEF row
  <2>7. g = [k \in 0 .. m + 1 |-> row(g, k)]
    <3>1. g = [k \in 0 .. m + 1 |-> g[k]]
      BY DEF g
    <3> QED
      BY <2>6, <3>1
  <2>8. ChainFrom(g, next, m + 1)
    BY <2>7 DEF ChainFrom, row
  <2> QED
    BY <2>8
<1> HIDE DEF Can
<1>3. Nat \subseteq Can
  BY <1>1, <1>2, InductionOnNat
<1> QED
  BY <1>3 DEF Can

LEMMA ChainIs ==
  ASSUME NEW x, NEW next, NEW n \in Nat
  PROVE  \E f : ChainFrom(f, next, n) /\ Chain(x, next, n) = f[n][x]
<1> DEFINE f == CHOOSE g : ChainFrom(g, next, n)
<1>1. ChainFrom(f, next, n)
  BY ChainFromExists
<1>2. Chain(x, next, n) = f[n][x]
  BY DEF Chain, ChainFrom
<1> QED
  BY <1>1, <1>2

(* c is the list, first node to last.                                      *)
Enumerates(c, N, nx, pv, h, t, out) ==
  /\ c \in Seq(N)
  /\ \A x \in N : \E i \in 1 .. Len(c) : c[i] = x
  /\ \A i, j \in 1 .. Len(c) : c[i] = c[j] => i = j
  /\ h = IF Len(c) = 0 THEN out ELSE c[1]
  /\ t = IF Len(c) = 0 THEN out ELSE c[Len(c)]
  /\ \A i \in 1 .. Len(c) :
       /\ nx[c[i]] = IF i = Len(c) THEN out ELSE c[i + 1]
       /\ pv[c[i]] = IF i = 1 THEN out ELSE c[i - 1]

(* The first k nodes of the list, or all of it, from y on.                 *)
Leads(c, k, y, N, nx, out) ==
  /\ c \in Seq(N)
  /\ IF k = 0 \/ y = out THEN c = <<>> ELSE c # <<>> /\ c[1] = y
  /\ \A i \in 1 .. Len(c) - 1 : c[i + 1] = nx[c[i]]
  /\ Len(c) =< k
  /\ Len(c) < k /\ c # <<>> => nx[c[Len(c)]] = out

LEMMA ChainLeads ==
  ASSUME NEW N \in SUBSET Int, NEW nx, N \subseteq DOMAIN nx, NEW out \in Int, out \notin DOMAIN nx,
         \A x \in N : nx[x] \in N \cup {out},
         NEW n \in Nat, NEW f, ChainFrom(f, nx, n)
  PROVE  \A y \in N \cup {out} : Leads(f[n][y], n, y, N, nx, out)
<1> DEFINE S == {k \in Nat : k =< n => \A y \in N \cup {out} : Leads(f[k][y], k, y, N, nx, out)}
<1> DEFINE row(k) == [y \in Int |-> IF y \notin DOMAIN nx \/ k = 0 THEN <<>>
                                    ELSE <<y>> \o f[k - 1][nx[y]]]
<1>0. \A k \in 0 .. n : f[k] = row(k)
  <2>1. f = [k \in 0 .. n |-> row(k)]
    BY DEF ChainFrom
  <2> HIDE DEF row
  <2> QED
    BY <2>1
<1>1. \A k \in 0 .. n : \A y \in Int :
        f[k][y] = IF y \notin DOMAIN nx \/ k = 0 THEN <<>> ELSE <<y>> \o f[k - 1][nx[y]]
  <2> SUFFICES ASSUME NEW k \in 0 .. n, NEW y \in Int
               PROVE  f[k][y] = IF y \notin DOMAIN nx \/ k = 0 THEN <<>> ELSE <<y>> \o f[k - 1][nx[y]]
    OBVIOUS
  <2>1. row(k)[y] = IF y \notin DOMAIN nx \/ k = 0 THEN <<>> ELSE <<y>> \o f[k - 1][nx[y]]
    OBVIOUS
  <2> HIDE DEF row
  <2> QED
    BY <1>0, <2>1
<1> HIDE DEF row
<1>2. 0 \in S
  <2>1. ASSUME NEW y \in N \cup {out}
        PROVE  Leads(f[0][y], 0, y, N, nx, out)
    <3>1. 0 \in 0 .. n /\ y \in Int
      OBVIOUS
    <3>2. f[0][y] = <<>>
      BY <1>1, <3>1
    <3> QED
      BY <3>2 DEF Leads
  <2> QED
    BY <2>1
<1>3. \A k \in Nat : k \in S => k + 1 \in S
  <2> SUFFICES ASSUME NEW k \in Nat, k \in S, k + 1 =< n, NEW y \in N \cup {out}
               PROVE  Leads(f[k + 1][y], k + 1, y, N, nx, out)
    OBVIOUS
  <2>0. k + 1 \in 0 .. n /\ k + 1 # 0 /\ (k + 1) - 1 = k /\ k \in 0 .. n
    OBVIOUS
  <2>4. \A z \in N \cup {out} : Leads(f[k][z], k, z, N, nx, out)
    BY <2>0
  <2>1. f[k + 1][y] = IF y \notin DOMAIN nx THEN <<>> ELSE <<y>> \o f[k][nx[y]]
    BY <1>1, <2>0
  <2>2. CASE y = out
    <3>1. f[k + 1][y] = <<>>
      BY <2>1, <2>2
    <3> QED
      BY <2>2, <3>1 DEF Leads
  <2>3. CASE y # out
    <3> DEFINE d == f[k][nx[y]]
               c == f[k + 1][y]
    <3>1. y \in N /\ nx[y] \in N \cup {out} /\ c = <<y>> \o d
      BY <2>1, <2>3
    <3>2. Leads(d, k, nx[y], N, nx, out)
      BY <2>4, <3>1
    <3> HIDE DEF c, d
    <3>3. d \in Seq(N)
      BY <3>2 DEF Leads
    <3>4. /\ c \in Seq(N) /\ Len(c) = Len(d) + 1 /\ c[1] = y /\ c # <<>>
          /\ \A i \in 1 .. Len(d) : c[i + 1] = d[i]
      BY <3>1, <3>3
    <3>5. IF k = 0 \/ nx[y] = out THEN d = <<>> ELSE d # <<>> /\ d[1] = nx[y]
      BY <3>2 DEF Leads
    <3>6. /\ \A i \in 1 .. Len(d) - 1 : d[i + 1] = nx[d[i]]
          /\ Len(d) =< k
          /\ Len(d) < k /\ d # <<>> => nx[d[Len(d)]] = out
      BY <3>2 DEF Leads
    <3>7. Len(d) \in Nat /\ (Len(d) = 0 <=> d = <<>>)
      BY <3>3
    <3>8. ASSUME NEW i \in 1 .. Len(c) - 1
          PROVE  c[i + 1] = nx[c[i]]
      <4>1. i \in 1 .. Len(d) /\ c[i + 1] = d[i]
        BY <3>4, <3>7
      <4>2. CASE i = 1
        BY <3>4, <3>5, <3>7, <4>1, <4>2
      <4>3. CASE i # 1
        <5>1. i - 1 \in 1 .. Len(d) - 1 /\ i - 1 \in 1 .. Len(d)
          BY <4>1, <4>3
        <5>2. c[(i - 1) + 1] = d[i - 1] /\ d[(i - 1) + 1] = nx[d[i - 1]]
          BY <3>4, <3>6, <5>1
        <5> QED
          BY <4>1, <5>2
      <4> QED
        BY <4>2, <4>3
    <3>9. Len(c) < k + 1 => nx[c[Len(c)]] = out
      <4>1. CASE d = <<>>
        BY <3>4, <3>5, <3>7, <4>1
      <4>2. CASE d # <<>>
        BY <3>4, <3>6, <3>7, <4>2
      <4> QED
        BY <4>1, <4>2
    <3> QED
      BY <2>3, <3>4, <3>6, <3>7, <3>8, <3>9 DEF Leads, c
  <2> QED
    BY <2>2, <2>3
<1> HIDE DEF S
<1>4. Nat \subseteq S
  BY <1>2, <1>3, InductionOnNat
<1> QED
  BY <1>4 DEF S

LEMMA AtMost ==
  ASSUME NEW d \in Nat, NEW m \in Nat, NEW c, \A i \in 1 .. m : c[i] \in 0 .. (d - 1),
         \A i, j \in 1 .. m : c[i] = c[j] => i = j
  PROVE  m =< d
<1>1. IsFiniteSet(0 .. (d - 1)) /\ Cardinality(0 .. (d - 1)) = d
  <2>1. 0 \in Int /\ d - 1 \in Int
    OBVIOUS
  <2>2. /\ IsFiniteSet(0 .. (d - 1))
        /\ Cardinality(0 .. (d - 1)) = IF 0 > d - 1 THEN 0 ELSE (d - 1) - 0 + 1
    BY <2>1, FS_Interval, Zenon
  <2>3. (IF 0 > d - 1 THEN 0 ELSE (d - 1) - 0 + 1) = d
    OBVIOUS
  <2> QED
    BY <2>2, <2>3
<1>2. IsFiniteSet(1 .. m) /\ Cardinality(1 .. m) = m
  <2>1. 1 \in Int /\ m \in Int
    OBVIOUS
  <2>2. IsFiniteSet(1 .. m) /\ Cardinality(1 .. m) = IF 1 > m THEN 0 ELSE m - 1 + 1
    BY <2>1, FS_Interval, Zenon
  <2>3. (IF 1 > m THEN 0 ELSE m - 1 + 1) = m
    OBVIOUS
  <2> QED
    BY <2>2, <2>3
<1> SUFFICES ASSUME d < m
             PROVE  FALSE
  OBVIOUS
<1> DEFINE g == [i \in 1 .. m |-> c[i]]
<1>3. g \in [1 .. m -> 0 .. (d - 1)]
  OBVIOUS
<1>4. \A i \in 1 .. m : g[i] = c[i]
  OBVIOUS
<1> HIDE DEF g
<1>5. \E x, y \in 1 .. m : x # y /\ g[x] = g[y]
  BY <1>1, <1>2, <1>3, FS_PigeonHole
<1> QED
  BY <1>4, <1>5

LEMMA ListEnumerated ==
  ASSUME NEW d \in Nat, NEW N \in SUBSET (0 .. (d - 1)), NEW nx, DOMAIN nx = 0 .. (d - 1),
         NEW pv, NEW h, NEW t, NEW out \in Int, out \notin 0 .. (d - 1),
         NEW rk \in [0 .. (d - 1) -> Nat], Linked(N, nx, pv, h, t, out, rk)
  PROVE  LET c == Chain(h, nx, d + 1)
         IN  /\ Enumerates(c, N, nx, pv, h, t, out)
             /\ \A i, j \in 1 .. Len(c) : i < j => rk[c[i]] < rk[c[j]]
<1> DEFINE c == Chain(h, nx, d + 1)
<1>1. /\ h \in N \cup {out} /\ t \in N \cup {out} /\ (h = out <=> t = out) /\ out \notin N
      /\ \A x \in N : /\ nx[x] \in N \cup {out} /\ pv[x] \in N \cup {out}
                      /\ nx[x] \in N => pv[nx[x]] = x /\ rk[x] < rk[nx[x]]
                      /\ pv[x] \in N => nx[pv[x]] = x
                      /\ pv[x] = out <=> x = h
                      /\ nx[x] = out <=> x = t
  BY DEF Linked
<1>2. Leads(c, d + 1, h, N, nx, out)
  <2>1. PICK f : ChainFrom(f, nx, d + 1) /\ c = f[d + 1][h]
    BY ChainIs
  <2>2. /\ N \in SUBSET Int /\ N \subseteq DOMAIN nx /\ out \notin DOMAIN nx /\ d + 1 \in Nat
        /\ \A x \in N : nx[x] \in N \cup {out}
    BY <1>1
  <2>3. \A y \in N \cup {out} : Leads(f[d + 1][y], d + 1, y, N, nx, out)
    BY <2>1, <2>2, ChainLeads
  <2> QED
    BY <1>1, <2>1, <2>3
<1> HIDE DEF c
<1>3. /\ c \in Seq(N) /\ Len(c) \in Nat /\ Len(c) =< d + 1
      /\ \A i \in 1 .. Len(c) : c[i] \in N
      /\ \A i \in 1 .. Len(c) - 1 : c[i + 1] = nx[c[i]]
      /\ h = IF Len(c) = 0 THEN out ELSE c[1]
      /\ Len(c) < d + 1 /\ Len(c) # 0 => nx[c[Len(c)]] = out
  BY <1>2 DEF Leads
<1> DEFINE n == Len(c)
           S == {k \in Nat : \A i \in 1 .. n : i + k + 1 \in 1 .. n => rk[c[i]] < rk[c[i + k + 1]]}
<1>4. \A i \in 1 .. n : rk[c[i]] \in Nat
  BY <1>3
<1>5. \A i \in 1 .. n - 1 : rk[c[i]] < rk[c[i + 1]] /\ pv[c[i + 1]] = c[i] /\ i \in 1 .. n
  <2> SUFFICES ASSUME NEW i \in 1 .. n - 1
               PROVE  rk[c[i]] < rk[c[i + 1]] /\ pv[c[i + 1]] = c[i] /\ i \in 1 .. n
    OBVIOUS
  <2>1. i \in 1 .. n /\ i + 1 \in 1 .. n
    BY <1>3
  <2>2. c[i] \in N /\ c[i + 1] \in N /\ c[i + 1] = nx[c[i]]
    BY <1>3, <2>1
  <2> QED
    BY <1>1, <2>1, <2>2
<1>6. 0 \in S
  BY <1>3, <1>5
<1>7. ASSUME NEW k \in Nat, k \in S
      PROVE  k + 1 \in S
  <2> SUFFICES ASSUME NEW i \in 1 .. n, i + (k + 1) + 1 \in 1 .. n
               PROVE  rk[c[i]] < rk[c[i + (k + 1) + 1]]
    OBVIOUS
  <2>0. \A a \in 1 .. n : a + k + 1 \in 1 .. n => rk[c[a]] < rk[c[a + k + 1]]
    BY <1>7
  <2> DEFINE j == i + k + 1
  <2>1. j \in 1 .. n - 1 /\ j \in 1 .. n /\ j + 1 \in 1 .. n /\ i + (k + 1) + 1 = j + 1
    BY <1>3
  <2>2. rk[c[i]] < rk[c[j]]
    BY <2>0, <2>1
  <2> HIDE DEF j
  <2>3. rk[c[j]] < rk[c[j + 1]]
    BY <1>5, <2>1
  <2>4. rk[c[i]] \in Nat /\ rk[c[j]] \in Nat /\ rk[c[j + 1]] \in Nat
    BY <1>4, <2>1
  <2>5. rk[c[i]] < rk[c[j + 1]]
    BY <2>2, <2>3, <2>4
  <2> QED
    BY <2>1, <2>5, Zenon
<1> HIDE DEF S
<1>8. Nat \subseteq S
  BY <1>6, <1>7, InductionOnNat
<1>9. \A i, j \in 1 .. n : i < j => rk[c[i]] < rk[c[j]]
  <2> SUFFICES ASSUME NEW i \in 1 .. n, NEW j \in 1 .. n, i < j
               PROVE  rk[c[i]] < rk[c[j]]
    OBVIOUS
  <2>1. j - i - 1 \in Nat /\ i + (j - i - 1) + 1 = j
    BY <1>3
  <2>2. j - i - 1 \in S
    BY <1>8, <2>1
  <2> QED
    BY <2>1, <2>2 DEF S
<1>10. \A i, j \in 1 .. n : c[i] = c[j] => i = j
  <2> SUFFICES ASSUME NEW i \in 1 .. n, NEW j \in 1 .. n, c[i] = c[j], i # j
               PROVE  FALSE
    OBVIOUS
  <2>1. i < j \/ j < i
    BY <1>3
  <2>2. rk[c[i]] \in Nat
    BY <1>4
  <2> QED
    BY <1>9, <2>1, <2>2
<1>11. n =< d
  BY <1>3, <1>10, AtMost
<1>12. n # 0 => nx[c[n]] = out /\ c[n] = t /\ n \in 1 .. n
  <2> SUFFICES ASSUME n # 0
               PROVE  nx[c[n]] = out /\ c[n] = t /\ n \in 1 .. n
    OBVIOUS
  <2>1. n \in 1 .. n /\ n < d + 1
    BY <1>3, <1>11
  <2>2. nx[c[n]] = out
    BY <1>3, <2>1
  <2> QED
    BY <1>1, <1>3, <2>1, <2>2
<1>13. t = IF n = 0 THEN out ELSE c[n]
  BY <1>1, <1>3, <1>12
<1>14. ASSUME NEW i \in 1 .. n
       PROVE  /\ nx[c[i]] = IF i = n THEN out ELSE c[i + 1]
              /\ pv[c[i]] = IF i = 1 THEN out ELSE c[i - 1]
  <2>1. n # 0
    BY <1>3
  <2>2. nx[c[i]] = IF i = n THEN out ELSE c[i + 1]
    <3>1. CASE i = n
      BY <1>12, <2>1, <3>1
    <3>2. CASE i # n
      <4>1. i \in 1 .. n - 1
        BY <1>3, <3>2
      <4> QED
        BY <1>3, <3>2, <4>1
    <3> QED
      BY <3>1, <3>2
  <2>3. pv[c[i]] = IF i = 1 THEN out ELSE c[i - 1]
    <3>1. CASE i = 1
      <4>1. c[1] = h /\ c[1] \in N
        BY <1>3, <2>1, <3>1
      <4> QED
        BY <1>1, <3>1, <4>1
    <3>2. CASE i # 1
      <4>1. i - 1 \in 1 .. n - 1 /\ (i - 1) + 1 = i
        BY <1>3, <3>2
      <4>2. pv[c[(i - 1) + 1]] = c[i - 1]
        BY <1>5, <4>1
      <4> QED
        BY <3>2, <4>1, <4>2
    <3> QED
      BY <3>1, <3>2
  <2> QED
    BY <2>2, <2>3
<1>15. \A x \in N : \E i \in 1 .. n : c[i] = x
  <2> DEFINE Met == {c[i] : i \in 1 .. n}
             R == {rk[x] : x \in N \ Met}
  <2> SUFFICES ASSUME N \ Met # {}
               PROVE  FALSE
    OBVIOUS
  <2>1. R \in SUBSET Nat /\ R # {}
    OBVIOUS
  <2> HIDE DEF R
  <2>2. PICK r \in R : \A q \in R : r =< q
    BY <2>1, LeastElement
  <2>3. PICK x \in N \ Met : \A y \in N \ Met : rk[x] =< rk[y]
    <3>1. PICK x \in N \ Met : r = rk[x]
      BY DEF R
    <3>2. \A y \in N \ Met : rk[y] \in R
      BY DEF R
    <3> QED
      BY <2>2, <3>1, <3>2
  <2>4. CASE pv[x] = out
    <3>1. x = h /\ h # out
      BY <1>1, <2>4
    <3>2. n # 0 /\ x = c[1]
      BY <1>3, <3>1
    <3>3. 1 \in 1 .. n
      BY <1>3, <3>2
    <3> QED
      BY <2>3, <3>2, <3>3
  <2>5. CASE pv[x] # out
    <3>1. pv[x] \in N /\ nx[pv[x]] = x /\ rk[pv[x]] < rk[x]
      <4> HIDE DEF Met
      <4>1. pv[x] \in N
        BY <1>1, <2>5
      <4>2. nx[pv[x]] = x
        BY <1>1, <4>1
      <4> QED
        BY <1>1, <4>1, <4>2
    <3>2. rk[pv[x]] \in Nat /\ rk[x] \in Nat
      BY <3>1
    <3>3. pv[x] \in Met
      <4>1. CASE pv[x] \in N \ Met
        <5>1. rk[x] =< rk[pv[x]]
          BY <2>3, <4>1
        <5> QED
          BY <3>1, <3>2, <5>1
      <4> QED
        BY <3>1, <4>1
    <3>4. PICK i \in 1 .. n : c[i] = pv[x]
      BY <3>3
    <3>5. x = IF i = n THEN out ELSE c[i + 1]
      BY <1>14, <3>1, <3>4
    <3>6. i # n /\ i + 1 \in 1 .. n
      BY <1>1, <1>3, <3>5
    <3> QED
      BY <2>3, <3>5, <3>6
  <2> QED
    BY <2>4, <2>5
<1>16. Enumerates(c, N, nx, pv, h, t, out)
  BY <1>3, <1>10, <1>13, <1>14, <1>15 DEF Enumerates
<1> QED
  BY <1>9, <1>16 DEF c

-----------------------------------------------------------------------------
(* References.                                                             *)

LEMMA SizesTyped ==
  /\ block_cap \in Nat /\ block_cap >= 2 /\ BLOCK_SIZE \in Nat /\ BLOCK_SIZE > 0
  /\ nships \in Nat /\ nships > 0 /\ SHIP_BIT \in Nat
BY StoreSizes DEF SHIP_BIT

LEMMA DivMod ==
  ASSUME NEW n \in Nat, n > 0, NEW r \in Int
  PROVE  /\ r \div n \in Int /\ r % n \in 0 .. (n - 1)
         /\ r = (r \div n) * n + (r % n)
         /\ \A q \in Int, m \in 0 .. (n - 1) : r = q * n + m => r \div n = q /\ r % n = m
OBVIOUS

LEMMA RefIs ==
  ASSUME NEW b \in Block, NEW i \in 0 .. (BLOCK_SIZE - 1)
  PROVE  Ref(b, i) \in PointRef /\ blockOf(Ref(b, i)) = b /\ slotOf(Ref(b, i)) = i
<1>1. b \in Nat /\ b + 1 =< block_cap /\ i \in Nat
  BY SizesTyped DEF Block
<1>2. (b + 1) * BLOCK_SIZE =< block_cap * BLOCK_SIZE /\ b * BLOCK_SIZE \in Nat
  BY <1>1, SizesTyped
<1>3. (b + 1) * BLOCK_SIZE = b * BLOCK_SIZE + BLOCK_SIZE
  BY <1>1, SizesTyped
<1>4. Ref(b, i) \in Nat /\ Ref(b, i) < SHIP_BIT
  BY <1>1, <1>2, <1>3, SizesTyped DEF Ref, SHIP_BIT
<1>5. Ref(b, i) \div BLOCK_SIZE = b /\ Ref(b, i) % BLOCK_SIZE = i
  BY <1>1, <1>4, SizesTyped, DivMod DEF Ref
<1> QED
  BY <1>4, <1>5, SizesTyped DEF PointRef, blockOf, slotOf

LEMMA PointRefIs ==
  ASSUME NEW r \in PointRef
  PROVE  blockOf(r) \in Block /\ slotOf(r) \in 0 .. (BLOCK_SIZE - 1) /\ r = Ref(blockOf(r), slotOf(r))
<1>1. r \in Nat /\ r < block_cap * BLOCK_SIZE
  BY SizesTyped DEF PointRef, SHIP_BIT
<1> DEFINE q == r \div BLOCK_SIZE
           m == r % BLOCK_SIZE
<1>2. q \in Int /\ m \in 0 .. (BLOCK_SIZE - 1) /\ r = q * BLOCK_SIZE + m
  BY <1>1, SizesTyped, DivMod
<1> HIDE DEF q, m
<1>3. q >= 0
  <2>1. CASE q =< -1
    <3>1. q * BLOCK_SIZE =< (-1) * BLOCK_SIZE
      BY <1>2, <2>1, SizesTyped
    <3> QED
      BY <1>1, <1>2, <3>1, SizesTyped
  <2> QED
    BY <1>2, <2>1
<1>4. q < block_cap
  <2>1. CASE q >= block_cap
    <3>1. q * BLOCK_SIZE >= block_cap * BLOCK_SIZE
      BY <1>2, <2>1, SizesTyped
    <3> QED
      BY <1>1, <1>2, <3>1, SizesTyped
  <2> QED
    BY <1>2, <2>1, SizesTyped
<1> QED
  BY <1>2, <1>3, <1>4, SizesTyped DEF q, m, Block, blockOf, slotOf, Ref

LEMMA AnyRefIs ==
  /\ PointRef \subseteq AnyRef /\ PointRef \subseteq Int /\ AnyRef \subseteq Int /\ NIL \notin AnyRef
  /\ \A r \in AnyRef : isPoint(r) <=> r \in PointRef
  /\ \A r \in AnyRef \ PointRef : r - SHIP_BIT \in Ship /\ r = Anchor(r - SHIP_BIT)
BY SizesTyped DEF PointRef, AnyRef, NIL, isPoint, Ship, Anchor

LEMMA AnchorIs ==
  ASSUME NEW a \in Ship
  PROVE  /\ Anchor(a) \in AnyRef \ PointRef /\ Anchor(a) \in Int /\ ~isPoint(Anchor(a))
         /\ Anchor(a) - SHIP_BIT = a
         /\ \A c \in Ship : Anchor(c) = Anchor(a) => c = a
BY SizesTyped DEF PointRef, AnyRef, isPoint, Ship, Anchor

-----------------------------------------------------------------------------
(* What the operations on lists do to each field.                          *)

(* A store inside an operation: the counts of live points may be wrong.    *)
PointShape == [time : Nat, dur : Nat, prev : AnyRef \cup {NIL}, next : AnyRef \cup {NIL}]
BlockShape == [prev : Block \cup {-1}, next : Block \cup {-1}, count : 0 .. BLOCK_SIZE, live : Int]
TrackShape == [head : AnyRef, tail : AnyRef]
EndsShape == [head : Block \cup {-1}, tail : Block \cup {-1}]

Shape == [pts : [PointRef -> PointShape], blocks : [Block -> BlockShape], size : 0 .. block_cap,
          anchors : [Ship -> TrackShape], lists : [Tier -> EndsShape]]

LEMMA WithPts ==
  ASSUME NEW s \in Shape, NEW p \in [PointRef -> PointShape]
  PROVE  LET u == [s EXCEPT !.pts = p] IN
         /\ u \in Shape /\ u.pts = p /\ u.blocks = s.blocks /\ u.size = s.size
         /\ u.anchors = s.anchors /\ u.lists = s.lists
BY DEF Shape

LEMMA WithBlocks ==
  ASSUME NEW s \in Shape, NEW p \in [Block -> BlockShape]
  PROVE  LET u == [s EXCEPT !.blocks = p] IN
         /\ u \in Shape /\ u.blocks = p /\ u.pts = s.pts /\ u.size = s.size
         /\ u.anchors = s.anchors /\ u.lists = s.lists
BY DEF Shape

LEMMA WithSize ==
  ASSUME NEW s \in Shape, NEW p \in 0 .. block_cap
  PROVE  LET u == [s EXCEPT !.size = p] IN
         /\ u \in Shape /\ u.size = p /\ u.pts = s.pts /\ u.blocks = s.blocks
         /\ u.anchors = s.anchors /\ u.lists = s.lists
BY DEF Shape

LEMMA WithAnchors ==
  ASSUME NEW s \in Shape, NEW p \in [Ship -> TrackShape]
  PROVE  LET u == [s EXCEPT !.anchors = p] IN
         /\ u \in Shape /\ u.anchors = p /\ u.pts = s.pts /\ u.blocks = s.blocks
         /\ u.size = s.size /\ u.lists = s.lists
BY DEF Shape

LEMMA WithLists ==
  ASSUME NEW s \in Shape, NEW p \in [Tier -> EndsShape]
  PROVE  LET u == [s EXCEPT !.lists = p] IN
         /\ u \in Shape /\ u.lists = p /\ u.pts = s.pts /\ u.blocks = s.blocks
         /\ u.size = s.size /\ u.anchors = s.anchors
BY DEF Shape

LEMMA ShapeFields ==
  ASSUME NEW s \in Shape
  PROVE  /\ s.pts \in [PointRef -> PointShape] /\ s.blocks \in [Block -> BlockShape]
         /\ s.size \in 0 .. block_cap /\ s.anchors \in [Ship -> TrackShape]
         /\ s.lists \in [Tier -> EndsShape]
BY DEF Shape

SameTiers(s, u) == u.blocks = s.blocks /\ u.size = s.size /\ u.lists = s.lists

NextSet(s, u, r, v) ==
  /\ u \in Shape /\ SameTiers(s, u)
  /\ \A y \in PointRef : /\ u.pts[y].time = s.pts[y].time /\ u.pts[y].dur = s.pts[y].dur
                         /\ u.pts[y].prev = s.pts[y].prev
                         /\ u.pts[y].next = IF y = r THEN v ELSE s.pts[y].next
  /\ \A a \in Ship : /\ u.anchors[a].head = IF Anchor(a) = r THEN v ELSE s.anchors[a].head
                     /\ u.anchors[a].tail = s.anchors[a].tail

PrevSet(s, u, r, v) ==
  /\ u \in Shape /\ SameTiers(s, u)
  /\ \A y \in PointRef : /\ u.pts[y].time = s.pts[y].time /\ u.pts[y].dur = s.pts[y].dur
                         /\ u.pts[y].next = s.pts[y].next
                         /\ u.pts[y].prev = IF y = r THEN v ELSE s.pts[y].prev
  /\ \A a \in Ship : /\ u.anchors[a].tail = IF Anchor(a) = r THEN v ELSE s.anchors[a].tail
                     /\ u.anchors[a].head = s.anchors[a].head

LEMMA SetNextIs ==
  ASSUME NEW s \in Shape, NEW r \in AnyRef, NEW v \in AnyRef
  PROVE  NextSet(s, setNext(s, r, v), r, v)
<1> DEFINE u == setNext(s, r, v)
<1> SUFFICES NextSet(s, u, r, v)
  OBVIOUS
<1>0. s.pts \in [PointRef -> PointShape] /\ s.anchors \in [Ship -> TrackShape]
  BY ShapeFields
<1>1. CASE isPoint(r)
  <2>1. r \in PointRef /\ \A a \in Ship : Anchor(a) # r
    BY <1>1, AnyRefIs, AnchorIs
  <2> DEFINE p == [s.pts EXCEPT ![r].next = v]
  <2>2. u = [s EXCEPT !.pts = p]
    BY <1>1, <2>1 DEF setNext
  <2>3. /\ p \in [PointRef -> PointShape]
        /\ \A y \in PointRef : /\ p[y].time = s.pts[y].time /\ p[y].dur = s.pts[y].dur
                               /\ p[y].prev = s.pts[y].prev
                               /\ p[y].next = IF y = r THEN v ELSE s.pts[y].next
    BY <1>0, <2>1 DEF PointShape
  <2> HIDE DEF p, u
  <2>4. /\ u \in Shape /\ u.pts = p /\ u.blocks = s.blocks /\ u.size = s.size
        /\ u.anchors = s.anchors /\ u.lists = s.lists
    BY <2>2, <2>3, WithPts
  <2> QED
    BY <2>1, <2>3, <2>4 DEF NextSet, SameTiers
<1>2. CASE ~isPoint(r)
  <2>1. r \notin PointRef /\ r - SHIP_BIT \in Ship /\ r = Anchor(r - SHIP_BIT)
    BY <1>2, AnyRefIs
  <2> DEFINE q == r - SHIP_BIT
             p == [s.anchors EXCEPT ![q].head = v]
  <2>2. u = [s EXCEPT !.anchors = p]
    BY <1>2, <2>1 DEF setNext
  <2>3. \A a \in Ship : Anchor(a) = r <=> a = q
    BY <2>1, AnchorIs
  <2>4. q \in Ship
    BY <2>1
  <2> HIDE DEF q
  <2>5. /\ p \in [Ship -> TrackShape]
        /\ \A a \in Ship : /\ p[a].tail = s.anchors[a].tail
                           /\ p[a].head = IF a = q THEN v ELSE s.anchors[a].head
    BY <1>0, <2>4 DEF TrackShape
  <2> HIDE DEF p, u
  <2>6. /\ u \in Shape /\ u.anchors = p /\ u.pts = s.pts /\ u.blocks = s.blocks
        /\ u.size = s.size /\ u.lists = s.lists
    BY <2>2, <2>5, WithAnchors
  <2>7. \A y \in PointRef : y # r
    BY <2>1
  <2> QED
    BY <2>3, <2>5, <2>6, <2>7 DEF NextSet, SameTiers
<1> QED
  BY <1>1, <1>2

LEMMA SetPrevIs ==
  ASSUME NEW s \in Shape, NEW r \in AnyRef, NEW v \in AnyRef
  PROVE  PrevSet(s, setPrev(s, r, v), r, v)
<1> DEFINE u == setPrev(s, r, v)
<1> SUFFICES PrevSet(s, u, r, v)
  OBVIOUS
<1>0. s.pts \in [PointRef -> PointShape] /\ s.anchors \in [Ship -> TrackShape]
  BY ShapeFields
<1>1. CASE isPoint(r)
  <2>1. r \in PointRef /\ \A a \in Ship : Anchor(a) # r
    BY <1>1, AnyRefIs, AnchorIs
  <2> DEFINE p == [s.pts EXCEPT ![r].prev = v]
  <2>2. u = [s EXCEPT !.pts = p]
    BY <1>1, <2>1 DEF setPrev
  <2>3. /\ p \in [PointRef -> PointShape]
        /\ \A y \in PointRef : /\ p[y].time = s.pts[y].time /\ p[y].dur = s.pts[y].dur
                               /\ p[y].next = s.pts[y].next
                               /\ p[y].prev = IF y = r THEN v ELSE s.pts[y].prev
    BY <1>0, <2>1 DEF PointShape
  <2> HIDE DEF p, u
  <2>4. /\ u \in Shape /\ u.pts = p /\ u.blocks = s.blocks /\ u.size = s.size
        /\ u.anchors = s.anchors /\ u.lists = s.lists
    BY <2>2, <2>3, WithPts
  <2> QED
    BY <2>1, <2>3, <2>4 DEF PrevSet, SameTiers
<1>2. CASE ~isPoint(r)
  <2>1. r \notin PointRef /\ r - SHIP_BIT \in Ship /\ r = Anchor(r - SHIP_BIT)
    BY <1>2, AnyRefIs
  <2> DEFINE q == r - SHIP_BIT
             p == [s.anchors EXCEPT ![q].tail = v]
  <2>2. u = [s EXCEPT !.anchors = p]
    BY <1>2, <2>1 DEF setPrev
  <2>3. \A a \in Ship : Anchor(a) = r <=> a = q
    BY <2>1, AnchorIs
  <2>4. q \in Ship
    BY <2>1
  <2> HIDE DEF q
  <2>5. /\ p \in [Ship -> TrackShape]
        /\ \A a \in Ship : /\ p[a].head = s.anchors[a].head
                           /\ p[a].tail = IF a = q THEN v ELSE s.anchors[a].tail
    BY <1>0, <2>4 DEF TrackShape
  <2> HIDE DEF p, u
  <2>6. /\ u \in Shape /\ u.anchors = p /\ u.pts = s.pts /\ u.blocks = s.blocks
        /\ u.size = s.size /\ u.lists = s.lists
    BY <2>2, <2>5, WithAnchors
  <2>7. \A y \in PointRef : y # r
    BY <2>1
  <2> QED
    BY <2>3, <2>5, <2>6, <2>7 DEF PrevSet, SameTiers
<1> QED
  BY <1>1, <1>2

-----------------------------------------------------------------------------
(* The operations on a point.                                              *)

(* Tiers and sizes apart, blocks keep what they are linked to.             *)
SameLinks(s, u) ==
  /\ u.lists = s.lists /\ u.size = s.size
  /\ \A c \in Block : u.blocks[c].prev = s.blocks[c].prev /\ u.blocks[c].next = s.blocks[c].next

Unlinked(s, u, r) ==
  LET p == s.pts[r] IN
  /\ u \in Shape /\ SameLinks(s, u)
  /\ \A c \in Block : /\ u.blocks[c].count = s.blocks[c].count
                      /\ u.blocks[c].live = IF c = blockOf(r) THEN s.blocks[c].live - 1
                                                              ELSE s.blocks[c].live
  /\ \A y \in PointRef \ {r} :
       /\ u.pts[y].time = s.pts[y].time /\ u.pts[y].dur = s.pts[y].dur
       /\ u.pts[y].next = IF y = p.prev THEN p.next ELSE s.pts[y].next
       /\ u.pts[y].prev = IF y = p.next THEN p.prev ELSE s.pts[y].prev
  /\ u.pts[r].time = p.time /\ u.pts[r].dur = 0 /\ u.pts[r].prev = NIL
  /\ \A a \in Ship :
       /\ u.anchors[a].head = IF Anchor(a) = p.prev THEN p.next ELSE s.anchors[a].head
       /\ u.anchors[a].tail = IF Anchor(a) = p.next THEN p.prev ELSE s.anchors[a].tail

LEMMA BlankIs ==
  ASSUME NEW t \in Nat
  PROVE  /\ Blank \in PointShape /\ Blank.prev = NIL /\ Blank.time = 0 /\ Blank.dur = 0
         /\ [Blank EXCEPT !.time = t] \in PointShape /\ [Blank EXCEPT !.time = t].time = t
         /\ [Blank EXCEPT !.time = t].dur = 0 /\ [Blank EXCEPT !.time = t].prev = NIL
BY DEF Blank, PointShape

LEMMA UnlinkIs ==
  ASSUME NEW s \in Shape, NEW r \in PointRef, s.pts[r].prev \in AnyRef, s.pts[r].next \in AnyRef
  PROVE  Unlinked(s, unlink(s, r), r)
<1> DEFINE p == s.pts[r]
           n == setNext(s, p.prev, p.next)
           m == setPrev(n, p.next, p.prev)
           q == [Blank EXCEPT !.time = p.time]
           b == blockOf(r)
           pts == [m.pts EXCEPT ![r] = q]
           bl == [m.blocks EXCEPT ![b] = [m.blocks[b] EXCEPT !.live = m.blocks[b].live - 1]]
           v == [m EXCEPT !.pts = pts]
           u == [v EXCEPT !.blocks = bl]
<1>1. NextSet(s, n, p.prev, p.next)
  BY SetNextIs
<1>2. n \in Shape
  BY <1>1 DEF NextSet
<1>3. PrevSet(n, m, p.next, p.prev)
  BY <1>2, SetPrevIs
<1>4. m \in Shape
  BY <1>3 DEF PrevSet
<1>5. b \in Block /\ p \in PointShape /\ p.time \in Nat
  BY PointRefIs, ShapeFields DEF PointShape
<1>6. q \in PointShape /\ q.time = p.time /\ q.dur = 0 /\ q.prev = NIL
  BY <1>5, BlankIs
<1>7. unlink(s, r) = [m EXCEPT !.pts[r] = q, !.blocks[b].live = @ - 1]
  BY DEF unlink
<1>20. m.pts \in [PointRef -> PointShape] /\ m.blocks \in [Block -> BlockShape]
  BY <1>4, ShapeFields
<1> HIDE DEF n, m, q, b
<1>8. pts \in [PointRef -> PointShape] /\ pts[r] = q /\ \A y \in PointRef \ {r} : pts[y] = m.pts[y]
  BY <1>6, <1>20
<1>9. /\ bl \in [Block -> BlockShape]
      /\ \A c \in Block : /\ bl[c].prev = m.blocks[c].prev /\ bl[c].next = m.blocks[c].next
                          /\ bl[c].count = m.blocks[c].count
                          /\ bl[c].live = IF c = b THEN m.blocks[c].live - 1 ELSE m.blocks[c].live
  BY <1>5, <1>20 DEF BlockShape
<1>10. unlink(s, r) = u
  BY <1>4, <1>5, <1>7, <1>20 DEF Shape, BlockShape
<1> HIDE DEF pts, bl
<1>11. /\ v \in Shape /\ v.pts = pts /\ v.blocks = m.blocks /\ v.size = m.size
       /\ v.anchors = m.anchors /\ v.lists = m.lists
  BY <1>4, <1>8, WithPts
<1> HIDE DEF v
<1>12. /\ u \in Shape /\ u.pts = pts /\ u.blocks = bl /\ u.size = m.size
       /\ u.anchors = m.anchors /\ u.lists = m.lists
  BY <1>9, <1>11, WithBlocks
<1> HIDE DEF u
<1>13. m.blocks = s.blocks /\ m.size = s.size /\ m.lists = s.lists
  BY <1>1, <1>3 DEF NextSet, PrevSet, SameTiers
<1>14. SameLinks(s, u)
  BY <1>9, <1>12, <1>13 DEF SameLinks
<1>15. \A c \in Block : /\ u.blocks[c].count = s.blocks[c].count
                        /\ u.blocks[c].live = IF c = blockOf(r) THEN s.blocks[c].live - 1
                                                                ELSE s.blocks[c].live
  BY <1>9, <1>12, <1>13 DEF b
<1>16. ASSUME NEW y \in PointRef \ {r}
       PROVE  /\ u.pts[y].time = s.pts[y].time /\ u.pts[y].dur = s.pts[y].dur
              /\ u.pts[y].next = IF y = p.prev THEN p.next ELSE s.pts[y].next
              /\ u.pts[y].prev = IF y = p.next THEN p.prev ELSE s.pts[y].prev
  BY <1>1, <1>3, <1>8, <1>12 DEF NextSet, PrevSet
<1>17. ASSUME NEW a \in Ship
       PROVE  /\ u.anchors[a].head = IF Anchor(a) = p.prev THEN p.next ELSE s.anchors[a].head
              /\ u.anchors[a].tail = IF Anchor(a) = p.next THEN p.prev ELSE s.anchors[a].tail
  BY <1>1, <1>3, <1>12 DEF NextSet, PrevSet
<1>18. u.pts[r].time = p.time /\ u.pts[r].dur = 0 /\ u.pts[r].prev = NIL
  BY <1>6, <1>8, <1>12
<1> QED
  BY <1>10, <1>12, <1>14, <1>15, <1>16, <1>17, <1>18 DEF Unlinked

(* A point in the next slot of block b, its neighbours linked to it.       *)
linkedIn(s, b, p) == setPrev(setNext(written(s, b, p), p.prev, Slot(s, b)), p.next, Slot(s, b))

Inserted(s, u, b, p) ==
  LET z == Slot(s, b) IN
  /\ u \in Shape /\ SameLinks(s, u)
  /\ \A c \in Block : /\ u.blocks[c].count = IF c = b THEN s.blocks[c].count + 1
                                                      ELSE s.blocks[c].count
                      /\ u.blocks[c].live = IF c = b THEN s.blocks[c].live + 1
                                                     ELSE s.blocks[c].live
  /\ \A y \in PointRef \ {z} :
       /\ u.pts[y].time = s.pts[y].time /\ u.pts[y].dur = s.pts[y].dur
       /\ u.pts[y].next = IF y = p.prev THEN z ELSE s.pts[y].next
       /\ u.pts[y].prev = IF y = p.next THEN z ELSE s.pts[y].prev
  /\ u.pts[z].time = p.time /\ u.pts[z].dur = p.dur
  /\ u.pts[z].next = p.next /\ u.pts[z].prev = p.prev
  /\ \A a \in Ship :
       /\ u.anchors[a].head = IF Anchor(a) = p.prev THEN z ELSE s.anchors[a].head
       /\ u.anchors[a].tail = IF Anchor(a) = p.next THEN z ELSE s.anchors[a].tail

LEMMA SlotIs ==
  ASSUME NEW s \in Shape, NEW b \in Block, s.blocks[b].count < BLOCK_SIZE
  PROVE  /\ Slot(s, b) \in PointRef /\ Slot(s, b) \in AnyRef /\ blockOf(Slot(s, b)) = b
         /\ slotOf(Slot(s, b)) = s.blocks[b].count
<1>1. s.blocks[b].count \in 0 .. (BLOCK_SIZE - 1)
  BY ShapeFields, SizesTyped DEF BlockShape
<1> QED
  BY <1>1, RefIs, AnyRefIs DEF Slot

LEMMA InsertIs ==
  ASSUME NEW s \in Shape, NEW b \in Block, s.blocks[b].count < BLOCK_SIZE, NEW p \in PointShape,
         p.prev \in AnyRef \ {Slot(s, b)}, p.next \in AnyRef \ {Slot(s, b)}
  PROVE  Inserted(s, linkedIn(s, b, p), b, p)
<1> DEFINE z == Slot(s, b)
           pts == [s.pts EXCEPT ![z] = p]
           bl == [s.blocks EXCEPT ![b] = [s.blocks[b] EXCEPT !.count = s.blocks[b].count + 1,
                                                             !.live = s.blocks[b].live + 1]]
           v == [s EXCEPT !.blocks = bl]
           w == [v EXCEPT !.pts = pts]
           n == setNext(w, p.prev, z)
           u == setPrev(n, p.next, z)
<1>1. z \in PointRef /\ z \in AnyRef
  BY SlotIs
<1>2. /\ s.pts \in [PointRef -> PointShape] /\ s.blocks \in [Block -> BlockShape]
      /\ s.blocks[b].count + 1 \in 0 .. BLOCK_SIZE /\ s.blocks[b].live + 1 \in Int
  BY ShapeFields, SizesTyped DEF BlockShape
<1> HIDE DEF z
<1>3. written(s, b, p) = w
  BY <1>1, <1>2 DEF Shape, BlockShape, written, z
<1>4. linkedIn(s, b, p) = u
  BY <1>3 DEF linkedIn, z
<1>5. pts \in [PointRef -> PointShape] /\ pts[z] = p /\ \A y \in PointRef \ {z} : pts[y] = s.pts[y]
  BY <1>1, <1>2
<1>6. /\ bl \in [Block -> BlockShape]
      /\ \A c \in Block : /\ bl[c].prev = s.blocks[c].prev /\ bl[c].next = s.blocks[c].next
                          /\ bl[c].count = IF c = b THEN s.blocks[c].count + 1 ELSE s.blocks[c].count
                          /\ bl[c].live = IF c = b THEN s.blocks[c].live + 1 ELSE s.blocks[c].live
  BY <1>2 DEF BlockShape
<1> HIDE DEF pts, bl
<1>7. /\ v \in Shape /\ v.blocks = bl /\ v.pts = s.pts /\ v.size = s.size
      /\ v.anchors = s.anchors /\ v.lists = s.lists
  BY <1>6, WithBlocks
<1> HIDE DEF v
<1>8. /\ w \in Shape /\ w.pts = pts /\ w.blocks = bl /\ w.size = s.size
      /\ w.anchors = s.anchors /\ w.lists = s.lists
  BY <1>5, <1>7, WithPts
<1> HIDE DEF w
<1>9. NextSet(w, n, p.prev, z)
  BY <1>1, <1>8, SetNextIs
<1>10. n \in Shape
  BY <1>9 DEF NextSet
<1> HIDE DEF n
<1>11. PrevSet(n, u, p.next, z)
  BY <1>1, <1>10, SetPrevIs
<1> HIDE DEF u
<1>12. u \in Shape /\ u.blocks = bl /\ u.size = s.size /\ u.lists = s.lists
  BY <1>8, <1>9, <1>11 DEF NextSet, PrevSet, SameTiers
<1>13. SameLinks(s, u)
  BY <1>6, <1>12 DEF SameLinks
<1>14. \A c \in Block : /\ u.blocks[c].count = IF c = b THEN s.blocks[c].count + 1
                                                        ELSE s.blocks[c].count
                        /\ u.blocks[c].live = IF c = b THEN s.blocks[c].live + 1
                                                       ELSE s.blocks[c].live
  BY <1>6, <1>12
<1>15. \A y \in PointRef :
         /\ u.pts[y].time = pts[y].time /\ u.pts[y].dur = pts[y].dur
         /\ u.pts[y].next = IF y = p.prev THEN z ELSE pts[y].next
         /\ u.pts[y].prev = IF y = p.next THEN z ELSE pts[y].prev
  BY <1>8, <1>9, <1>11 DEF NextSet, PrevSet
<1>16. \A y \in PointRef \ {z} :
         /\ u.pts[y].time = s.pts[y].time /\ u.pts[y].dur = s.pts[y].dur
         /\ u.pts[y].next = IF y = p.prev THEN z ELSE s.pts[y].next
         /\ u.pts[y].prev = IF y = p.next THEN z ELSE s.pts[y].prev
  BY <1>5, <1>15
<1>17. /\ u.pts[z].time = p.time /\ u.pts[z].dur = p.dur
       /\ u.pts[z].next = p.next /\ u.pts[z].prev = p.prev
  BY <1>1, <1>5, <1>15 DEF z
<1>18. \A a \in Ship :
         /\ u.anchors[a].head = IF Anchor(a) = p.prev THEN z ELSE s.anchors[a].head
         /\ u.anchors[a].tail = IF Anchor(a) = p.next THEN z ELSE s.anchors[a].tail
  BY <1>8, <1>9, <1>11 DEF NextSet, PrevSet
<1> QED
  BY <1>4, <1>12, <1>13, <1>14, <1>16, <1>17, <1>18 DEF Inserted, z

(* The slots of a block blanked.                                           *)
Emptied(s, u, b) ==
  /\ u \in Shape /\ SameLinks(s, u) /\ u.anchors = s.anchors
  /\ \A c \in Block : /\ u.blocks[c].count = IF c = b THEN 0 ELSE s.blocks[c].count
                      /\ u.blocks[c].live = IF c = b THEN 0 ELSE s.blocks[c].live
  /\ \A y \in PointRef : /\ blockOf(y) = b => u.pts[y] = Blank
                         /\ blockOf(y) # b => u.pts[y] = s.pts[y]

LEMMA EmptiedIs ==
  ASSUME NEW s \in Shape, NEW b \in Block
  PROVE  Emptied(s, emptied(s, b), b)
<1> DEFINE pts == [r \in PointRef |-> IF blockOf(r) = b THEN Blank ELSE s.pts[r]]
           bl == [s.blocks EXCEPT ![b] = [s.blocks[b] EXCEPT !.count = 0, !.live = 0]]
           v == [s EXCEPT !.blocks = bl]
           u == [v EXCEPT !.pts = pts]
<1>1. s.pts \in [PointRef -> PointShape] /\ s.blocks \in [Block -> BlockShape]
  BY ShapeFields
<1>2. emptied(s, b) = [s EXCEPT !.blocks = bl, !.pts = pts]
  BY <1>1 DEF emptied, Shape, BlockShape
<1>3. emptied(s, b) = u
  BY <1>2 DEF Shape
<1>4. Blank \in PointShape /\ 0 \in 0 .. BLOCK_SIZE /\ 0 \in Int
  <2>1. 0 \in Nat
    OBVIOUS
  <2>2. Blank \in PointShape
    BY <2>1, BlankIs
  <2> QED
    BY <2>2, SizesTyped
<1>5. /\ pts \in [PointRef -> PointShape]
      /\ \A y \in PointRef : /\ blockOf(y) = b => pts[y] = Blank
                             /\ blockOf(y) # b => pts[y] = s.pts[y]
  BY <1>1, <1>4
<1>6. /\ bl \in [Block -> BlockShape]
      /\ \A c \in Block : /\ bl[c].prev = s.blocks[c].prev /\ bl[c].next = s.blocks[c].next
                          /\ bl[c].count = IF c = b THEN 0 ELSE s.blocks[c].count
                          /\ bl[c].live = IF c = b THEN 0 ELSE s.blocks[c].live
  <2>1. [s.blocks[b] EXCEPT !.count = 0, !.live = 0] \in BlockShape
    BY <1>1, <1>4 DEF BlockShape
  <2> QED
    BY <1>1, <2>1 DEF BlockShape
<1> HIDE DEF pts, bl
<1>7. /\ v \in Shape /\ v.blocks = bl /\ v.pts = s.pts /\ v.size = s.size
      /\ v.anchors = s.anchors /\ v.lists = s.lists
  BY <1>6, WithBlocks
<1> HIDE DEF v
<1>8. /\ u \in Shape /\ u.pts = pts /\ u.blocks = bl /\ u.size = s.size
      /\ u.anchors = s.anchors /\ u.lists = s.lists
  BY <1>5, <1>7, WithPts
<1> HIDE DEF u
<1>9. SameLinks(s, u)
  BY <1>6, <1>8 DEF SameLinks
<1> QED
  BY <1>3, <1>5, <1>6, <1>8, <1>9 DEF Emptied


(* Only tiers and what blocks are linked to change.                        *)
SamePoints(s, u) ==
  /\ u \in Shape /\ u.pts = s.pts /\ u.anchors = s.anchors
  /\ \A c \in Block : u.blocks[c].count = s.blocks[c].count /\ u.blocks[c].live = s.blocks[c].live

Pushed(s, u, t, b) ==
  LET h == s.lists[t].head IN
  /\ SamePoints(s, u) /\ u.size = s.size
  /\ \A c \in Block \ {b} : /\ u.blocks[c].next = s.blocks[c].next
                            /\ u.blocks[c].prev = IF c = h THEN b ELSE s.blocks[c].prev
  /\ u.blocks[b].prev = -1 /\ u.blocks[b].next = h
  /\ \A v \in Tier \ {t} : u.lists[v] = s.lists[v]
  /\ u.lists[t].head = b
  /\ u.lists[t].tail = IF s.lists[t].tail = -1 THEN b ELSE s.lists[t].tail

LEMMA PushIs ==
  ASSUME NEW s \in Shape, NEW t \in Tier, NEW b \in Block, s.lists[t].head # b
  PROVE  Pushed(s, pushBlockHead(s, t, b), t, b)
<1> DEFINE h == s.lists[t].head
           bl == [s.blocks EXCEPT ![b] = [s.blocks[b] EXCEPT !.prev = -1, !.next = h]]
           bl2 == IF h # -1 THEN [bl EXCEPT ![h] = [bl[h] EXCEPT !.prev = b]] ELSE bl
           ls == [s.lists EXCEPT ![t] = [s.lists[t] EXCEPT !.head = b,
                                                           !.tail = IF @ = -1 THEN b ELSE @]]
           v == [s EXCEPT !.blocks = bl2]
           u == [v EXCEPT !.lists = ls]
<1>1. /\ s.blocks \in [Block -> BlockShape] /\ s.lists \in [Tier -> EndsShape]
      /\ h \in Block \cup {-1} /\ s.lists[t].tail \in Block \cup {-1} /\ -1 \notin Block
  BY ShapeFields DEF EndsShape, Block
<1>2. /\ bl \in [Block -> BlockShape]
      /\ bl[b].prev = -1 /\ bl[b].next = h
      /\ bl[b].count = s.blocks[b].count /\ bl[b].live = s.blocks[b].live
      /\ \A c \in Block \ {b} : bl[c] = s.blocks[c]
  <2> DEFINE w == [s.blocks[b] EXCEPT !.prev = -1, !.next = h]
  <2>1. s.blocks[b] \in BlockShape
    BY <1>1
  <2>2. /\ w \in BlockShape /\ w.prev = -1 /\ w.next = h
        /\ w.count = s.blocks[b].count /\ w.live = s.blocks[b].live
    BY <1>1, <2>1 DEF BlockShape
  <2> HIDE DEF w
  <2>3. bl = [s.blocks EXCEPT ![b] = w]
    BY DEF w
  <2> QED
    BY <1>1, <2>2, <2>3
<1>3. /\ ls \in [Tier -> EndsShape]
      /\ \A w \in Tier \ {t} : ls[w] = s.lists[w]
      /\ ls[t].head = b /\ ls[t].tail = IF s.lists[t].tail = -1 THEN b ELSE s.lists[t].tail
  BY <1>1 DEF EndsShape
<1>4. /\ bl2 \in [Block -> BlockShape]
      /\ bl2[b].prev = -1 /\ bl2[b].next = h
      /\ \A c \in Block : bl2[c].count = s.blocks[c].count /\ bl2[c].live = s.blocks[c].live
      /\ \A c \in Block \ {b} : /\ bl2[c].next = s.blocks[c].next
                                /\ bl2[c].prev = IF c = h THEN b ELSE s.blocks[c].prev
  <2> HIDE DEF bl, h
  <2>1. CASE h = -1
    BY <1>1, <1>2, <2>1
  <2>2. CASE h # -1
    <3>1. h \in Block /\ h # b
      BY <1>1, <2>2 DEF h
    <3>2. /\ bl2 \in [Block -> BlockShape]
          /\ \A c \in Block : /\ bl2[c].count = bl[c].count /\ bl2[c].live = bl[c].live
                              /\ bl2[c].next = bl[c].next
                              /\ bl2[c].prev = IF c = h THEN b ELSE bl[c].prev
      BY <1>2, <2>2, <3>1 DEF BlockShape
    <3> HIDE DEF bl2
    <3> QED
      BY <1>2, <3>1, <3>2
  <2> QED
    BY <2>1, <2>2
<1>5. pushBlockHead(s, t, b) = u
  <2> DEFINE own == [s EXCEPT !.blocks[b].prev = -1, !.blocks[b].next = h]
             back == IF h # -1 THEN [own EXCEPT !.blocks[h].prev = b] ELSE own
  <2>1. own = [s EXCEPT !.blocks = bl]
    BY <1>1 DEF Shape, BlockShape
  <2> HIDE DEF own, bl, h
  <2>2. back = v
    BY <1>1, <1>2, <2>1 DEF Shape, BlockShape
  <2> HIDE DEF bl2
  <2>3. v.lists = s.lists /\ v \in Shape
    BY <1>4, WithBlocks
  <2>4. pushBlockHead(s, t, b) =
          [back EXCEPT !.lists[t].head = b, !.lists[t].tail = IF @ = -1 THEN b ELSE @]
    BY DEF pushBlockHead, back, own, h
  <2> HIDE DEF back, v
  <2>5. [v EXCEPT !.lists[t].head = b, !.lists[t].tail = IF @ = -1 THEN b ELSE @] = u
    BY <1>1, <2>3 DEF Shape, EndsShape
  <2> QED
    BY <2>2, <2>4, <2>5
<1> HIDE DEF bl, bl2, ls
<1>6. /\ v \in Shape /\ v.blocks = bl2 /\ v.pts = s.pts /\ v.size = s.size
      /\ v.anchors = s.anchors /\ v.lists = s.lists
  BY <1>4, WithBlocks
<1> HIDE DEF v
<1>7. /\ u \in Shape /\ u.lists = ls /\ u.pts = s.pts /\ u.blocks = bl2 /\ u.size = s.size
      /\ u.anchors = s.anchors
  BY <1>3, <1>6, WithLists
<1> HIDE DEF u
<1> QED
  BY <1>3, <1>4, <1>5, <1>7 DEF Pushed, SamePoints

Detached(s, u, t, b) ==
  LET p == s.blocks[b].prev
      n == s.blocks[b].next
  IN
  /\ SamePoints(s, u) /\ u.size = s.size
  /\ \A c \in Block \ {b} : /\ u.blocks[c].next = IF c = p THEN n ELSE s.blocks[c].next
                            /\ u.blocks[c].prev = IF c = n THEN p ELSE s.blocks[c].prev
  /\ \A v \in Tier \ {t} : u.lists[v] = s.lists[v]
  /\ u.lists[t].head = IF p = -1 THEN n ELSE s.lists[t].head
  /\ u.lists[t].tail = IF n = -1 THEN p ELSE s.lists[t].tail

LEMMA DetachIs ==
  ASSUME NEW s \in Shape, NEW t \in Tier, NEW b \in Block
  PROVE  Detached(s, detachBlock(s, t, b), t, b)
<1> DEFINE p == s.blocks[b].prev
           n == s.blocks[b].next
           bl1 == IF p # -1 THEN [s.blocks EXCEPT ![p] = [s.blocks[p] EXCEPT !.next = n]] ELSE s.blocks
           ls1 == IF p # -1 THEN s.lists ELSE [s.lists EXCEPT ![t] = [s.lists[t] EXCEPT !.head = n]]
           bl2 == IF n # -1 THEN [bl1 EXCEPT ![n] = [bl1[n] EXCEPT !.prev = p]] ELSE bl1
           ls2 == IF n # -1 THEN ls1 ELSE [ls1 EXCEPT ![t] = [ls1[t] EXCEPT !.tail = p]]
           bl3 == [bl2 EXCEPT ![b] = [bl2[b] EXCEPT !.prev = -1, !.next = -1]]
           v == [s EXCEPT !.blocks = bl3]
           u == [v EXCEPT !.lists = ls2]
<1>1. /\ s.blocks \in [Block -> BlockShape] /\ s.lists \in [Tier -> EndsShape]
      /\ p \in Block \cup {-1} /\ n \in Block \cup {-1} /\ -1 \notin Block
  <2>1. s.blocks \in [Block -> BlockShape] /\ s.lists \in [Tier -> EndsShape]
    BY ShapeFields
  <2>2. s.blocks[b] \in BlockShape /\ -1 \notin Block
    BY <2>1, SizesTyped DEF Block
  <2> QED
    BY <2>1, <2>2 DEF BlockShape
<1> HIDE DEF p, n
<1>2. /\ bl1 \in [Block -> BlockShape]
      /\ \A c \in Block : /\ bl1[c].count = s.blocks[c].count /\ bl1[c].live = s.blocks[c].live
                          /\ bl1[c].prev = s.blocks[c].prev
                          /\ bl1[c].next = IF c = p THEN n ELSE s.blocks[c].next
  <2>1. CASE p = -1
    BY <1>1, <2>1
  <2>2. CASE p # -1
    BY <1>1, <2>2 DEF BlockShape
  <2> QED
    BY <2>1, <2>2
<1>3. /\ ls1 \in [Tier -> EndsShape]
      /\ \A w \in Tier \ {t} : ls1[w] = s.lists[w]
      /\ ls1[t].head = (IF p = -1 THEN n ELSE s.lists[t].head) /\ ls1[t].tail = s.lists[t].tail
  BY <1>1 DEF EndsShape
<1> DEFINE fwd == IF p # -1 THEN [s EXCEPT !.blocks[p].next = n] ELSE [s EXCEPT !.lists[t].head = n]
<1>4. fwd = [[s EXCEPT !.blocks = bl1] EXCEPT !.lists = ls1]
  <2>1. CASE p = -1
    BY <1>1, <2>1 DEF Shape, EndsShape
  <2>2. CASE p # -1
    BY <1>1, <2>2 DEF Shape, BlockShape
  <2> QED
    BY <2>1, <2>2
<1> HIDE DEF bl1, ls1
<1>5. fwd \in Shape /\ fwd.blocks = bl1 /\ fwd.lists = ls1
      /\ fwd.pts = s.pts /\ fwd.size = s.size /\ fwd.anchors = s.anchors
  <2> DEFINE w == [s EXCEPT !.blocks = bl1]
  <2>1. w \in Shape /\ w.blocks = bl1 /\ w.pts = s.pts /\ w.size = s.size /\ w.anchors = s.anchors
    BY <1>2, WithBlocks
  <2> HIDE DEF w, fwd
  <2>2. fwd = [w EXCEPT !.lists = ls1]
    BY <1>4 DEF w
  <2> QED
    BY <1>3, <2>1, <2>2, WithLists
<1> DEFINE back == IF n # -1 THEN [fwd EXCEPT !.blocks[n].prev = p] ELSE [fwd EXCEPT !.lists[t].tail = p]
<1> HIDE DEF fwd
<1>6. /\ bl2 \in [Block -> BlockShape]
      /\ \A c \in Block : /\ bl2[c].count = bl1[c].count /\ bl2[c].live = bl1[c].live
                          /\ bl2[c].next = bl1[c].next
                          /\ bl2[c].prev = IF c = n THEN p ELSE bl1[c].prev
  <2>1. CASE n = -1
    BY <1>1, <1>2, <2>1
  <2>2. CASE n # -1
    BY <1>1, <1>2, <2>2 DEF BlockShape
  <2> QED
    BY <2>1, <2>2
<1>7. /\ ls2 \in [Tier -> EndsShape]
      /\ \A w \in Tier \ {t} : ls2[w] = ls1[w]
      /\ ls2[t].tail = (IF n = -1 THEN p ELSE ls1[t].tail) /\ ls2[t].head = ls1[t].head
  BY <1>1, <1>3 DEF EndsShape
<1>8. back = [[fwd EXCEPT !.blocks = bl2] EXCEPT !.lists = ls2]
  <2>1. CASE n = -1
    BY <1>1, <1>3, <1>5, <2>1 DEF Shape, EndsShape
  <2>2. CASE n # -1
    BY <1>1, <1>2, <1>5, <2>2 DEF Shape, BlockShape
  <2> QED
    BY <2>1, <2>2
<1> HIDE DEF bl2, ls2
<1>9. back \in Shape /\ back.blocks = bl2 /\ back.lists = ls2
      /\ back.pts = s.pts /\ back.size = s.size /\ back.anchors = s.anchors
  <2> DEFINE w == [fwd EXCEPT !.blocks = bl2]
  <2>1. w \in Shape /\ w.blocks = bl2 /\ w.pts = s.pts /\ w.size = s.size /\ w.anchors = s.anchors
    BY <1>5, <1>6, WithBlocks
  <2> HIDE DEF w, back
  <2>2. back = [w EXCEPT !.lists = ls2]
    BY <1>8 DEF w
  <2> QED
    BY <1>7, <2>1, <2>2, WithLists
<1>10. detachBlock(s, t, b) = [back EXCEPT !.blocks[b].prev = -1, !.blocks[b].next = -1]
  BY DEF detachBlock, back, fwd, p, n
<1> DEFINE d == detachBlock(s, t, b)
<1> HIDE DEF back
<1>11. d = [back EXCEPT !.blocks = bl3]
  BY <1>6, <1>9, <1>10 DEF Shape, BlockShape
<1>12. /\ bl3 \in [Block -> BlockShape]
       /\ \A c \in Block \ {b} : bl3[c] = bl2[c]
       /\ bl3[b].count = bl2[b].count /\ bl3[b].live = bl2[b].live
  <2> DEFINE w == [bl2[b] EXCEPT !.prev = -1, !.next = -1]
  <2>1. bl2[b] \in BlockShape
    BY <1>6
  <2>2. w \in BlockShape /\ w.count = bl2[b].count /\ w.live = bl2[b].live
    BY <2>1 DEF BlockShape
  <2> HIDE DEF w
  <2>3. bl3 = [bl2 EXCEPT ![b] = w]
    BY DEF w
  <2> QED
    BY <1>6, <2>2, <2>3
<1> HIDE DEF bl3
<1> SUFFICES Detached(s, d, t, b)
  OBVIOUS
<1> HIDE DEF d
<1>13. /\ d \in Shape /\ d.blocks = bl3 /\ d.lists = ls2
       /\ d.pts = s.pts /\ d.size = s.size /\ d.anchors = s.anchors
  BY <1>9, <1>11, <1>12, WithBlocks
<1>14. SamePoints(s, d) /\ d.size = s.size
  BY <1>2, <1>6, <1>12, <1>13 DEF SamePoints
<1>15. \A c \in Block \ {b} : /\ d.blocks[c].next = IF c = p THEN n ELSE s.blocks[c].next
                              /\ d.blocks[c].prev = IF c = n THEN p ELSE s.blocks[c].prev
  BY <1>2, <1>6, <1>12, <1>13
<1>16. /\ \A w \in Tier \ {t} : d.lists[w] = s.lists[w]
       /\ d.lists[t].head = IF p = -1 THEN n ELSE s.lists[t].head
       /\ d.lists[t].tail = IF n = -1 THEN p ELSE s.lists[t].tail
  BY <1>3, <1>7, <1>13
<1> QED
  BY <1>14, <1>15, <1>16 DEF Detached, p, n


-----------------------------------------------------------------------------
(* The tiers.                                                              *)

nextBlock(s) == [b \in Block |-> s.blocks[b].next]
prevBlock(s) == [b \in Block |-> s.blocks[b].prev]

(* B has the blocks of each tier, G those that exist and are in none.      *)
LinkedTiers(s, B, rb, G) ==
  /\ B \in [Tier -> SUBSET Block] /\ rb \in [Block -> Nat]
  /\ \A t \in Tier, v \in Tier : t # v => B[t] \cap B[v] = {}
  /\ \A t \in Tier : /\ B[t] \cap G = {}
                     /\ Linked(B[t], nextBlock(s), prevBlock(s),
                               s.lists[t].head, s.lists[t].tail, -1, rb)
  /\ \A c \in Block : c < s.size <=> c \in G \/ \E t \in Tier : c \in B[t]

(* The blocks with points are those in use, but for e.                     *)
Filled(s, B, e) ==
  \A c \in Block : s.blocks[c].count > 0 <=> (c \in B["RT"] \/ c \in B["HIST"]) /\ c # e

TiersOk(s, B, G, e) == (\E rb : LinkedTiers(s, B, rb, G)) /\ Filled(s, B, e)

LEMMA LinkedTiersCarry ==
  ASSUME NEW s, NEW u, NEW B, NEW rb, NEW G, LinkedTiers(s, B, rb, G), SameLinks(s, u)
  PROVE  LinkedTiers(u, B, rb, G)
<1>1. nextBlock(u) = nextBlock(s) /\ prevBlock(u) = prevBlock(s)
  BY DEF nextBlock, prevBlock, SameLinks
<1> QED
  BY <1>1 DEF LinkedTiers, SameLinks

LEMMA TiersCarry ==
  ASSUME NEW s, NEW u, NEW B, NEW G, NEW e, TiersOk(s, B, G, e), SameLinks(s, u),
         \A c \in Block : u.blocks[c].count = s.blocks[c].count
  PROVE  TiersOk(u, B, G, e)
<1>1. PICK rb : LinkedTiers(s, B, rb, G)
  BY DEF TiersOk
<1>2. LinkedTiers(u, B, rb, G)
  BY <1>1, LinkedTiersCarry
<1>3. Filled(u, B, e)
  BY DEF TiersOk, Filled
<1> QED
  BY <1>2, <1>3 DEF TiersOk

(* A point has gone into block b.                                          *)
LEMMA TiersWritten ==
  ASSUME NEW s \in Shape, NEW u, NEW B, NEW G, NEW e, TiersOk(s, B, G, e), SameLinks(s, u),
         NEW b \in Block, b \in B["RT"] \/ b \in B["HIST"], e = -1 \/ e = b,
         \A c \in Block : u.blocks[c].count = IF c = b THEN s.blocks[c].count + 1
                                                       ELSE s.blocks[c].count
  PROVE  TiersOk(u, B, G, -1)
<1>1. PICK rb : LinkedTiers(s, B, rb, G)
  BY DEF TiersOk
<1>2. LinkedTiers(u, B, rb, G)
  BY <1>1, LinkedTiersCarry
<1>3. \A c \in Block : s.blocks[c].count \in Nat /\ c # -1
  BY ShapeFields, SizesTyped DEF BlockShape, Block
<1>4. \A c \in Block : s.blocks[c].count > 0 <=> (c \in B["RT"] \/ c \in B["HIST"]) /\ c # e
  BY DEF TiersOk, Filled
<1>5. Filled(u, B, -1)
  BY <1>3, <1>4 DEF Filled
<1> QED
  BY <1>2, <1>5 DEF TiersOk

LEMMA TierEnds ==
  ASSUME NEW s, NEW B, NEW G, NEW e, TiersOk(s, B, G, e), NEW t \in Tier
  PROVE  /\ B \in [Tier -> SUBSET Block]
         /\ s.lists[t].head \in B[t] \cup {-1} /\ s.lists[t].tail \in B[t] \cup {-1}
         /\ s.lists[t].head = -1 <=> s.lists[t].tail = -1
BY DEF TiersOk, LinkedTiers, Linked

(* A block of no tier becomes the first of a tier.                         *)
LEMMA TiersPushed ==
  ASSUME NEW s \in Shape, NEW B, NEW b \in Block, TiersOk(s, B, {b}, b), NEW t \in Tier, NEW u,
         Pushed(s, u, t, b)
  PROVE  TiersOk(u, [B EXCEPT ![t] = B[t] \cup {b}], {}, IF t = "FREE" THEN -1 ELSE b)
<1> DEFINE A == [B EXCEPT ![t] = B[t] \cup {b}]
           e == IF t = "FREE" THEN -1 ELSE b
           h == s.lists[t].head
<1>1. PICK rb : LinkedTiers(s, B, rb, {b})
  BY DEF TiersOk
<1> DEFINE r2 == [c \in Block |-> IF c = b THEN 0 ELSE IF c \in B[t] THEN rb[c] + 1 ELSE rb[c]]
<1>2. /\ B \in [Tier -> SUBSET Block] /\ rb \in [Block -> Nat]
      /\ \A v \in Tier, w \in Tier : v # w => B[v] \cap B[w] = {}
      /\ \A v \in Tier : b \notin B[v]
      /\ \A c \in Block : c < s.size <=> c \in {b} \/ \E v \in Tier : c \in B[v]
      /\ "RT" \in Tier /\ "HIST" \in Tier /\ "FREE" \in Tier
  BY <1>1 DEF LinkedTiers, Tier
<1>3. A \in [Tier -> SUBSET Block] /\ A[t] = B[t] \cup {b} /\ \A v \in Tier \ {t} : A[v] = B[v]
  BY <1>2
<1>4. /\ r2 \in [Block -> Nat] /\ r2[b] = 0
      /\ \A c \in B[t] : r2[c] = rb[c] + 1
      /\ \A c \in Block \ B[t] : c # b => r2[c] = rb[c]
  BY <1>2
<1> HIDE DEF A, r2
<1>5. /\ \A c \in Block \ {b} : /\ nextBlock(u)[c] = nextBlock(s)[c]
                                /\ prevBlock(u)[c] = IF c = h THEN b ELSE prevBlock(s)[c]
      /\ nextBlock(u)[b] = h /\ prevBlock(u)[b] = -1
  BY DEF Pushed, nextBlock, prevBlock
<1>6. Linked(A[t], nextBlock(u), prevBlock(u), u.lists[t].head, u.lists[t].tail, -1, r2)
  <2> DEFINE nx == nextBlock(s)
             pv == prevBlock(s)
             nx2 == nextBlock(u)
             pv2 == prevBlock(u)
             tl == s.lists[t].tail
             tl2 == u.lists[t].tail
  <2>1. Linked(B[t], nx, pv, h, tl, -1, rb)
    BY <1>1 DEF LinkedTiers
  <2>2. u.lists[t].head = b /\ tl2 = IF tl = -1 THEN b ELSE tl
    BY DEF Pushed
  <2>3. b # -1 /\ b \in Block \ B[t] /\ B[t] \in SUBSET Block
    BY <1>2, SizesTyped DEF Block
  <2>4. \A y \in B[t] : nx2[y] = nx[y] /\ pv2[y] = (IF y = h THEN b ELSE pv[y]) /\ r2[y] = rb[y] + 1
    BY <1>4, <1>5, <2>3
  <2>5. nx2[b] = h /\ pv2[b] = -1
    BY <1>5
  <2> DEFINE N == B[t]
  <2>6. b # -1 /\ b \in Block \ N /\ N \in SUBSET Block
    BY <2>3
  <2>7. rb \in [Block -> Nat]
    BY <1>2
  <2>8. tl2 = IF tl = -1 THEN b ELSE tl
    BY <2>2
  <2>9. r2[b] = 0
    BY <1>4
  <2> HIDE DEF nx, pv, nx2, pv2, tl, tl2, h, N
  <2>10. \A y \in N : nx2[y] = nx[y] /\ pv2[y] = (IF y = h THEN b ELSE pv[y]) /\ r2[y] = rb[y] + 1
    BY <2>4 DEF N
  <2>11. Linked(N, nx, pv, h, tl, -1, rb)
    BY <2>1 DEF N
  <2>12. Linked(N \cup {b}, nx2, pv2, b, tl2, -1, r2)
    <3>1. Prepending(Block, rb, N, nx, pv, h, tl, -1, b, nx2, pv2, tl2, r2)
      BY <2>5, <2>6, <2>7, <2>8, <2>9, <2>10, <2>11 DEF Prepending
    <3> QED
      BY <3>1, LinksPrepended
  <2> QED
    BY <1>3, <2>2, <2>12 DEF nx2, pv2, tl2, N
<1>7. ASSUME NEW v \in Tier \ {t}
      PROVE  Linked(A[v], nextBlock(u), prevBlock(u), u.lists[v].head, u.lists[v].tail, -1, r2)
  <2>1. Linked(B[v], nextBlock(s), prevBlock(s), s.lists[v].head, s.lists[v].tail, -1, rb)
    BY <1>1 DEF LinkedTiers
  <2>2. h \notin B[v]
    <3>1. h \in B[t] \cup {-1}
      BY <1>1 DEF LinkedTiers, Linked
    <3> QED
      BY <1>2, <2>1, <3>1 DEF Linked
  <2>3. \A y \in B[v] : y \in Block \ {b} /\ y \notin B[t] /\ y # h
    BY <1>2, <2>2
  <2>4. \A y \in B[v] : /\ nextBlock(u)[y] = nextBlock(s)[y] /\ prevBlock(u)[y] = prevBlock(s)[y]
                        /\ r2[y] = rb[y]
    BY <1>4, <1>5, <2>3
  <2>5. u.lists[v] = s.lists[v]
    BY DEF Pushed
  <2> QED
    BY <1>3, <2>1, <2>4, <2>5, LinksCarry
<1>8. \A v \in Tier, w \in Tier : v # w => A[v] \cap A[w] = {}
  BY <1>2, <1>3
<1>9. \A c \in Block : c < u.size <=> \E v \in Tier : c \in A[v]
  <2>1. u.size = s.size
    BY DEF Pushed
  <2> QED
    BY <1>2, <1>3, <2>1
<1>10. \A v \in Tier : Linked(A[v], nextBlock(u), prevBlock(u), u.lists[v].head, u.lists[v].tail, -1, r2)
  BY <1>6, <1>7
<1>11. LinkedTiers(u, A, r2, {})
  BY <1>3, <1>4, <1>8, <1>9, <1>10 DEF LinkedTiers
<1>12. Filled(u, A, e)
  <2>1. \A c \in Block : u.blocks[c].count = s.blocks[c].count
    BY DEF Pushed, SamePoints
  <2>2. \A c \in Block : s.blocks[c].count > 0 <=> (c \in B["RT"] \/ c \in B["HIST"]) /\ c # b
    BY DEF TiersOk, Filled
  <2>3. \A c \in Block : c # -1
    BY SizesTyped DEF Block
  <2>4. CASE t = "FREE"
    BY <1>2, <1>3, <2>1, <2>2, <2>3, <2>4 DEF Filled
  <2>5. CASE t # "FREE"
    BY <1>2, <1>3, <2>1, <2>2, <2>3, <2>5 DEF Filled
  <2> QED
    BY <2>4, <2>5
<1>13. TiersOk(u, A, {}, e)
  BY <1>11, <1>12 DEF TiersOk
<1> QED
  BY <1>13 DEF A

(* A block is taken out of its tier.                                       *)
LEMMA LinkedTiersDetached ==
  ASSUME NEW s \in Shape, NEW B, NEW rb, LinkedTiers(s, B, rb, {}),
         NEW t \in Tier, NEW b \in B[t], NEW u, Detached(s, u, t, b)
  PROVE  LinkedTiers(u, [B EXCEPT ![t] = B[t] \ {b}], rb, {b})
<1> DEFINE A == [B EXCEPT ![t] = B[t] \ {b}]
           p == s.blocks[b].prev
           n == s.blocks[b].next
<1>2. /\ B \in [Tier -> SUBSET Block] /\ rb \in [Block -> Nat]
      /\ \A v \in Tier, w \in Tier : v # w => B[v] \cap B[w] = {}
      /\ \A c \in Block : c < s.size <=> \E v \in Tier : c \in B[v]
  BY DEF LinkedTiers
<1>3. /\ A \in [Tier -> SUBSET Block] /\ A[t] = B[t] \ {b} /\ \A v \in Tier \ {t} : A[v] = B[v]
      /\ b \in Block
  BY <1>2
<1> HIDE DEF A
<1>5. \A c \in Block \ {b} : /\ nextBlock(u)[c] = IF c = p THEN n ELSE nextBlock(s)[c]
                             /\ prevBlock(u)[c] = IF c = n THEN p ELSE prevBlock(s)[c]
  BY DEF Detached, nextBlock, prevBlock
<1>0. p = prevBlock(s)[b] /\ n = nextBlock(s)[b]
  BY <1>3 DEF prevBlock, nextBlock
<1>6. Linked(A[t], nextBlock(u), prevBlock(u), u.lists[t].head, u.lists[t].tail, -1, rb)
  <2> DEFINE nx == nextBlock(s)
             pv == prevBlock(s)
             nx2 == nextBlock(u)
             pv2 == prevBlock(u)
             h == s.lists[t].head
             h2 == u.lists[t].head
             tl == s.lists[t].tail
             tl2 == u.lists[t].tail
  <2>1. Linked(B[t], nx, pv, h, tl, -1, rb)
    BY DEF LinkedTiers
  <2>2. h2 = (IF pv[b] = -1 THEN nx[b] ELSE h) /\ tl2 = (IF nx[b] = -1 THEN pv[b] ELSE tl)
    BY <1>0 DEF Detached
  <2>4. \A y \in B[t] \ {b} : /\ nx2[y] = IF y = pv[b] THEN nx[b] ELSE nx[y]
                              /\ pv2[y] = IF y = nx[b] THEN pv[b] ELSE pv[y]
    BY <1>0, <1>2, <1>5
  <2> DEFINE N == B[t]
  <2>5. N \in SUBSET Block
    BY <1>2
  <2>6. rb \in [Block -> Nat]
    BY <1>2
  <2>7. h2 = IF pv[b] = -1 THEN nx[b] ELSE h
    BY <2>2
  <2>8. tl2 = IF nx[b] = -1 THEN pv[b] ELSE tl
    BY <2>2
  <2>9. b \in N
    OBVIOUS
  <2> HIDE DEF nx, pv, nx2, pv2, tl, tl2, h, h2, N
  <2>10. \A y \in N \ {b} : /\ nx2[y] = IF y = pv[b] THEN nx[b] ELSE nx[y]
                            /\ pv2[y] = IF y = nx[b] THEN pv[b] ELSE pv[y]
    BY <2>4 DEF N
  <2>11. Linked(N, nx, pv, h, tl, -1, rb)
    BY <2>1 DEF N
  <2>12. Linked(N \ {b}, nx2, pv2, h2, tl2, -1, rb)
    <3>1. Removal(Block, rb, N, nx, pv, h, tl, -1, b, nx2, pv2, h2, tl2)
      BY <2>5, <2>6, <2>7, <2>8, <2>9, <2>10, <2>11 DEF Removal
    <3> QED
      BY <3>1, LinksRemoved
  <2> QED
    BY <1>3, <2>12 DEF nx2, pv2, tl2, h2, N
<1>7. ASSUME NEW v \in Tier \ {t}
      PROVE  Linked(A[v], nextBlock(u), prevBlock(u), u.lists[v].head, u.lists[v].tail, -1, rb)
  <2>1. /\ Linked(B[v], nextBlock(s), prevBlock(s), s.lists[v].head, s.lists[v].tail, -1, rb)
        /\ Linked(B[t], nextBlock(s), prevBlock(s), s.lists[t].head, s.lists[t].tail, -1, rb)
    BY DEF LinkedTiers
  <2>2. p \notin B[v] /\ n \notin B[v]
    <3>1. p \in B[t] \cup {-1} /\ n \in B[t] \cup {-1}
      BY <1>0, <2>1 DEF Linked
    <3> QED
      BY <1>2, <2>1, <3>1 DEF Linked
  <2>3. \A y \in B[v] : y \in Block \ {b} /\ y # p /\ y # n
    BY <1>2, <2>2
  <2>4. \A y \in B[v] : /\ nextBlock(u)[y] = nextBlock(s)[y] /\ prevBlock(u)[y] = prevBlock(s)[y]
                        /\ rb[y] = rb[y]
    BY <1>5, <2>3
  <2>5. u.lists[v] = s.lists[v]
    BY DEF Detached
  <2> QED
    BY <1>3, <2>1, <2>4, <2>5, LinksCarry
<1>8. \A v \in Tier, w \in Tier : v # w => A[v] \cap A[w] = {}
  BY <1>2, <1>3
<1>11. \A v \in Tier : A[v] \cap {b} = {}
  BY <1>2, <1>3
<1>9. \A c \in Block : c < u.size <=> c \in {b} \/ \E v \in Tier : c \in A[v]
  <2>1. u.size = s.size
    BY DEF Detached
  <2> QED
    BY <1>2, <1>3, <2>1
<1>10. \A v \in Tier : Linked(A[v], nextBlock(u), prevBlock(u), u.lists[v].head, u.lists[v].tail, -1, rb)
  BY <1>6, <1>7
<1>12. LinkedTiers(u, A, rb, {b})
  BY <1>2, <1>3, <1>8, <1>9, <1>10, <1>11 DEF LinkedTiers
<1> QED
  BY <1>12 DEF A


-----------------------------------------------------------------------------
(* The tracks.                                                             *)

nextPoint(s) == [r \in PointRef |-> s.pts[r].next]
prevPoint(s) == [r \in PointRef |-> s.pts[r].prev]

LiveIn(s, r) == slotOf(r) < s.blocks[blockOf(r)].count /\ s.pts[r].prev # NIL

InOrder(s, N) == \A r \in N : s.pts[r].next \in N => s.pts[s.pts[r].next].time >= End(s.pts[r])

(* Q has the points of each track.  X has the points that only look live:  *)
(* those that a compaction has moved, until their block is emptied.        *)
LinkedTracks(s, Q, rq, X) ==
  /\ Q \in [Ship -> SUBSET PointRef] /\ rq \in [PointRef -> Nat]
  /\ \A a \in Ship, c \in Ship : a # c => Q[a] \cap Q[c] = {}
  /\ \A a \in Ship : /\ Linked(Q[a], nextPoint(s), prevPoint(s),
                               s.anchors[a].head, s.anchors[a].tail, Anchor(a), rq)
                     /\ InOrder(s, Q[a])
  /\ \A r \in PointRef : (\E a \in Ship : r \in Q[a]) <=> LiveIn(s, r) /\ r \notin X

(* from has what each track was made from, in order: the rank of a point   *)
(* says where it is in there.                                              *)
Origins(s, Q, rq, from) ==
  \A a \in Ship : \A r \in Q[a] : rq[r] \in DOMAIN from[a] /\ from[a][rq[r]] = Span(s.pts[r])

Spans == [time : Nat, end : Nat]

TracksOk(s, X, from) == \E Q, rq : LinkedTracks(s, Q, rq, X) /\ Origins(s, Q, rq, from)

LEMMA TracksCarry ==
  ASSUME NEW s, NEW u, NEW X, NEW from, TracksOk(s, X, from), u.pts = s.pts, u.anchors = s.anchors,
         \A c \in Block : u.blocks[c].count = s.blocks[c].count
  PROVE  TracksOk(u, X, from)
<1>1. PICK Q, rq : LinkedTracks(s, Q, rq, X) /\ Origins(s, Q, rq, from)
  BY DEF TracksOk
<1>2. nextPoint(u) = nextPoint(s) /\ prevPoint(u) = prevPoint(s)
  BY DEF nextPoint, prevPoint
<1>3. \A r \in PointRef : LiveIn(u, r) <=> LiveIn(s, r)
  BY PointRefIs DEF LiveIn
<1>4. \A N : InOrder(u, N) <=> InOrder(s, N)
  BY DEF InOrder
<1>5. LinkedTracks(u, Q, rq, X)
  BY <1>1, <1>2, <1>3, <1>4 DEF LinkedTracks
<1>6. Origins(u, Q, rq, from)
  BY <1>1 DEF Origins
<1> QED
  BY <1>5, <1>6 DEF TracksOk

(* A dead point may be put among those that look live.                     *)
LEMMA TracksDead ==
  ASSUME NEW s, NEW X, NEW from, TracksOk(s, X, from), NEW r, ~LiveIn(s, r)
  PROVE  TracksOk(s, X \cup {r}, from)
<1>1. PICK Q, rq : LinkedTracks(s, Q, rq, X) /\ Origins(s, Q, rq, from)
  BY DEF TracksOk
<1>2. LinkedTracks(s, Q, rq, X \cup {r})
  BY <1>1 DEF LinkedTracks
<1> QED
  BY <1>1, <1>2 DEF TracksOk

(* A point of a track and its neighbours.                                  *)
LEMMA Neighbours ==
  ASSUME NEW s \in Shape, NEW Q, NEW rq, NEW X, LinkedTracks(s, Q, rq, X), NEW a \in Ship, NEW r \in Q[a]
  PROVE  /\ r \in PointRef /\ LiveIn(s, r)
         /\ s.pts[r].prev \in Q[a] \cup {Anchor(a)} /\ s.pts[r].next \in Q[a] \cup {Anchor(a)}
         /\ s.pts[r].prev # r /\ s.pts[r].next # r
         /\ s.pts[r].prev \in AnyRef /\ s.pts[r].next \in AnyRef
         /\ s.pts[r].prev \in PointRef => s.pts[r].prev \in Q[a]
         /\ s.pts[r].next \in PointRef => s.pts[r].next \in Q[a]
         /\ s.pts[r].prev \in PointRef => s.pts[s.pts[r].prev].next = r
         /\ s.pts[r].next \in PointRef => s.pts[s.pts[r].next].prev = r
         /\ \A c \in Ship \ {a} : /\ s.pts[r].prev \notin Q[c] /\ s.pts[r].next \notin Q[c]
                                  /\ s.pts[r].prev # Anchor(c) /\ s.pts[r].next # Anchor(c)
<1>1. /\ Q \in [Ship -> SUBSET PointRef] /\ rq \in [PointRef -> Nat]
      /\ \A c \in Ship : a # c => Q[a] \cap Q[c] = {}
      /\ Linked(Q[a], nextPoint(s), prevPoint(s), s.anchors[a].head, s.anchors[a].tail, Anchor(a), rq)
      /\ \A y \in PointRef : (\E c \in Ship : y \in Q[c]) <=> LiveIn(s, y) /\ y \notin X
  BY DEF LinkedTracks
<1>2. r \in PointRef /\ LiveIn(s, r) /\ Q[a] \subseteq PointRef
  BY <1>1
<1>3. \A y \in PointRef : nextPoint(s)[y] = s.pts[y].next /\ prevPoint(s)[y] = s.pts[y].prev
  BY DEF nextPoint, prevPoint
<1>4. /\ s.pts[r].prev \in Q[a] \cup {Anchor(a)} /\ s.pts[r].next \in Q[a] \cup {Anchor(a)}
      /\ s.pts[r].next \in Q[a] => s.pts[s.pts[r].next].prev = r /\ rq[r] < rq[s.pts[r].next]
      /\ s.pts[r].prev \in Q[a] => s.pts[s.pts[r].prev].next = r
  BY <1>1, <1>2, <1>3 DEF Linked
<1>5. s.pts[r].prev \in Q[a] => rq[s.pts[r].prev] < rq[r]
  BY <1>1, <1>2, <1>3, <1>4 DEF Linked
<1>6. /\ Anchor(a) \in AnyRef \ PointRef
      /\ \A c \in Ship \ {a} : Anchor(c) # Anchor(a) /\ Anchor(c) \notin PointRef /\ Anchor(a) \notin Q[c]
  BY <1>1, AnchorIs
<1>7. s.pts[r].prev # r /\ s.pts[r].next # r
  <2>1. rq[r] \in Nat
    BY <1>1, <1>2
  <2> QED
    BY <1>4, <1>5, <2>1
<1>8. \A y \in Q[a] : y \in AnyRef /\ \A c \in Ship \ {a} : y \notin Q[c] /\ y # Anchor(c)
  BY <1>1, <1>2, <1>6, AnyRefIs
<1> QED
  BY <1>2, <1>4, <1>6, <1>7, <1>8

LEMMA TrackUnlinked ==
  ASSUME NEW s \in Shape, NEW X, NEW Q, NEW rq, LinkedTracks(s, Q, rq, X),
         NEW a \in Ship, NEW r \in Q[a]
  PROVE  /\ Unlinked(s, unlink(s, r), r)
         /\ LinkedTracks(unlink(s, r), [Q EXCEPT ![a] = Q[a] \ {r}], rq, X)
<1>1. r \in PointRef
  BY DEF LinkedTracks
<1> DEFINE u == unlink(s, r)
           p == s.pts[r]
           A == [Q EXCEPT ![a] = Q[a] \ {r}]
<1>3. /\ p.prev \in Q[a] \cup {Anchor(a)} /\ p.next \in Q[a] \cup {Anchor(a)}
      /\ p.prev # r /\ p.next # r
      /\ p.prev \in AnyRef /\ p.next \in AnyRef
      /\ p.prev \in PointRef => p.prev \in Q[a]
      /\ p.next \in PointRef => p.next \in Q[a]
      /\ p.prev \in PointRef => s.pts[p.prev].next = r
      /\ p.next \in PointRef => s.pts[p.next].prev = r
      /\ \A c \in Ship \ {a} : /\ p.prev \notin Q[c] /\ p.next \notin Q[c]
                               /\ p.prev # Anchor(c) /\ p.next # Anchor(c)
  BY <1>1, Neighbours
<1>4. Unlinked(s, u, r)
  BY <1>1, <1>3, UnlinkIs
<1>5. /\ Q \in [Ship -> SUBSET PointRef] /\ rq \in [PointRef -> Nat]
      /\ \A c \in Ship, d \in Ship : c # d => Q[c] \cap Q[d] = {}
      /\ \A y \in PointRef : (\E c \in Ship : y \in Q[c]) <=> LiveIn(s, y) /\ y \notin X
  BY <1>1 DEF LinkedTracks
<1>6. /\ A \in [Ship -> SUBSET PointRef] /\ A[a] = Q[a] \ {r}
      /\ \A c \in Ship \ {a} : A[c] = Q[c] /\ r \notin A[c] /\ r \notin Q[c]
  BY <1>5
<1> HIDE DEF A
<1> HIDE DEF u
<1>7. /\ \A y \in PointRef \ {r} :
           /\ u.pts[y].time = s.pts[y].time /\ u.pts[y].dur = s.pts[y].dur
           /\ u.pts[y].next = IF y = p.prev THEN p.next ELSE s.pts[y].next
           /\ u.pts[y].prev = IF y = p.next THEN p.prev ELSE s.pts[y].prev
      /\ u.pts[r].prev = NIL
      /\ \A c \in Ship :
           /\ u.anchors[c].head = IF Anchor(c) = p.prev THEN p.next ELSE s.anchors[c].head
           /\ u.anchors[c].tail = IF Anchor(c) = p.next THEN p.prev ELSE s.anchors[c].tail
      /\ \A c \in Block : u.blocks[c].count = s.blocks[c].count
  BY <1>4 DEF Unlinked
<1>8. \A y \in PointRef : /\ nextPoint(s)[y] = s.pts[y].next /\ prevPoint(s)[y] = s.pts[y].prev
                          /\ nextPoint(u)[y] = u.pts[y].next /\ prevPoint(u)[y] = u.pts[y].prev
  BY DEF nextPoint, prevPoint
<1>9. Linked(A[a], nextPoint(u), prevPoint(u), u.anchors[a].head, u.anchors[a].tail, Anchor(a), rq)
  <2> DEFINE N == Q[a]
             nx == nextPoint(s)
             pv == prevPoint(s)
             nx2 == nextPoint(u)
             pv2 == prevPoint(u)
             h == s.anchors[a].head
             h2 == u.anchors[a].head
             tl == s.anchors[a].tail
             tl2 == u.anchors[a].tail
             out == Anchor(a)
  <2>1. Linked(N, nx, pv, h, tl, out, rq)
    BY <1>1 DEF LinkedTracks
  <2>2. h2 = IF pv[r] = out THEN nx[r] ELSE h
    BY <1>1, <1>7, <1>8
  <2>3. tl2 = IF nx[r] = out THEN pv[r] ELSE tl
    BY <1>1, <1>7, <1>8
  <2>4. r \in N /\ N \in SUBSET PointRef /\ rq \in [PointRef -> Nat]
    BY <1>5
  <2>5. \A y \in N \ {r} : /\ nx2[y] = IF y = pv[r] THEN nx[r] ELSE nx[y]
                           /\ pv2[y] = IF y = nx[r] THEN pv[r] ELSE pv[y]
    BY <1>7, <1>8, <2>4
  <2> HIDE DEF N, nx, pv, nx2, pv2, h, h2, tl, tl2, out
  <2>6. Removal(PointRef, rq, N, nx, pv, h, tl, out, r, nx2, pv2, h2, tl2)
    BY <2>1, <2>2, <2>3, <2>4, <2>5 DEF Removal
  <2>7. Linked(N \ {r}, nx2, pv2, h2, tl2, out, rq)
    BY <2>6, LinksRemoved
  <2> QED
    BY <1>6, <2>7 DEF N, nx2, pv2, h2, tl2, out
<1>10. ASSUME NEW c \in Ship \ {a}
       PROVE  Linked(A[c], nextPoint(u), prevPoint(u), u.anchors[c].head, u.anchors[c].tail, Anchor(c), rq)
  <2>1. Linked(Q[c], nextPoint(s), prevPoint(s), s.anchors[c].head, s.anchors[c].tail, Anchor(c), rq)
    BY <1>1 DEF LinkedTracks
  <2>2. \A y \in Q[c] : y \in PointRef \ {r} /\ y # p.prev /\ y # p.next
    BY <1>3, <1>5, <1>6
  <2>3. \A y \in Q[c] : /\ nextPoint(u)[y] = nextPoint(s)[y] /\ prevPoint(u)[y] = prevPoint(s)[y]
                        /\ rq[y] = rq[y]
    BY <1>7, <1>8, <2>2
  <2>4. u.anchors[c].head = s.anchors[c].head /\ u.anchors[c].tail = s.anchors[c].tail
    BY <1>3, <1>7
  <2> QED
    BY <1>6, <2>1, <2>3, <2>4, LinksCarry
<1>11. ASSUME NEW c \in Ship
       PROVE  InOrder(u, A[c])
  <2> SUFFICES ASSUME NEW y \in A[c], u.pts[y].next \in A[c]
               PROVE  u.pts[u.pts[y].next].time >= End(u.pts[y])
    BY DEF InOrder
  <2>1. InOrder(s, Q[c]) /\ InOrder(s, Q[a])
    BY <1>1 DEF LinkedTracks
  <2>2. /\ y \in PointRef \ {r} /\ y \in Q[c] /\ u.pts[y].next \in PointRef \ {r}
        /\ u.pts[y].next \in Q[c]
    BY <1>5, <1>6
  <2>3. End(u.pts[y]) = End(s.pts[y]) /\ u.pts[u.pts[y].next].time = s.pts[u.pts[y].next].time
    BY <1>7, <2>2 DEF End
  <2>4. CASE y # p.prev
    <3>1. u.pts[y].next = s.pts[y].next
      BY <1>7, <2>2, <2>4
    <3> QED
      BY <2>1, <2>2, <2>3, <3>1 DEF InOrder
  <2>5. CASE y = p.prev
    <3>1. u.pts[y].next = p.next /\ p.next \in PointRef /\ p.next \in Q[a] /\ p.prev \in Q[a]
      BY <1>3, <1>7, <2>2, <2>5
    <3>2. s.pts[p.next].time >= End(p)
      BY <2>1, <3>1 DEF InOrder
    <3>3. p.time >= End(s.pts[y])
      BY <1>3, <2>1, <2>2, <2>5, <3>1 DEF InOrder
    <3>4. /\ p.time \in Nat /\ p.dur \in Nat /\ s.pts[p.next].time \in Nat
          /\ s.pts[y].time \in Nat /\ s.pts[y].dur \in Nat
      BY <1>1, <2>2, <3>1, ShapeFields DEF PointShape
    <3>5. s.pts[p.next].time >= End(s.pts[y])
      BY <3>2, <3>3, <3>4 DEF End
    <3> QED
      BY <2>3, <3>1, <3>5
  <2> QED
    BY <2>4, <2>5
<1>12. \A c \in Ship, d \in Ship : c # d => A[c] \cap A[d] = {}
  BY <1>5, <1>6
<1>13. ASSUME NEW y \in PointRef
       PROVE  (\E c \in Ship : y \in A[c]) <=> LiveIn(u, y) /\ y \notin X
  <2>0. blockOf(y) \in Block
    BY PointRefIs
  <2>1. CASE y = r
    <3>1. ~LiveIn(u, y)
      BY <1>7, <2>1 DEF LiveIn
    <3> QED
      BY <1>6, <2>1, <3>1
  <2>2. CASE y # r
    <3>1. LiveIn(u, y) <=> LiveIn(s, y)
      <4>1. CASE y = p.next
        <5>1. s.pts[y].prev = r /\ r # NIL /\ u.pts[y].prev = p.prev /\ p.prev # NIL
          BY <1>1, <1>3, <1>7, <2>2, <4>1, AnyRefIs
        <5> QED
          BY <1>7, <2>0, <5>1 DEF LiveIn
      <4>2. CASE y # p.next
        <5>1. u.pts[y].prev = s.pts[y].prev
          BY <1>7, <2>2, <4>2
        <5> QED
          BY <1>7, <2>0, <5>1 DEF LiveIn
      <4> QED
        BY <4>1, <4>2
    <3>2. (\E c \in Ship : y \in A[c]) <=> \E c \in Ship : y \in Q[c]
      BY <1>6, <2>2
    <3> QED
      BY <1>5, <3>1, <3>2
  <2> QED
    BY <2>1, <2>2
<1>14. LinkedTracks(u, A, rq, X)
  BY <1>5, <1>6, <1>9, <1>10, <1>11, <1>12, <1>13 DEF LinkedTracks
<1> QED
  BY <1>4, <1>14 DEF u, A

LEMMA TracksUnlinked ==
  ASSUME NEW s \in Shape, NEW X, NEW from, TracksOk(s, X, from),
         NEW r \in PointRef, LiveIn(s, r), r \notin X
  PROVE  Unlinked(s, unlink(s, r), r) /\ TracksOk(unlink(s, r), X, from)
<1>1. PICK Q, rq : LinkedTracks(s, Q, rq, X) /\ Origins(s, Q, rq, from)
  BY DEF TracksOk
<1>2. PICK a \in Ship : r \in Q[a]
  BY <1>1 DEF LinkedTracks
<1> DEFINE u == unlink(s, r)
           A == [Q EXCEPT ![a] = Q[a] \ {r}]
<1>3. Unlinked(s, u, r) /\ LinkedTracks(u, A, rq, X)
  BY <1>1, <1>2, TrackUnlinked
<1>4. Origins(u, A, rq, from)
  <2> SUFFICES ASSUME NEW c \in Ship, NEW y \in A[c]
               PROVE  rq[y] \in DOMAIN from[c] /\ from[c][rq[y]] = Span(u.pts[y])
    BY DEF Origins
  <2>1. /\ Q \in [Ship -> SUBSET PointRef]
        /\ \A d \in Ship : a # d => Q[a] \cap Q[d] = {}
    BY <1>1 DEF LinkedTracks
  <2>2. y \in Q[c] /\ y \in PointRef \ {r}
    BY <1>2, <2>1
  <2> HIDE DEF u
  <2>3. Span(u.pts[y]) = Span(s.pts[y])
    BY <1>3, <2>2 DEF Unlinked, Span, End
  <2> QED
    BY <1>1, <2>2, <2>3 DEF Origins
<1> QED
  BY <1>3, <1>4 DEF TracksOk, u

(* Which points are live after point p has gone into block b.              *)
LEMMA LiveInserted ==
  ASSUME NEW s \in Shape, NEW b \in Block, s.blocks[b].count < BLOCK_SIZE,
         NEW p, p.prev \in AnyRef, p.next \in PointRef => s.pts[p.next].prev # NIL,
         NEW u, Inserted(s, u, b, p)
  PROVE  /\ LiveIn(u, Slot(s, b)) /\ ~(slotOf(Slot(s, b)) < s.blocks[b].count)
         /\ \A y \in PointRef \ {Slot(s, b)} : LiveIn(u, y) <=> LiveIn(s, y)
<1> DEFINE z == Slot(s, b)
<1>1. z \in PointRef /\ z \in AnyRef /\ blockOf(z) = b /\ slotOf(z) = s.blocks[b].count
  BY SlotIs
<1>2. \A c \in Block : s.blocks[c].count \in Nat
  BY ShapeFields, SizesTyped DEF BlockShape
<1>3. z # NIL /\ p.prev # NIL
  BY <1>1, AnyRefIs
<1>4. \A c \in Block : u.blocks[c].count = IF c = b THEN s.blocks[c].count + 1 ELSE s.blocks[c].count
  BY DEF Inserted
<1>5. u.pts[z].prev = p.prev
  BY DEF Inserted
<1>6. LiveIn(u, z)
  BY <1>1, <1>2, <1>3, <1>4, <1>5 DEF LiveIn
<1>7. ASSUME NEW y \in PointRef \ {z}
      PROVE  LiveIn(u, y) <=> LiveIn(s, y)
  <2>1. blockOf(y) \in Block /\ slotOf(y) \in Nat /\ y = Ref(blockOf(y), slotOf(y))
    BY PointRefIs, SizesTyped
  <2>2. ~(blockOf(y) = b /\ slotOf(y) = s.blocks[b].count)
    BY <2>1 DEF Slot
  <2>3. slotOf(y) < u.blocks[blockOf(y)].count <=> slotOf(y) < s.blocks[blockOf(y)].count
    BY <1>2, <1>4, <2>1, <2>2
  <2>4. u.pts[y].prev = IF y = p.next THEN z ELSE s.pts[y].prev
    BY DEF Inserted
  <2>5. u.pts[y].prev # NIL <=> s.pts[y].prev # NIL
    BY <1>3, <2>4
  <2> QED
    BY <2>3, <2>5 DEF LiveIn
<1>8. ~(slotOf(z) < s.blocks[b].count)
  BY <1>1, <1>2
<1> QED
  BY <1>6, <1>7, <1>8

(* A point moves to another block, and its track with it.                  *)
LEMMA TracksMoved ==
  ASSUME NEW s \in Shape, NEW X, NEW from, TracksOk(s, X, from),
         NEW r \in PointRef, LiveIn(s, r), r \notin X,
         NEW b \in Block, s.blocks[b].count < BLOCK_SIZE, Slot(s, b) \notin X
  PROVE  /\ Inserted(s, linkedIn(s, b, s.pts[r]), b, s.pts[r])
         /\ TracksOk(linkedIn(s, b, s.pts[r]), X \cup {r}, from)
<1>1. PICK Q, rq : LinkedTracks(s, Q, rq, X) /\ Origins(s, Q, rq, from)
  BY DEF TracksOk
<1>2. PICK a \in Ship : r \in Q[a]
  BY <1>1 DEF LinkedTracks
<1> DEFINE p == s.pts[r]
           u == linkedIn(s, b, p)
           z == Slot(s, b)
           A == [Q EXCEPT ![a] = (Q[a] \ {r}) \cup {z}]
           rq2 == [rq EXCEPT ![z] = rq[r]]
<1>3. /\ p.prev \in Q[a] \cup {Anchor(a)} /\ p.next \in Q[a] \cup {Anchor(a)}
      /\ p.prev # r /\ p.next # r
      /\ p.prev \in AnyRef /\ p.next \in AnyRef
      /\ p.prev \in PointRef => p.prev \in Q[a]
      /\ p.next \in PointRef => p.next \in Q[a]
      /\ p.next \in PointRef => s.pts[p.next].prev = r
      /\ p.prev \in PointRef => s.pts[p.prev].next = r
      /\ \A c \in Ship \ {a} : /\ p.prev \notin Q[c] /\ p.next \notin Q[c]
                               /\ p.prev # Anchor(c) /\ p.next # Anchor(c)
  BY <1>1, <1>2, Neighbours
<1>5. /\ Q \in [Ship -> SUBSET PointRef] /\ rq \in [PointRef -> Nat]
      /\ \A c \in Ship, d \in Ship : c # d => Q[c] \cap Q[d] = {}
      /\ \A y \in PointRef : (\E c \in Ship : y \in Q[c]) <=> LiveIn(s, y) /\ y \notin X
  BY <1>1 DEF LinkedTracks
<1>15. z \in PointRef /\ z \in AnyRef /\ blockOf(z) = b /\ slotOf(z) = s.blocks[b].count
  BY SlotIs
<1>16. s.blocks[b].count \in Nat /\ p \in PointShape
  BY ShapeFields, SizesTyped DEF BlockShape
<1>17. ~LiveIn(s, z) /\ z # r /\ \A c \in Ship : z \notin Q[c]
  <2>1. ~LiveIn(s, z)
    BY <1>15, <1>16 DEF LiveIn
  <2> QED
    BY <1>5, <1>15, <2>1
<1>18. \A c \in Ship : z # Anchor(c)
  BY <1>15, AnchorIs
<1>19. p.prev # z /\ p.next # z
  BY <1>3, <1>17, <1>18
<1>4. Inserted(s, u, b, p)
  BY <1>3, <1>16, <1>19, InsertIs
<1> HIDE DEF z
<1>6. /\ A \in [Ship -> SUBSET PointRef] /\ A[a] = (Q[a] \ {r}) \cup {z}
      /\ \A c \in Ship \ {a} : A[c] = Q[c] /\ r \notin Q[c]
  BY <1>2, <1>5, <1>15
<1>20. rq2 \in [PointRef -> Nat] /\ rq2[z] = rq[r] /\ \A y \in PointRef \ {z} : rq2[y] = rq[y]
  BY <1>5, <1>15
<1> HIDE DEF A
<1> SUFFICES TracksOk(u, X \cup {r}, from)
  BY <1>4
<1>21. p.next \in PointRef => s.pts[p.next].prev # NIL
  BY <1>3, AnyRefIs
<1>22. LiveIn(u, z) /\ \A y \in PointRef \ {z} : LiveIn(u, y) <=> LiveIn(s, y)
  BY <1>3, <1>4, <1>21, LiveInserted DEF z
<1> HIDE DEF u
<1>7. /\ \A y \in PointRef \ {z} :
           /\ u.pts[y].time = s.pts[y].time /\ u.pts[y].dur = s.pts[y].dur
           /\ u.pts[y].next = IF y = p.prev THEN z ELSE s.pts[y].next
           /\ u.pts[y].prev = IF y = p.next THEN z ELSE s.pts[y].prev
      /\ u.pts[z].time = p.time /\ u.pts[z].dur = p.dur
      /\ u.pts[z].next = p.next /\ u.pts[z].prev = p.prev
      /\ \A c \in Ship :
           /\ u.anchors[c].head = IF Anchor(c) = p.prev THEN z ELSE s.anchors[c].head
           /\ u.anchors[c].tail = IF Anchor(c) = p.next THEN z ELSE s.anchors[c].tail
  BY <1>4 DEF Inserted, z
<1>8. \A y \in PointRef : /\ nextPoint(s)[y] = s.pts[y].next /\ prevPoint(s)[y] = s.pts[y].prev
                          /\ nextPoint(u)[y] = u.pts[y].next /\ prevPoint(u)[y] = u.pts[y].prev
  BY DEF nextPoint, prevPoint
<1>9. Linked(A[a], nextPoint(u), prevPoint(u), u.anchors[a].head, u.anchors[a].tail, Anchor(a), rq2)
  <2> DEFINE N == Q[a]
             nx == nextPoint(s)
             pv == prevPoint(s)
             nx2 == nextPoint(u)
             pv2 == prevPoint(u)
             h == s.anchors[a].head
             h2 == u.anchors[a].head
             tl == s.anchors[a].tail
             tl2 == u.anchors[a].tail
             out == Anchor(a)
  <2>1. Linked(N, nx, pv, h, tl, out, rq)
    BY <1>1 DEF LinkedTracks
  <2>2. h2 = IF pv[r] = out THEN z ELSE h
    BY <1>7, <1>8
  <2>3. tl2 = IF nx[r] = out THEN z ELSE tl
    BY <1>7, <1>8
  <2>4. r \in N /\ N \in SUBSET PointRef /\ rq \in [PointRef -> Nat]
    BY <1>2, <1>5
  <2>5. \A y \in N \ {r} : /\ nx2[y] = IF y = pv[r] THEN z ELSE nx[y]
                           /\ pv2[y] = IF y = nx[r] THEN z ELSE pv[y]
    BY <1>7, <1>8, <1>17, <2>4
  <2>8. nx2[z] = nx[r] /\ pv2[z] = pv[r]
    BY <1>7, <1>8, <1>15
  <2>9. z \in PointRef \ N /\ z # out
    BY <1>15, <1>17, <1>18
  <2> HIDE DEF N, nx, pv, nx2, pv2, h, h2, tl, tl2, out
  <2>6. Replacement(PointRef, rq, N, nx, pv, h, tl, out, r, z, nx2, pv2, h2, tl2)
    BY <2>1, <2>2, <2>3, <2>4, <2>5, <2>8, <2>9 DEF Replacement
  <2>7. Linked((N \ {r}) \cup {z}, nx2, pv2, h2, tl2, out, rq2)
    BY <2>6, LinksReplaced
  <2> QED
    BY <1>6, <2>7 DEF N, nx2, pv2, h2, tl2, out
<1> HIDE DEF rq2
<1>10. ASSUME NEW c \in Ship \ {a}
       PROVE  Linked(A[c], nextPoint(u), prevPoint(u), u.anchors[c].head, u.anchors[c].tail, Anchor(c), rq2)
  <2>1. Linked(Q[c], nextPoint(s), prevPoint(s), s.anchors[c].head, s.anchors[c].tail, Anchor(c), rq)
    BY <1>1 DEF LinkedTracks
  <2>2. \A y \in Q[c] : y \in PointRef \ {z} /\ y # p.prev /\ y # p.next
    BY <1>3, <1>5, <1>17
  <2>3. \A y \in Q[c] : /\ nextPoint(u)[y] = nextPoint(s)[y] /\ prevPoint(u)[y] = prevPoint(s)[y]
                        /\ rq2[y] = rq[y]
    BY <1>7, <1>8, <1>20, <2>2
  <2>4. u.anchors[c].head = s.anchors[c].head /\ u.anchors[c].tail = s.anchors[c].tail
    BY <1>3, <1>7
  <2> QED
    BY <1>6, <2>1, <2>3, <2>4, LinksCarry
<1>11. ASSUME NEW c \in Ship
       PROVE  InOrder(u, A[c])
  <2> SUFFICES ASSUME NEW y \in A[c], u.pts[y].next \in A[c]
               PROVE  u.pts[u.pts[y].next].time >= End(u.pts[y])
    BY DEF InOrder
  <2> DEFINE was(x) == IF x = z THEN r ELSE x
  <2>1. InOrder(s, Q[c]) /\ InOrder(s, Q[a])
    BY <1>1 DEF LinkedTracks
  <2>2. /\ y \in PointRef /\ was(y) \in Q[c]
        /\ u.pts[y].next \in PointRef /\ was(u.pts[y].next) \in Q[c]
    BY <1>2, <1>6, <1>17
  <2>3. /\ u.pts[y].time = s.pts[was(y)].time /\ u.pts[y].dur = s.pts[was(y)].dur
        /\ u.pts[u.pts[y].next].time = s.pts[was(u.pts[y].next)].time
    BY <1>7, <2>2
  <2>4. was(u.pts[y].next) = s.pts[was(y)].next
    <3>1. CASE y = z
      BY <1>7, <1>19, <3>1 DEF z
    <3>2. CASE y # z /\ y = p.prev
      <4>1. s.pts[y].next = r /\ u.pts[y].next = z
        BY <1>3, <1>7, <2>2, <3>2
      <4> QED
        BY <3>2, <4>1
    <3>3. CASE y # z /\ y # p.prev
      <4>1. u.pts[y].next = s.pts[y].next
        BY <1>7, <2>2, <3>3
      <4>2. y \in Q[c]
        BY <2>2, <3>3
      <4>3. s.pts[y].next # z
        BY <1>1, <1>17, <1>18, <4>2, Neighbours
      <4> QED
        BY <3>3, <4>1, <4>3
    <3> QED
      BY <3>1, <3>2, <3>3
  <2> HIDE DEF was
  <2>5. s.pts[s.pts[was(y)].next].time >= End(s.pts[was(y)])
    BY <2>1, <2>2, <2>4 DEF InOrder
  <2> QED
    BY <2>3, <2>4, <2>5 DEF End
<1>12. \A c \in Ship, d \in Ship : c # d => A[c] \cap A[d] = {}
  BY <1>5, <1>6, <1>17
<1>13. ASSUME NEW y \in PointRef
       PROVE  (\E c \in Ship : y \in A[c]) <=> LiveIn(u, y) /\ y \notin X \cup {r}
  <2>1. CASE y = r
    BY <1>6, <1>17, <2>1
  <2>2. CASE y = z
    BY <1>6, <1>17, <1>22, <2>2 DEF z
  <2>3. CASE y # r /\ y # z
    <3>1. LiveIn(u, y) <=> LiveIn(s, y)
      BY <1>22, <2>3
    <3>2. (\E c \in Ship : y \in A[c]) <=> \E c \in Ship : y \in Q[c]
      BY <1>6, <2>3
    <3> QED
      BY <1>5, <2>3, <3>1, <3>2
  <2> QED
    BY <2>1, <2>2, <2>3
<1>14. LinkedTracks(u, A, rq2, X \cup {r})
  BY <1>6, <1>9, <1>10, <1>11, <1>12, <1>13, <1>20 DEF LinkedTracks
<1>23. Origins(u, A, rq2, from)
  <2> SUFFICES ASSUME NEW c \in Ship, NEW y \in A[c]
               PROVE  rq2[y] \in DOMAIN from[c] /\ from[c][rq2[y]] = Span(u.pts[y])
    BY DEF Origins
  <2>1. CASE y = z
    <3>1. c = a
      BY <1>6, <1>17, <2>1
    <3>2. Span(u.pts[z]) = Span(s.pts[r])
      BY <1>7 DEF Span, End
    <3> QED
      BY <1>1, <1>2, <1>20, <2>1, <3>1, <3>2 DEF Origins
  <2>2. CASE y # z
    <3>1. y \in Q[c] /\ y \in PointRef \ {z}
      BY <1>6, <2>2
    <3>2. Span(u.pts[y]) = Span(s.pts[y])
      BY <1>7, <3>1 DEF Span, End
    <3> QED
      BY <1>1, <1>20, <3>1, <3>2 DEF Origins
  <2> QED
    BY <2>1, <2>2
<1> QED
  BY <1>14, <1>23 DEF TracksOk


(* A block whose points are all dead or moved is emptied.                  *)
LEMMA TracksEmptied ==
  ASSUME NEW s \in Shape, NEW X, NEW from, TracksOk(s, X, from), NEW b \in Block,
         \A r \in PointRef : blockOf(r) = b /\ LiveIn(s, r) => r \in X,
         NEW u, Emptied(s, u, b)
  PROVE  TracksOk(u, {y \in X : blockOf(y) # b}, from)
<1> DEFINE Y == {y \in X : blockOf(y) # b}
<1>1. PICK Q, rq : LinkedTracks(s, Q, rq, X) /\ Origins(s, Q, rq, from)
  BY DEF TracksOk
<1>2. /\ Q \in [Ship -> SUBSET PointRef] /\ rq \in [PointRef -> Nat]
      /\ \A c \in Ship, d \in Ship : c # d => Q[c] \cap Q[d] = {}
      /\ \A y \in PointRef : (\E c \in Ship : y \in Q[c]) <=> LiveIn(s, y) /\ y \notin X
  BY <1>1 DEF LinkedTracks
<1>3. \A c \in Ship : \A y \in Q[c] : y \in PointRef /\ blockOf(y) # b
  BY <1>2
<1>4. /\ u.anchors = s.anchors
      /\ \A y \in PointRef : blockOf(y) # b => u.pts[y] = s.pts[y]
      /\ \A c \in Block : u.blocks[c].count = IF c = b THEN 0 ELSE s.blocks[c].count
  BY DEF Emptied
<1>5. ASSUME NEW c \in Ship
      PROVE  /\ Linked(Q[c], nextPoint(u), prevPoint(u), u.anchors[c].head, u.anchors[c].tail, Anchor(c), rq)
             /\ InOrder(u, Q[c])
  <2>1. /\ Linked(Q[c], nextPoint(s), prevPoint(s), s.anchors[c].head, s.anchors[c].tail, Anchor(c), rq)
        /\ InOrder(s, Q[c])
    BY <1>1 DEF LinkedTracks
  <2>2. \A y \in Q[c] : u.pts[y] = s.pts[y] /\ y \in PointRef
    BY <1>3, <1>4
  <2>3. \A y \in Q[c] : /\ nextPoint(u)[y] = nextPoint(s)[y] /\ prevPoint(u)[y] = prevPoint(s)[y]
                        /\ rq[y] = rq[y]
    BY <2>2 DEF nextPoint, prevPoint
  <2>4. InOrder(u, Q[c])
    BY <2>1, <2>2 DEF InOrder
  <2> QED
    BY <1>4, <2>1, <2>3, <2>4, LinksCarry
<1>6. ASSUME NEW y \in PointRef
      PROVE  (\E c \in Ship : y \in Q[c]) <=> LiveIn(u, y) /\ y \notin Y
  <2>1. blockOf(y) \in Block /\ slotOf(y) \in Nat
    BY PointRefIs, SizesTyped
  <2>2. CASE blockOf(y) = b
    <3>1. ~LiveIn(u, y)
      BY <1>4, <2>1, <2>2 DEF LiveIn
    <3> QED
      BY <1>3, <2>2, <3>1
  <2>3. CASE blockOf(y) # b
    <3>1. LiveIn(u, y) <=> LiveIn(s, y)
      BY <1>4, <2>1, <2>3 DEF LiveIn
    <3>2. y \in X <=> y \in Y
      BY <2>3
    <3> QED
      BY <1>2, <3>1, <3>2
  <2> QED
    BY <2>2, <2>3
<1>7. LinkedTracks(u, Q, rq, Y)
  BY <1>2, <1>5, <1>6 DEF LinkedTracks
<1>8. Origins(u, Q, rq, from)
  <2>1. \A c \in Ship : \A y \in Q[c] : u.pts[y] = s.pts[y]
    BY <1>3, <1>4
  <2> QED
    BY <1>1, <2>1 DEF Origins
<1> QED
  BY <1>7, <1>8 DEF TracksOk

(* The ends of a track.                                                    *)
LEMMA TrackEnds ==
  ASSUME NEW s \in Shape, NEW Q, NEW rq, NEW X, LinkedTracks(s, Q, rq, X), NEW a \in Ship
  PROVE  /\ s.anchors[a].tail \in Q[a] \cup {Anchor(a)} /\ s.anchors[a].head \in Q[a] \cup {Anchor(a)}
         /\ s.anchors[a].tail \in PointRef => /\ s.anchors[a].tail \in Q[a]
                                              /\ s.pts[s.anchors[a].tail].next = Anchor(a)
         /\ s.anchors[a].head \in PointRef => s.anchors[a].head \in Q[a]
         /\ s.anchors[a].tail \in AnyRef /\ s.anchors[a].head \in AnyRef
         /\ \A c \in Ship \ {a} : s.anchors[a].tail \notin Q[c] /\ s.anchors[a].tail # Anchor(c)
<1> DEFINE tl == s.anchors[a].tail
<1>1. /\ Q \in [Ship -> SUBSET PointRef]
      /\ \A c \in Ship : a # c => Q[a] \cap Q[c] = {}
      /\ Linked(Q[a], nextPoint(s), prevPoint(s), s.anchors[a].head, s.anchors[a].tail, Anchor(a), rq)
  BY DEF LinkedTracks
<1>2. /\ Anchor(a) \in AnyRef \ PointRef
      /\ \A c \in Ship \ {a} : Anchor(c) # Anchor(a) /\ Anchor(c) \notin PointRef /\ Anchor(a) \notin Q[c]
  BY <1>1, AnchorIs
<1>3. tl \in Q[a] \cup {Anchor(a)} /\ s.anchors[a].head \in Q[a] \cup {Anchor(a)}
  BY <1>1 DEF Linked
<1>4. tl \in PointRef => tl \in Q[a] /\ s.pts[tl].next = Anchor(a)
  <2> SUFFICES ASSUME tl \in PointRef
               PROVE  tl \in Q[a] /\ s.pts[tl].next = Anchor(a)
    OBVIOUS
  <2>1. tl \in Q[a]
    BY <1>2, <1>3
  <2>2. nextPoint(s)[tl] = Anchor(a)
    BY <1>1, <2>1 DEF Linked
  <2> QED
    BY <2>1, <2>2 DEF nextPoint
<1>5. \A y \in Q[a] : y \in AnyRef /\ y \in PointRef /\ \A c \in Ship \ {a} : y \notin Q[c] /\ y # Anchor(c)
  BY <1>1, <1>2, AnyRefIs
<1> QED
  BY <1>2, <1>3, <1>4, <1>5

(* A ship's newest point: what its track gets.                             *)
newPoint(s, a, t) == [time |-> t, dur |-> 0, prev |-> s.anchors[a].tail, next |-> Anchor(a)]

LEMMA TracksPlaced ==
  ASSUME NEW s \in Shape, NEW X, NEW from \in [Ship -> Seq(Spans)], TracksOk(s, X, from), NEW a \in Ship,
         NEW b \in Block, s.blocks[b].count < BLOCK_SIZE, Slot(s, b) \notin X,
         NEW t \in Nat, s.anchors[a].tail \in PointRef => t >= End(s.pts[s.anchors[a].tail])
  PROVE  /\ Placed(s, b, a, t) = linkedIn(s, b, newPoint(s, a, t))
         /\ Inserted(s, Placed(s, b, a, t), b, newPoint(s, a, t))
         /\ TracksOk(Placed(s, b, a, t), X, [from EXCEPT ![a] = Append(from[a], Span(newPoint(s, a, t)))])
<1>1. PICK Q, rq : LinkedTracks(s, Q, rq, X) /\ Origins(s, Q, rq, from)
  BY DEF TracksOk
<1> DEFINE tl == s.anchors[a].tail
           p == newPoint(s, a, t)
           u == linkedIn(s, b, p)
           z == Slot(s, b)
           out == Anchor(a)
           A == [Q EXCEPT ![a] = Q[a] \cup {z}]
           rq2 == [rq EXCEPT ![z] = Len(from[a]) + 1]
           to == [from EXCEPT ![a] = Append(from[a], Span(p))]
<1>0. p.time = t /\ p.dur = 0 /\ p.prev = tl /\ p.next = Anchor(a)
  BY DEF newPoint
<1>2. Placed(s, b, a, t) = u
  BY DEF Placed, linkedIn, newPoint
<1>3. /\ tl \in Q[a] \cup {Anchor(a)} /\ tl \in AnyRef
      /\ tl \in PointRef => tl \in Q[a] /\ s.pts[tl].next = Anchor(a)
      /\ \A c \in Ship \ {a} : tl \notin Q[c] /\ tl # Anchor(c)
  BY <1>1, TrackEnds
<1>5. /\ Q \in [Ship -> SUBSET PointRef] /\ rq \in [PointRef -> Nat]
      /\ \A c \in Ship, d \in Ship : c # d => Q[c] \cap Q[d] = {}
      /\ \A y \in PointRef : (\E c \in Ship : y \in Q[c]) <=> LiveIn(s, y) /\ y \notin X
  BY <1>1 DEF LinkedTracks
<1>15. z \in PointRef /\ z \in AnyRef /\ blockOf(z) = b /\ slotOf(z) = s.blocks[b].count
  BY SlotIs
<1>16. s.blocks[b].count \in Nat
  BY ShapeFields, SizesTyped DEF BlockShape
<1>17. ~LiveIn(s, z) /\ \A c \in Ship : z \notin Q[c]
  <2>1. ~LiveIn(s, z)
    BY <1>15, <1>16 DEF LiveIn
  <2> QED
    BY <1>5, <1>15, <2>1
<1>18. \A c \in Ship : z # Anchor(c) /\ Anchor(c) \notin PointRef /\ Anchor(c) \in AnyRef
  BY <1>15, AnchorIs
<1>19. p.prev # z /\ p.next # z /\ p.prev \in AnyRef /\ p.next \in AnyRef /\ p \in PointShape
  <2>1. p.prev # z /\ p.next # z /\ p.prev \in AnyRef /\ p.next \in AnyRef
    BY <1>0, <1>3, <1>17, <1>18
  <2> QED
    BY <1>0, <2>1 DEF PointShape, newPoint
<1> HIDE DEF p
<1>4. Inserted(s, u, b, p)
  BY <1>19, InsertIs
<1> HIDE DEF z
<1>6. /\ A \in [Ship -> SUBSET PointRef] /\ A[a] = Q[a] \cup {z}
      /\ \A c \in Ship \ {a} : A[c] = Q[c]
  BY <1>5, <1>15
<1>20. /\ rq2 \in [PointRef -> Nat] /\ Len(from[a]) + 1 \in Nat
       /\ rq2[z] = Len(from[a]) + 1 /\ \A y \in PointRef \ {z} : rq2[y] = rq[y]
  BY <1>5, <1>15
<1>21. tl # out => rq[tl] < Len(from[a]) + 1
  <2>1. tl # out => tl \in Q[a]
    BY <1>3
  <2>2. from[a] \in Seq(Spans) /\ DOMAIN from[a] = 1 .. Len(from[a]) /\ Len(from[a]) \in Nat
    OBVIOUS
  <2> QED
    BY <1>1, <2>1, <2>2 DEF Origins
<1> HIDE DEF A
<1> SUFFICES TracksOk(u, X, to)
  BY <1>2, <1>4 DEF p
<1>22. LiveIn(u, z) /\ \A y \in PointRef \ {z} : LiveIn(u, y) <=> LiveIn(s, y)
  BY <1>0, <1>4, <1>18, <1>19, LiveInserted DEF z
<1> HIDE DEF u
<1>7. /\ \A y \in PointRef \ {z} :
           /\ u.pts[y].time = s.pts[y].time /\ u.pts[y].dur = s.pts[y].dur
           /\ u.pts[y].next = IF y = tl THEN z ELSE s.pts[y].next
           /\ u.pts[y].prev = s.pts[y].prev
      /\ u.pts[z].time = t /\ u.pts[z].dur = 0
      /\ u.pts[z].next = out /\ u.pts[z].prev = tl
      /\ \A c \in Ship :
           /\ u.anchors[c].head = IF Anchor(c) = tl THEN z ELSE s.anchors[c].head
           /\ u.anchors[c].tail = IF c = a THEN z ELSE s.anchors[c].tail
  <2>1. \A y \in PointRef : y # p.next
    BY <1>0, <1>18
  <2>2. \A c \in Ship : Anchor(c) = p.next <=> c = a
    BY <1>0, AnchorIs
  <2> QED
    BY <1>0, <1>4, <2>1, <2>2 DEF Inserted, z
<1>8. \A y \in PointRef : /\ nextPoint(s)[y] = s.pts[y].next /\ prevPoint(s)[y] = s.pts[y].prev
                          /\ nextPoint(u)[y] = u.pts[y].next /\ prevPoint(u)[y] = u.pts[y].prev
  BY DEF nextPoint, prevPoint
<1>9. Linked(A[a], nextPoint(u), prevPoint(u), u.anchors[a].head, u.anchors[a].tail, Anchor(a), rq2)
  <2> DEFINE N == Q[a]
             nx == nextPoint(s)
             pv == prevPoint(s)
             nx2 == nextPoint(u)
             pv2 == prevPoint(u)
             h == s.anchors[a].head
             h2 == u.anchors[a].head
  <2>1. Linked(N, nx, pv, h, tl, out, rq)
    BY <1>1 DEF LinkedTracks
  <2>2. h2 = IF tl = out THEN z ELSE h
    BY <1>7
  <2>4. N \in SUBSET PointRef /\ rq \in [PointRef -> Nat]
    BY <1>5
  <2>5. \A y \in N : nx2[y] = (IF y = tl THEN z ELSE nx[y]) /\ pv2[y] = pv[y]
    BY <1>7, <1>8, <1>17, <2>4
  <2>8. nx2[z] = out /\ pv2[z] = tl
    BY <1>7, <1>8, <1>15
  <2>9. z \in PointRef \ N /\ z # out
    BY <1>15, <1>17, <1>18
  <2>10. u.anchors[a].tail = z
    BY <1>7
  <2> HIDE DEF N, nx, pv, nx2, pv2, h, h2, tl, out
  <2>6. Appending(PointRef, rq, N, nx, pv, h, tl, out, z, nx2, pv2, h2)
    BY <2>1, <2>2, <2>4, <2>5, <2>8, <2>9 DEF Appending
  <2>7. Linked(N \cup {z}, nx2, pv2, h2, z, out, rq2)
    <3> DEFINE n == Len(from[a]) + 1
    <3>1. n \in Nat /\ (tl # out => rq[tl] < n)
      BY <1>20, <1>21 DEF tl, out
    <3> HIDE DEF n
    <3>2. Linked(N \cup {z}, nx2, pv2, h2, z, out, [rq EXCEPT ![z] = n])
      BY <2>6, <3>1, LinksAppended
    <3> QED
      BY <3>2 DEF n
  <2> QED
    BY <1>6, <2>7, <2>10 DEF N, nx2, pv2, h2, out
<1> HIDE DEF rq2
<1>10. ASSUME NEW c \in Ship \ {a}
       PROVE  Linked(A[c], nextPoint(u), prevPoint(u), u.anchors[c].head, u.anchors[c].tail, Anchor(c), rq2)
  <2>1. Linked(Q[c], nextPoint(s), prevPoint(s), s.anchors[c].head, s.anchors[c].tail, Anchor(c), rq)
    BY <1>1 DEF LinkedTracks
  <2>2. \A y \in Q[c] : y \in PointRef \ {z} /\ y # tl
    BY <1>3, <1>5, <1>17
  <2>3. \A y \in Q[c] : /\ nextPoint(u)[y] = nextPoint(s)[y] /\ prevPoint(u)[y] = prevPoint(s)[y]
                        /\ rq2[y] = rq[y]
    BY <1>7, <1>8, <1>20, <2>2
  <2>4. u.anchors[c].head = s.anchors[c].head /\ u.anchors[c].tail = s.anchors[c].tail
    BY <1>3, <1>7
  <2> QED
    BY <1>6, <2>1, <2>3, <2>4, LinksCarry
<1>11. ASSUME NEW c \in Ship
       PROVE  InOrder(u, A[c])
  <2> SUFFICES ASSUME NEW y \in A[c], u.pts[y].next \in A[c]
               PROVE  u.pts[u.pts[y].next].time >= End(u.pts[y])
    BY DEF InOrder
  <2>1. InOrder(s, Q[c])
    BY <1>1 DEF LinkedTracks
  <2>2. y \in PointRef /\ u.pts[y].next \in PointRef
    BY <1>6
  <2>3. y # z /\ y \in Q[c]
    <3>1. y # z
      BY <1>7, <1>18, <2>2
    <3> QED
      BY <1>6, <3>1
  <2>4. End(u.pts[y]) = End(s.pts[y])
    BY <1>7, <2>2, <2>3 DEF End
  <2>5. CASE y = tl
    <3>1. u.pts[y].next = z /\ t >= End(s.pts[y]) /\ u.pts[z].time = t
      BY <1>7, <2>2, <2>3, <2>5
    <3> QED
      BY <2>4, <3>1
  <2>6. CASE y # tl
    <3>1. u.pts[y].next = s.pts[y].next
      BY <1>7, <2>2, <2>3, <2>6
    <3>2. s.pts[y].next \in Q[c] \cup {Anchor(c)}
      BY <1>1, <2>3, Neighbours
    <3>3. s.pts[y].next \in Q[c] /\ s.pts[y].next # z
      BY <1>17, <1>18, <2>2, <3>1, <3>2
    <3>4. s.pts[s.pts[y].next].time >= End(s.pts[y])
      BY <2>1, <2>3, <3>3 DEF InOrder
    <3>5. u.pts[s.pts[y].next].time = s.pts[s.pts[y].next].time
      BY <1>7, <2>2, <3>1, <3>3
    <3> QED
      BY <2>4, <3>1, <3>4, <3>5
  <2> QED
    BY <2>5, <2>6
<1>12. ASSUME NEW c \in Ship, NEW d \in Ship, c # d
       PROVE  A[c] \cap A[d] = {}
  <2>1. Q[c] \cap Q[d] = {}
    BY <1>5, <1>12
  <2> QED
    BY <1>6, <1>12, <1>17, <2>1
<1>13. ASSUME NEW y \in PointRef
       PROVE  (\E c \in Ship : y \in A[c]) <=> LiveIn(u, y) /\ y \notin X
  <2>2. CASE y = z
    BY <1>6, <1>22, <2>2 DEF z
  <2>3. CASE y # z
    <3>1. LiveIn(u, y) <=> LiveIn(s, y)
      BY <1>22, <2>3
    <3>2. (\E c \in Ship : y \in A[c]) <=> \E c \in Ship : y \in Q[c]
      BY <1>6, <2>3
    <3> QED
      BY <1>5, <3>1, <3>2
  <2> QED
    BY <2>2, <2>3
<1>14. LinkedTracks(u, A, rq2, X)
  BY <1>6, <1>9, <1>10, <1>11, <1>12, <1>13, <1>20 DEF LinkedTracks
<1>23. Origins(u, A, rq2, to)
  <2> SUFFICES ASSUME NEW c \in Ship, NEW y \in A[c]
               PROVE  rq2[y] \in DOMAIN to[c] /\ to[c][rq2[y]] = Span(u.pts[y])
    BY DEF Origins
  <2> DEFINE n == Len(from[a]) + 1
  <2>1. /\ from[a] \in Seq(Spans) /\ DOMAIN from[a] = 1 .. Len(from[a]) /\ Len(from[a]) \in Nat
        /\ to[a] = Append(from[a], Span(p)) /\ \A d \in Ship \ {a} : to[d] = from[d]
    OBVIOUS
  <2>2. /\ DOMAIN to[a] = 1 .. n /\ to[a][n] = Span(p)
        /\ \A i \in DOMAIN from[a] : to[a][i] = from[a][i] /\ i \in 1 .. n
    BY <2>1
  <2>3. CASE y = z
    <3>1. c = a
      BY <1>6, <1>17, <2>3
    <3>2. Span(u.pts[z]) = Span(p)
      BY <1>0, <1>7 DEF Span, End
    <3>3. n \in 1 .. n /\ rq2[y] = n
      BY <1>20, <2>1, <2>3
    <3> QED
      BY <2>2, <2>3, <3>1, <3>2, <3>3
  <2>4. CASE y # z
    <3>1. y \in Q[c] /\ y \in PointRef \ {z}
      BY <1>6, <2>4
    <3>2. Span(u.pts[y]) = Span(s.pts[y])
      BY <1>7, <3>1 DEF Span, End
    <3>3. rq2[y] \in DOMAIN from[c] /\ from[c][rq2[y]] = Span(s.pts[y])
      BY <1>1, <1>20, <3>1 DEF Origins
    <3> HIDE DEF to
    <3> QED
      BY <2>1, <2>2, <3>2, <3>3
  <2> QED
    BY <2>3, <2>4
<1> QED
  BY <1>14, <1>23 DEF TracksOk


-----------------------------------------------------------------------------
(* Counts of live points, and times.                                       *)

livePoints(s, b) == {r \in PointRef : blockOf(r) = b /\ LiveIn(s, r)}

(* The blocks of E are about to be emptied: their counts are left alone.   *)
LiveOk(s, E) == \A b \in Block \ E : s.blocks[b].live = Cardinality(livePoints(s, b))

(* No report is later than the clock, and none of a ship later than its    *)
(* newest when the operation began; from has the tracks of that time.      *)
Limits == [clock : Nat, ends : [Ship -> Nat], from : [Ship -> Seq(Spans)]]

Times(s, c) == \A r \in PointRef : /\ s.pts[r].dur \in 0 .. (DWELL_MAX - 1)
                                   /\ s.pts[r].time + s.pts[r].dur =< c

EndsBy(s, till) ==
  \A a \in Ship : s.anchors[a].tail \in PointRef => End(s.pts[s.anchors[a].tail]) =< till.ends[a]

PointsOk(s, X, E, till) ==
  /\ TracksOk(s, X, till.from) /\ LiveOk(s, E) /\ Times(s, till.clock) /\ EndsBy(s, till)

LEMMA PointsFinite ==
  /\ IsFiniteSet(PointRef)
  /\ \A s, b : IsFiniteSet(livePoints(s, b))
<1>1. IsFiniteSet(PointRef)
  <2>1. 0 \in Int /\ SHIP_BIT - 1 \in Int
    BY SizesTyped
  <2> QED
    BY <2>1, FS_Interval, Zenon DEF PointRef
<1>2. \A s, b : livePoints(s, b) \subseteq PointRef
  BY DEF livePoints
<1> QED
  BY <1>1, <1>2, FS_Subset

LEMMA PointsCarry ==
  ASSUME NEW s, NEW X, NEW E, NEW till, PointsOk(s, X, E, till), NEW u, SamePoints(s, u)
  PROVE  PointsOk(u, X, E, till)
<1>1. \A r \in PointRef : LiveIn(u, r) <=> LiveIn(s, r)
  BY PointRefIs DEF LiveIn, SamePoints
<1>2. \A b : livePoints(u, b) = livePoints(s, b)
  BY <1>1 DEF livePoints
<1>3. TracksOk(u, X, till.from)
  BY TracksCarry DEF SamePoints, PointsOk
<1>4. LiveOk(u, E)
  BY <1>2 DEF LiveOk, PointsOk, SamePoints
<1>5. Times(u, till.clock) /\ EndsBy(u, till)
  BY DEF Times, EndsBy, PointsOk, SamePoints
<1> QED
  BY <1>3, <1>4, <1>5 DEF PointsOk

LEMMA PointsDead ==
  ASSUME NEW s, NEW X, NEW E, NEW till, PointsOk(s, X, E, till), NEW r, ~LiveIn(s, r)
  PROVE  PointsOk(s, X \cup {r}, E, till)
BY TracksDead DEF PointsOk

LEMMA PointsWeaker ==
  ASSUME NEW s \in Shape, NEW X, NEW E, NEW till \in Limits, PointsOk(s, X, E, till),
         NEW F, E \subseteq F
  PROVE  PointsOk(s, X, F, till)
BY DEF LiveOk, PointsOk

LEMMA LiveUnlinked ==
  ASSUME NEW s \in Shape, NEW r \in PointRef, s.pts[r].prev \in AnyRef,
         s.pts[r].next \in PointRef => s.pts[s.pts[r].next].prev # NIL,
         NEW u, Unlinked(s, u, r)
  PROVE  /\ ~LiveIn(u, r)
         /\ \A y \in PointRef \ {r} : LiveIn(u, y) <=> LiveIn(s, y)
<1>1. u.pts[r].prev = NIL /\ \A c \in Block : u.blocks[c].count = s.blocks[c].count
  BY DEF Unlinked
<1>2. ASSUME NEW y \in PointRef \ {r}
      PROVE  LiveIn(u, y) <=> LiveIn(s, y)
  <2>1. u.pts[y].prev = IF y = s.pts[r].next THEN s.pts[r].prev ELSE s.pts[y].prev
    BY DEF Unlinked
  <2>2. u.pts[y].prev # NIL <=> s.pts[y].prev # NIL
    BY <2>1, AnyRefIs
  <2>3. blockOf(y) \in Block
    BY PointRefIs
  <2> QED
    BY <1>1, <2>2, <2>3 DEF LiveIn
<1> QED
  BY <1>1, <1>2 DEF LiveIn

(* A point out of the live ones of a block, or into them.                  *)
LEMMA LiveLess ==
  ASSUME NEW s, NEW u, NEW E, LiveOk(s, E), NEW r \in PointRef, LiveIn(s, r), ~LiveIn(u, r),
         \A y \in PointRef \ {r} : LiveIn(u, y) <=> LiveIn(s, y),
         \A c \in Block : u.blocks[c].live = IF c = blockOf(r) THEN s.blocks[c].live - 1
                                                               ELSE s.blocks[c].live
  PROVE  LiveOk(u, E)
<1> SUFFICES ASSUME NEW b \in Block \ E
             PROVE  u.blocks[b].live = Cardinality(livePoints(u, b))
  BY DEF LiveOk
<1>1. s.blocks[b].live = Cardinality(livePoints(s, b))
  BY DEF LiveOk
<1>2. CASE b = blockOf(r)
  <2>1. livePoints(u, b) = livePoints(s, b) \ {r} /\ r \in livePoints(s, b)
    BY <1>2 DEF livePoints
  <2>2. Cardinality(livePoints(u, b)) = Cardinality(livePoints(s, b)) - 1
    BY <2>1, PointsFinite, FS_RemoveElement
  <2> QED
    BY <1>1, <1>2, <2>2
<1>3. CASE b # blockOf(r)
  <2>1. livePoints(u, b) = livePoints(s, b)
    BY <1>3 DEF livePoints
  <2> QED
    BY <1>1, <1>3, <2>1
<1> QED
  BY <1>2, <1>3

LEMMA LiveMore ==
  ASSUME NEW s, NEW u, NEW E, LiveOk(s, E), NEW r \in PointRef, ~LiveIn(s, r), LiveIn(u, r),
         \A y \in PointRef \ {r} : LiveIn(u, y) <=> LiveIn(s, y),
         \A c \in Block : u.blocks[c].live = IF c = blockOf(r) THEN s.blocks[c].live + 1
                                                               ELSE s.blocks[c].live
  PROVE  LiveOk(u, E)
<1> SUFFICES ASSUME NEW b \in Block \ E
             PROVE  u.blocks[b].live = Cardinality(livePoints(u, b))
  BY DEF LiveOk
<1>1. s.blocks[b].live = Cardinality(livePoints(s, b))
  BY DEF LiveOk
<1>2. CASE b = blockOf(r)
  <2>1. livePoints(u, b) = livePoints(s, b) \cup {r} /\ r \notin livePoints(s, b)
    BY <1>2 DEF livePoints
  <2>2. Cardinality(livePoints(u, b)) = Cardinality(livePoints(s, b)) + 1
    BY <2>1, PointsFinite, FS_AddElement
  <2> QED
    BY <1>1, <1>2, <2>2
<1>3. CASE b # blockOf(r)
  <2>1. livePoints(u, b) = livePoints(s, b)
    BY <1>3 DEF livePoints
  <2> QED
    BY <1>1, <1>3, <2>1
<1> QED
  BY <1>2, <1>3

LEMMA PointsUnlinked ==
  ASSUME NEW s \in Shape, NEW X, NEW E, NEW till \in Limits, PointsOk(s, X, E, till),
         NEW r \in PointRef, LiveIn(s, r), r \notin X
  PROVE  /\ Unlinked(s, unlink(s, r), r) /\ ~LiveIn(unlink(s, r), r)
         /\ \A y \in PointRef \ {r} : LiveIn(unlink(s, r), y) <=> LiveIn(s, y)
         /\ PointsOk(unlink(s, r), X, E, till)
<1> DEFINE u == unlink(s, r)
           p == s.pts[r]
<1>1. PICK Q, rq : LinkedTracks(s, Q, rq, X)
  BY DEF TracksOk, PointsOk
<1>2. PICK a \in Ship : r \in Q[a]
  BY <1>1 DEF LinkedTracks
<1>3. /\ p.prev \in AnyRef
      /\ p.next \in PointRef => s.pts[p.next].prev = r
  BY <1>1, <1>2, Neighbours
<1>4. Unlinked(s, u, r) /\ TracksOk(u, X, till.from)
  BY TracksUnlinked DEF PointsOk
<1> HIDE DEF u
<1>5. p.next \in PointRef => s.pts[p.next].prev # NIL
  BY <1>3, AnyRefIs
<1>6. ~LiveIn(u, r) /\ \A y \in PointRef \ {r} : LiveIn(u, y) <=> LiveIn(s, y)
  BY <1>3, <1>4, <1>5, LiveUnlinked
<1>7. \A c \in Block : u.blocks[c].live = IF c = blockOf(r) THEN s.blocks[c].live - 1
                                                            ELSE s.blocks[c].live
  BY <1>4 DEF Unlinked
<1>8. LiveOk(u, E)
  BY <1>6, <1>7, LiveLess DEF PointsOk
<1>9. Times(u, till.clock)
  <2>1. Times(s, till.clock) /\ DWELL_MAX - 1 \in Nat /\ till.clock \in Nat
    BY StoreSizes DEF PointsOk, Limits
  <2>2. \A y \in PointRef : s.pts[y].time \in Nat /\ s.pts[y].dur \in Nat
    BY ShapeFields DEF PointShape
  <2>3. u.pts[r].time = p.time /\ u.pts[r].dur = 0
    BY <1>4 DEF Unlinked
  <2>4. \A y \in PointRef \ {r} : u.pts[y].time = s.pts[y].time /\ u.pts[y].dur = s.pts[y].dur
    BY <1>4 DEF Unlinked
  <2> QED
    BY <2>1, <2>2, <2>3, <2>4 DEF Times
<1>11. EndsBy(u, till)
  <2> SUFFICES ASSUME NEW c \in Ship, u.anchors[c].tail \in PointRef
               PROVE  End(u.pts[u.anchors[c].tail]) =< till.ends[c]
    BY DEF EndsBy
  <2> DEFINE tl == s.anchors[c].tail
  <2>1. tl \in PointRef => End(s.pts[tl]) =< till.ends[c]
    BY DEF PointsOk, EndsBy
  <2>2. u.anchors[c].tail = IF Anchor(c) = p.next THEN p.prev ELSE tl
    BY <1>4 DEF Unlinked
  <2>3. /\ tl \in PointRef => tl \in Q[c] /\ s.pts[tl].next = Anchor(c)
        /\ tl \in Q[c] \cup {Anchor(c)}
    BY <1>1, TrackEnds
  <2>4. CASE Anchor(c) # p.next
    <3>1. tl \in PointRef /\ tl # r
      BY <2>2, <2>3, <2>4
    <3>2. End(u.pts[tl]) = End(s.pts[tl])
      BY <1>4, <3>1 DEF Unlinked, End
    <3> QED
      BY <2>1, <2>2, <2>4, <3>1, <3>2
  <2>5. CASE Anchor(c) = p.next
    <3>1. c = a /\ p.prev \in PointRef /\ p.prev \in Q[a] /\ p.prev # r /\ s.pts[p.prev].next = r
      BY <1>1, <1>2, <2>2, <2>5, Neighbours
    <3>2. tl = r
      <4>1. /\ Linked(Q[a], nextPoint(s), prevPoint(s), s.anchors[a].head, tl, Anchor(a), rq)
            /\ nextPoint(s)[r] = Anchor(a)
        BY <1>1, <2>5, <3>1 DEF LinkedTracks, nextPoint
      <4> QED
        BY <1>2, <4>1 DEF Linked
    <3>3. p.time >= End(s.pts[p.prev])
      BY <1>1, <1>2, <3>1 DEF LinkedTracks, InOrder
    <3>4. End(u.pts[p.prev]) = End(s.pts[p.prev])
      BY <1>4, <3>1 DEF Unlinked, End
    <3>5. /\ p.time \in Nat /\ p.dur \in Nat /\ till.ends[c] \in Nat
          /\ s.pts[p.prev].time \in Nat /\ s.pts[p.prev].dur \in Nat
      BY <3>1, ShapeFields DEF PointShape, Limits
    <3>6. End(p) =< till.ends[c]
      BY <2>1, <3>2
    <3>7. End(s.pts[p.prev]) =< till.ends[c]
      BY <3>3, <3>5, <3>6 DEF End
    <3> QED
      BY <2>2, <2>5, <3>4, <3>7
  <2> QED
    BY <2>4, <2>5
<1>10. PointsOk(u, X, E, till)
  BY <1>4, <1>8, <1>9, <1>11 DEF PointsOk
<1> QED
  BY <1>4, <1>6, <1>10 DEF u

LEMMA PointsInserted ==
  ASSUME NEW s \in Shape, NEW X, NEW E, NEW till \in Limits, PointsOk(s, X, E, till),
         NEW b \in Block, s.blocks[b].count < BLOCK_SIZE,
         NEW p, p.prev \in AnyRef, p.next \in PointRef => s.pts[p.next].prev # NIL,
         p.dur \in 0 .. (DWELL_MAX - 1), p.time + p.dur =< till.clock,
         \A a \in Ship : p.next = Anchor(a) => p.time + p.dur =< till.ends[a],
         NEW u, Inserted(s, u, b, p)
  PROVE  /\ LiveIn(u, Slot(s, b))
         /\ \A y \in PointRef \ {Slot(s, b)} : LiveIn(u, y) <=> LiveIn(s, y)
         /\ LiveOk(u, E) /\ Times(u, till.clock) /\ EndsBy(u, till)
<1> DEFINE z == Slot(s, b)
<1>1. z \in PointRef /\ blockOf(z) = b
  BY SlotIs
<1>2. /\ LiveIn(u, z) /\ ~(slotOf(z) < s.blocks[b].count)
      /\ \A y \in PointRef \ {z} : LiveIn(u, y) <=> LiveIn(s, y)
  BY LiveInserted
<1>3. \A c \in Block : u.blocks[c].live = IF c = b THEN s.blocks[c].live + 1 ELSE s.blocks[c].live
  BY DEF Inserted
<1>4. \A y \in PointRef \ {z} : u.pts[y].time = s.pts[y].time /\ u.pts[y].dur = s.pts[y].dur
  BY DEF Inserted
<1>5. u.pts[z].time = p.time /\ u.pts[z].dur = p.dur
  BY DEF Inserted
<1> HIDE DEF z
<1>6. ~LiveIn(s, z)
  BY <1>1, <1>2 DEF LiveIn
<1>7. LiveOk(s, E) /\ Times(s, till.clock)
  BY DEF PointsOk
<1>8. LiveOk(u, E)
  BY <1>1, <1>2, <1>3, <1>6, <1>7, LiveMore
<1>9. Times(u, till.clock)
  BY <1>1, <1>4, <1>5, <1>7 DEF Times
<1>10. EndsBy(u, till)
  <2> SUFFICES ASSUME NEW c \in Ship, u.anchors[c].tail \in PointRef
               PROVE  End(u.pts[u.anchors[c].tail]) =< till.ends[c]
    BY DEF EndsBy
  <2> DEFINE tl == s.anchors[c].tail
  <2>1. u.anchors[c].tail = IF Anchor(c) = p.next THEN z ELSE tl
    BY DEF Inserted, z
  <2>2. CASE Anchor(c) = p.next
    BY <1>5, <2>1, <2>2 DEF End
  <2>3. CASE Anchor(c) # p.next
    <3>1. tl \in PointRef /\ End(s.pts[tl]) =< till.ends[c]
      BY <2>1, <2>3 DEF PointsOk, EndsBy
    <3>2. tl # z
      <4>1. PICK Q, rq, X2 : LinkedTracks(s, Q, rq, X2)
        BY DEF PointsOk, TracksOk
      <4>2. tl \in Q[c]
        BY <3>1, <4>1, TrackEnds
      <4>3. LiveIn(s, tl)
        BY <3>1, <4>1, <4>2 DEF LinkedTracks
      <4> QED
        BY <1>6, <4>3
    <3>3. End(u.pts[tl]) = End(s.pts[tl])
      BY <1>4, <3>1, <3>2 DEF End
    <3> QED
      BY <2>1, <2>3, <3>1, <3>3
  <2> QED
    BY <2>2, <2>3
<1> QED
  BY <1>2, <1>8, <1>9, <1>10 DEF z

LEMMA PointsEmptied ==
  ASSUME NEW s \in Shape, NEW X, NEW E, NEW till \in Limits, PointsOk(s, X, E, till),
         NEW b \in Block, \A r \in PointRef : blockOf(r) = b /\ LiveIn(s, r) => r \in X
  PROVE  /\ Emptied(s, emptied(s, b), b)
         /\ PointsOk(emptied(s, b), {y \in X : blockOf(y) # b}, E \ {b}, till)
<1> DEFINE u == emptied(s, b)
<1>1. Emptied(s, u, b)
  BY EmptiedIs
<1> HIDE DEF u
<1>2. TracksOk(u, {y \in X : blockOf(y) # b}, till.from)
  BY <1>1, TracksEmptied DEF PointsOk
<1>3. /\ \A y \in PointRef : /\ blockOf(y) # b => u.pts[y] = s.pts[y]
                             /\ blockOf(y) = b => u.pts[y] = Blank
      /\ \A c \in Block : /\ u.blocks[c].count = IF c = b THEN 0 ELSE s.blocks[c].count
                          /\ u.blocks[c].live = IF c = b THEN 0 ELSE s.blocks[c].live
  BY <1>1 DEF Emptied
<1>4. LiveOk(u, E \ {b})
  <2> SUFFICES ASSUME NEW c \in Block \ (E \ {b})
               PROVE  u.blocks[c].live = Cardinality(livePoints(u, c))
    BY DEF LiveOk
  <2>1. CASE c = b
    <3>1. \A r \in PointRef : blockOf(r) = b => ~LiveIn(u, r)
      BY <1>3, PointRefIs, SizesTyped DEF LiveIn
    <3>2. livePoints(u, c) = {}
      BY <2>1, <3>1 DEF livePoints
    <3> QED
      BY <1>3, <2>1, <3>2, FS_EmptySet
  <2>2. CASE c # b
    <3>1. \A r \in PointRef : blockOf(r) = c => (LiveIn(u, r) <=> LiveIn(s, r))
      BY <1>3, <2>2 DEF LiveIn
    <3>2. livePoints(u, c) = livePoints(s, c)
      BY <3>1 DEF livePoints
    <3>3. s.blocks[c].live = Cardinality(livePoints(s, c))
      BY <2>2 DEF LiveOk, PointsOk
    <3> QED
      BY <1>3, <2>2, <3>2, <3>3
  <2> QED
    BY <2>1, <2>2
<1>5. Times(u, till.clock)
  <2>1. /\ Times(s, till.clock) /\ DWELL_MAX - 1 \in Nat /\ Blank.time = 0 /\ Blank.dur = 0
        /\ till.clock \in Nat
    BY StoreSizes DEF PointsOk, Blank, Limits
  <2> QED
    BY <1>3, <2>1 DEF Times
<1>7. EndsBy(u, till)
  <2> SUFFICES ASSUME NEW c \in Ship, s.anchors[c].tail \in PointRef
               PROVE  u.pts[s.anchors[c].tail] = s.pts[s.anchors[c].tail]
    BY <1>1 DEF EndsBy, PointsOk, Emptied
  <2> DEFINE tl == s.anchors[c].tail
  <2>1. PICK Q, rq : LinkedTracks(s, Q, rq, X)
    BY DEF PointsOk, TracksOk
  <2>2. tl \in Q[c]
    BY <2>1, TrackEnds
  <2>3. LiveIn(s, tl) /\ tl \notin X
    BY <2>1, <2>2 DEF LinkedTracks
  <2> QED
    BY <1>3, <2>3
<1>6. PointsOk(u, {y \in X : blockOf(y) # b}, E \ {b}, till)
  BY <1>2, <1>4, <1>5, <1>7 DEF PointsOk
<1> QED
  BY <1>1, <1>6 DEF u


-----------------------------------------------------------------------------
(* Steps repeated: for the slots of a block, or for the head of a track.   *)

repeatedStep(do, s, b, k) == IF do = "drop" THEN dropPoint(s, Ref(b, k))
                     ELSE IF do = "compact" THEN compactPoint(s, Ref(b, k))
                     ELSE dropHead(s, b)

Repeats(f, do, s, b, n) ==
  f = [k \in 0 .. n |-> IF k = 0 THEN s ELSE repeatedStep(do, f[k - 1], b, k - 1)]

LEMMA RepeatsExists ==
  ASSUME NEW do, NEW s, NEW b, NEW n \in Nat
  PROVE  \E f : Repeats(f, do, s, b, n)
<1> DEFINE Can == {m \in Nat : \E f : Repeats(f, do, s, b, m)}
<1>1. 0 \in Can
  <2> DEFINE f == [k \in 0 .. 0 |-> s]
  <2>1. \A k \in 0 .. 0 : s = IF k = 0 THEN s ELSE repeatedStep(do, f[k - 1], b, k - 1)
    OBVIOUS
  <2>2. Repeats(f, do, s, b, 0)
    BY <2>1 DEF Repeats
  <2> QED
    BY <2>2
<1>2. ASSUME NEW m \in Nat, m \in Can
      PROVE  m + 1 \in Can
  <2>1. PICK f : Repeats(f, do, s, b, m)
    BY <1>2
  <2> DEFINE row(g, k) == IF k = 0 THEN s ELSE repeatedStep(do, g[k - 1], b, k - 1)
             new == row(f, m + 1)
             g == [k \in 0 .. m + 1 |-> IF k = m + 1 THEN new ELSE f[k]]
  <2>2. f = [k \in 0 .. m |-> row(f, k)]
    BY <2>1 DEF Repeats
  <2>3. \A k \in 0 .. m : f[k] = row(f, k)
    <3> HIDE DEF row
    <3> QED
      BY <2>2
  <2>4. \A k \in 0 .. m : g[k] = f[k]
    OBVIOUS
  <2>5. g[m + 1] = new
    OBVIOUS
  <2> HIDE DEF g, new
  <2>6. ASSUME NEW k \in 0 .. m + 1
        PROVE  g[k] = row(g, k)
    <3>1. CASE k = 0
      <4>1. g[k] = row(f, k)
        BY <2>3, <2>4, <3>1
      <4> QED
        BY <3>1, <4>1
    <3>2. CASE k # 0
      <4>1. k - 1 \in 0 .. m
        BY <3>2
      <4>2. g[k - 1] = f[k - 1]
        BY <2>4, <4>1
      <4>3. row(g, k) = row(f, k)
        BY <4>2
      <4>4. g[k] = row(f, k)
        <5>1. CASE k = m + 1
          BY <2>5, <5>1 DEF new
        <5>2. CASE k # m + 1
          <6>1. k \in 0 .. m
            BY <5>2
          <6> QED
            BY <2>3, <2>4, <6>1
        <5> QED
          BY <5>1, <5>2
      <4> QED
        BY <4>3, <4>4
    <3> QED
      BY <3>1, <3>2
  <2> HIDE DEF row
  <2>7. g = [k \in 0 .. m + 1 |-> row(g, k)]
    <3>1. g = [k \in 0 .. m + 1 |-> g[k]]
      BY DEF g
    <3> QED
      BY <2>6, <3>1
  <2>8. Repeats(g, do, s, b, m + 1)
    BY <2>7 DEF Repeats, row
  <2> QED
    BY <2>8
<1> HIDE DEF Can
<1>3. Nat \subseteq Can
  BY <1>1, <1>2, InductionOnNat
<1> QED
  BY <1>3 DEF Can

(* The steps one by one, f[k] what k of them lead to.                      *)
StepByStep(f, do, s, b, n) ==
  /\ f[0] = s
  /\ \A k \in 0 .. (n - 1) : f[k + 1] = repeatedStep(do, f[k], b, k)

LEMMA RepeatedSteps ==
  ASSUME NEW do, NEW s, NEW b, NEW n \in Nat, NEW f, Repeats(f, do, s, b, n)
  PROVE  StepByStep(f, do, s, b, n)
<1> DEFINE row(k) == IF k = 0 THEN s ELSE repeatedStep(do, f[k - 1], b, k - 1)
<1>1. f = [k \in 0 .. n |-> row(k)]
  BY DEF Repeats
<1> HIDE DEF row
<1>2. \A k \in 0 .. n : f[k] = row(k)
  BY <1>1
<1>3. f[0] = s
  BY <1>2 DEF row
<1>4. ASSUME NEW k \in 0 .. (n - 1)
      PROVE  f[k + 1] = repeatedStep(do, f[k], b, k)
  <2>1. k + 1 \in 0 .. n /\ k + 1 # 0 /\ (k + 1) - 1 = k
    OBVIOUS
  <2>2. f[k + 1] = row(k + 1)
    BY <1>2, <2>1
  <2> QED
    BY <2>1, <2>2 DEF row
<1> QED
  BY <1>3, <1>4 DEF StepByStep

LEMMA EachSlotDropped ==
  ASSUME NEW s \in Shape, NEW b \in Block
  PROVE  \E f : /\ StepByStep(f, "drop", s, b, s.blocks[b].count)
                /\ EachSlot(dropPoint, s, b) = f[s.blocks[b].count]
<1> DEFINE n == s.blocks[b].count
           f == CHOOSE g : Repeats(g, "drop", s, b, n)
<1>1. n \in Nat
  BY ShapeFields, SizesTyped DEF BlockShape
<1>2. Repeats(f, "drop", s, b, n)
  BY <1>1, RepeatsExists
<1>3. EachSlot(dropPoint, s, b) = f[n]
  BY DEF EachSlot, Repeats, repeatedStep
<1>4. StepByStep(f, "drop", s, b, n)
  BY <1>1, <1>2, RepeatedSteps
<1> QED
  BY <1>3, <1>4

LEMMA EachSlotCompacted ==
  ASSUME NEW s \in Shape, NEW b \in Block
  PROVE  \E f : /\ StepByStep(f, "compact", s, b, s.blocks[b].count)
                /\ EachSlot(compactPoint, s, b) = f[s.blocks[b].count]
<1> DEFINE n == s.blocks[b].count
           f == CHOOSE g : Repeats(g, "compact", s, b, n)
<1>1. n \in Nat
  BY ShapeFields, SizesTyped DEF BlockShape
<1>2. Repeats(f, "compact", s, b, n)
  BY <1>1, RepeatsExists
<1>3. EachSlot(compactPoint, s, b) = f[n]
  BY DEF EachSlot, Repeats, repeatedStep
<1>4. StepByStep(f, "compact", s, b, n)
  BY <1>1, <1>2, RepeatedSteps
<1> QED
  BY <1>3, <1>4

LEMMA WipedByHead ==
  ASSUME NEW s, NEW a
  PROVE  \E f : StepByStep(f, "wipe", s, a, SHIP_BIT) /\ Wiped(s, a) = f[SHIP_BIT]
<1> DEFINE f == CHOOSE g : Repeats(g, "wipe", s, a, SHIP_BIT)
<1>1. SHIP_BIT \in Nat
  BY SizesTyped
<1>2. Repeats(f, "wipe", s, a, SHIP_BIT)
  BY <1>1, RepeatsExists
<1>3. Wiped(s, a) = f[SHIP_BIT]
  BY DEF Wiped, Repeats, repeatedStep
<1>4. StepByStep(f, "wipe", s, a, SHIP_BIT)
  BY <1>1, <1>2, RepeatedSteps
<1> QED
  BY <1>3, <1>4


-----------------------------------------------------------------------------
(* A block overwritten or compacted: its points go, then it leaves its     *)
(* tier, empty.                                                            *)

SameCounts(s, u) == \A c \in Block : u.blocks[c].count = s.blocks[c].count

(* Outside the blocks of D nothing is lost and nothing is written.         *)
SameElsewhere(s, u, D) ==
  /\ \A c \in Block \ D : u.blocks[c].count = s.blocks[c].count
  /\ \A r \in PointRef : blockOf(r) \notin D => (LiveIn(u, r) <=> LiveIn(s, r))

LEMMA SamePointsElsewhere ==
  ASSUME NEW s, NEW u, SamePoints(s, u), NEW D
  PROVE  SameElsewhere(s, u, D)
<1>1. \A r \in PointRef : LiveIn(u, r) <=> LiveIn(s, r)
  BY PointRefIs DEF LiveIn, SamePoints
<1> QED
  BY <1>1 DEF SameElsewhere, SamePoints

LEMMA TierBlockEmptied ==
  ASSUME NEW s \in Shape, NEW B, TiersOk(s, B, {}, -1), NEW t \in Tier, NEW b \in B[t], b \in Block,
         NEW X, NEW E, NEW till \in Limits, PointsOk(s, X, E, till),
         \A r \in PointRef : blockOf(r) = b /\ LiveIn(s, r) => r \in X
  PROVE  LET u == emptied(detachBlock(s, t, b), b) IN
         /\ u \in Shape /\ SameElsewhere(s, u, {b}) /\ u.blocks[b].count = 0
         /\ TiersOk(u, [B EXCEPT ![t] = B[t] \ {b}], {b}, b)
         /\ PointsOk(u, {y \in X : blockOf(y) # b}, E \ {b}, till)
<1> DEFINE d == detachBlock(s, t, b)
           u == emptied(d, b)
           A == [B EXCEPT ![t] = B[t] \ {b}]
           Y == {y \in X : blockOf(y) # b}
<1>1. PICK rb : LinkedTiers(s, B, rb, {})
  BY DEF TiersOk
<1>2. Detached(s, d, t, b)
  BY DetachIs
<1> HIDE DEF d
<1>3. SamePoints(s, d) /\ d \in Shape
  BY <1>2 DEF Detached, SamePoints
<1>4. LinkedTiers(d, A, rb, {b})
  BY <1>1, <1>2, LinkedTiersDetached
<1>5. PointsOk(d, X, E, till)
  BY <1>3, PointsCarry
<1>6. \A r \in PointRef : LiveIn(d, r) <=> LiveIn(s, r)
  BY <1>3, PointRefIs DEF LiveIn, SamePoints
<1>7. Emptied(d, u, b) /\ PointsOk(u, Y, E \ {b}, till)
  BY <1>3, <1>5, <1>6, PointsEmptied
<1> HIDE DEF u
<1>8. /\ u \in Shape /\ SameLinks(d, u)
      /\ \A c \in Block : u.blocks[c].count = IF c = b THEN 0 ELSE s.blocks[c].count
      /\ \A y \in PointRef : blockOf(y) # b => u.pts[y] = d.pts[y]
  BY <1>3, <1>7 DEF Emptied, SamePoints
<1>9. LinkedTiers(u, A, rb, {b})
  BY <1>4, <1>8, LinkedTiersCarry
<1>10. Filled(u, A, b)
  <2>1. B \in [Tier -> SUBSET Block] /\ "RT" \in Tier /\ "HIST" \in Tier
    BY <1>1 DEF LinkedTiers, Tier
  <2>2. \A c \in Block : s.blocks[c].count > 0 <=> c \in B["RT"] \/ c \in B["HIST"]
    BY SizesTyped DEF TiersOk, Filled, Block
  <2>3. \A v \in Tier : \A c \in Block \ {b} : c \in A[v] <=> c \in B[v]
    BY <2>1
  <2> QED
    BY <1>8, <2>1, <2>2, <2>3 DEF Filled
<1>11. TiersOk(u, A, {b}, b)
  BY <1>9, <1>10 DEF TiersOk
<1>12. SameElsewhere(s, u, {b})
  <2>1. ASSUME NEW r \in PointRef, blockOf(r) # b
        PROVE  LiveIn(u, r) <=> LiveIn(s, r)
    <3>1. u.pts[r] = d.pts[r] /\ d.pts[r] = s.pts[r] /\ blockOf(r) \in Block
      BY <1>3, <1>8, <2>1, PointRefIs DEF SamePoints
    <3> QED
      BY <1>8, <2>1, <3>1 DEF LiveIn
  <2> QED
    BY <1>8, <2>1 DEF SameElsewhere
<1>13. u.blocks[b].count = 0
  BY <1>8
<1> QED
  BY <1>7, <1>8, <1>11, <1>12, <1>13 DEF d, u

(* What k steps of evictBlock() leave.                                     *)
DroppedTo(s, u, d, k, X, E, till) ==
  /\ u \in Shape /\ SameLinks(s, u) /\ SameCounts(s, u) /\ PointsOk(u, X, E, till)
  /\ \A r \in PointRef : LiveIn(u, r) <=> LiveIn(s, r) /\ ~(blockOf(r) = d /\ slotOf(r) < k)

LEMMA DropStep ==
  ASSUME NEW s \in Shape, NEW d \in Block, NEW X, \A r \in X : blockOf(r) # d,
         NEW E, NEW till \in Limits, NEW k \in Nat, k < s.blocks[d].count,
         NEW u, DroppedTo(s, u, d, k, X, E, till)
  PROVE  DroppedTo(s, dropPoint(u, Ref(d, k)), d, k + 1, X, E, till)
<1> DEFINE r == Ref(d, k)
           w == dropPoint(u, r)
<1>1. u \in Shape /\ SameLinks(s, u) /\ SameCounts(s, u) /\ PointsOk(u, X, E, till)
  BY DEF DroppedTo
<1>2. k < BLOCK_SIZE /\ k < u.blocks[d].count
  BY <1>1, ShapeFields, SizesTyped DEF SameCounts, BlockShape
<1>3. r \in PointRef /\ blockOf(r) = d /\ slotOf(r) = k
  BY <1>2, RefIs, SizesTyped
<1> HIDE DEF r
<1>4. r \notin X
  BY <1>3
<1>5. \A y \in PointRef \ {r} : ~(blockOf(y) = d /\ slotOf(y) < k) <=> ~(blockOf(y) = d /\ slotOf(y) < k + 1)
  BY PointRefIs, SizesTyped DEF r
<1>10. \A y \in PointRef : LiveIn(u, y) <=> LiveIn(s, y) /\ ~(blockOf(y) = d /\ slotOf(y) < k)
  BY DEF DroppedTo
<1>6. /\ w \in Shape /\ SameLinks(u, w) /\ SameCounts(u, w) /\ PointsOk(w, X, E, till)
      /\ ~LiveIn(w, r) /\ \A y \in PointRef \ {r} : LiveIn(w, y) <=> LiveIn(u, y)
  <2>1. CASE u.pts[r].prev = NIL
    <3>1. w = u /\ ~LiveIn(u, r)
      BY <2>1 DEF dropPoint, LiveIn
    <3>2. SameLinks(u, u) /\ SameCounts(u, u)
      BY DEF SameLinks, SameCounts
    <3> QED
      BY <1>1, <3>1, <3>2
  <2>2. CASE u.pts[r].prev # NIL
    <3>1. w = unlink(u, r)
      BY <2>2 DEF dropPoint
    <3>2. LiveIn(u, r)
      BY <1>2, <1>3, <2>2 DEF LiveIn
    <3>3. /\ Unlinked(u, w, r) /\ ~LiveIn(w, r)
          /\ \A y \in PointRef \ {r} : LiveIn(w, y) <=> LiveIn(u, y)
          /\ PointsOk(w, X, E, till)
      BY <1>1, <1>3, <1>4, <3>1, <3>2, PointsUnlinked
    <3> HIDE DEF w
    <3>4. w \in Shape /\ SameLinks(u, w) /\ SameCounts(u, w)
      BY <3>3 DEF Unlinked, SameCounts
    <3> QED
      BY <3>3, <3>4
  <2> QED
    BY <2>1, <2>2
<1> HIDE DEF w
<1>7. SameLinks(s, w) /\ SameCounts(s, w)
  BY <1>1, <1>6 DEF SameLinks, SameCounts
<1>8. \A y \in PointRef : LiveIn(w, y) <=> LiveIn(s, y) /\ ~(blockOf(y) = d /\ slotOf(y) < k + 1)
  <2> SUFFICES ASSUME NEW y \in PointRef
               PROVE  LiveIn(w, y) <=> LiveIn(s, y) /\ ~(blockOf(y) = d /\ slotOf(y) < k + 1)
    OBVIOUS
  <2>1. CASE y = r
    BY <1>3, <1>6, <2>1
  <2>2. CASE y # r
    BY <1>5, <1>6, <1>10, <2>2
  <2> QED
    BY <2>1, <2>2
<1>9. DroppedTo(s, w, d, k + 1, X, E, till)
  BY <1>6, <1>7, <1>8 DEF DroppedTo
<1> QED
  BY <1>9 DEF w, r

LEMMA SlotsDropped ==
  ASSUME NEW s \in Shape, NEW d \in Block, NEW X, \A r \in X : blockOf(r) # d,
         NEW E, NEW till \in Limits, PointsOk(s, X, E, till)
  PROVE  DroppedTo(s, EachSlot(dropPoint, s, d), d, s.blocks[d].count, X, E, till)
<1> DEFINE n == s.blocks[d].count
<1>1. n \in Nat
  BY ShapeFields, SizesTyped DEF BlockShape
<1>2. PICK f : StepByStep(f, "drop", s, d, n) /\ EachSlot(dropPoint, s, d) = f[n]
  BY EachSlotDropped
<1> DEFINE S == {k \in Nat : k =< n => DroppedTo(s, f[k], d, k, X, E, till)}
<1>3. 0 \in S
  <2>1. f[0] = s
    BY <1>2 DEF StepByStep
  <2>2. \A r \in PointRef : ~(slotOf(r) < 0)
    BY PointRefIs, SizesTyped
  <2>3. SameLinks(s, s) /\ SameCounts(s, s)
    BY DEF SameLinks, SameCounts
  <2>4. DroppedTo(s, s, d, 0, X, E, till)
    BY <2>2, <2>3 DEF DroppedTo
  <2> QED
    BY <2>1, <2>4
<1>4. ASSUME NEW k \in Nat, k \in S
      PROVE  k + 1 \in S
  <2> SUFFICES ASSUME k + 1 =< n
               PROVE  DroppedTo(s, f[k + 1], d, k + 1, X, E, till)
    OBVIOUS
  <2>1. k < n /\ k \in 0 .. (n - 1)
    BY <1>1
  <2>2. DroppedTo(s, f[k], d, k, X, E, till)
    BY <1>1, <1>4, <2>1
  <2>3. f[k + 1] = dropPoint(f[k], Ref(d, k))
    BY <1>2, <2>1 DEF StepByStep, repeatedStep
  <2> QED
    BY <2>1, <2>2, <2>3, DropStep
<1> HIDE DEF S
<1>5. n \in S
  BY <1>1, <1>3, <1>4, InductionOnNat
<1> QED
  BY <1>1, <1>2, <1>5 DEF S

LEMMA Evicted ==
  ASSUME NEW s \in Shape, NEW B, TiersOk(s, B, {}, -1), NEW d \in B["HIST"],
         NEW X, \A r \in X : blockOf(r) # d,
         NEW E, NEW till \in Limits, PointsOk(s, X, E, till)
  PROVE  LET u == evictBlock(s, d) IN
         /\ u \in Shape /\ SameElsewhere(s, u, {d}) /\ u.blocks[d].count = 0
         /\ TiersOk(u, [B EXCEPT !["HIST"] = B["HIST"] \ {d}], {d}, d)
         /\ PointsOk(u, X, E, till)
<1> DEFINE w == EachSlot(dropPoint, s, d)
           u == emptied(detachBlock(w, "HIST", d), d)
           n == s.blocks[d].count
<1>0. d \in Block /\ "HIST" \in Tier
  BY TierEnds DEF Tier
<1>1. DroppedTo(s, w, d, n, X, E, till)
  BY <1>0, SlotsDropped
<1>2. evictBlock(s, d) = u
  BY DEF evictBlock
<1> HIDE DEF w
<1>3. w \in Shape /\ SameLinks(s, w) /\ SameCounts(s, w) /\ PointsOk(w, X, E, till)
  BY <1>1 DEF DroppedTo
<1>4. \A r \in PointRef : LiveIn(w, r) <=> LiveIn(s, r) /\ ~(blockOf(r) = d /\ slotOf(r) < n)
  BY <1>1 DEF DroppedTo
<1>5. \A r \in PointRef : blockOf(r) = d => ~LiveIn(w, r)
  BY <1>4 DEF LiveIn
<1>6. TiersOk(w, B, {}, -1)
  BY <1>3, TiersCarry DEF SameCounts
<1>7. /\ u \in Shape /\ SameElsewhere(w, u, {d}) /\ u.blocks[d].count = 0
      /\ TiersOk(u, [B EXCEPT !["HIST"] = B["HIST"] \ {d}], {d}, d)
      /\ PointsOk(u, {y \in X : blockOf(y) # d}, E \ {d}, till)
  BY <1>0, <1>3, <1>5, <1>6, TierBlockEmptied
<1> HIDE DEF u
<1>8. {y \in X : blockOf(y) # d} = X
  OBVIOUS
<1>9. PointsOk(u, X, E, till)
  <2>1. E \ {d} \subseteq E
    OBVIOUS
  <2>2. PointsOk(u, X, E \ {d}, till) /\ u \in Shape
    BY <1>7, <1>8
  <2> QED
    BY <2>1, <2>2, PointsWeaker
<1>10. SameElsewhere(s, u, {d})
  <2>1. \A r \in PointRef : blockOf(r) \notin {d} => (LiveIn(w, r) <=> LiveIn(s, r))
    BY <1>4
  <2> QED
    BY <1>3, <1>7, <2>1 DEF SameElsewhere, SameCounts
<1> QED
  BY <1>2, <1>7, <1>9, <1>10


-----------------------------------------------------------------------------
(* Where a block to write to comes from.                                   *)

LEMMA ElsewhereTwice ==
  ASSUME NEW s, NEW u, NEW w, NEW C, NEW D, NEW F, SameElsewhere(s, u, C), SameElsewhere(u, w, D),
         C \subseteq F, D \subseteq F
  PROVE  SameElsewhere(s, w, F)
BY DEF SameElsewhere

(* g has an empty block: in no tier, or in one since just now.             *)
Fresh(g, C, G, X, E, till) ==
  /\ g.store \in Shape /\ g.block \in Block /\ g.store.blocks[g.block].count = 0
  /\ TiersOk(g.store, C, G, g.block) /\ PointsOk(g.store, X, E, till)

LEMMA GotIs ==
  ASSUME NEW s, NEW b
  PROVE  Got(s, b).store = s /\ Got(s, b).block = b
BY DEF Got

LEMMA PopIs ==
  ASSUME NEW s \in Shape, NEW B, TiersOk(s, B, {}, -1),
         NEW X, NEW E, NEW till \in Limits, PointsOk(s, X, E, till)
  PROVE  LET g == popFreeBlock(s) IN
         \/ g.block = -1 /\ g.store = s
         \/ /\ g.block \in Block /\ SameElsewhere(s, g.store, {})
            /\ \E C : /\ C["RT"] = B["RT"] /\ C["HIST"] = B["HIST"]
                      /\ Fresh(g, C, {g.block}, X, E, till)
<1> DEFINE g == popFreeBlock(s)
           b == s.lists["FREE"].head
<1>1. /\ "FREE" \in Tier /\ "RT" \in Tier /\ "HIST" \in Tier
      /\ B \in [Tier -> SUBSET Block] /\ b \in B["FREE"] \cup {-1} /\ \A c \in Block : c # -1
  BY TierEnds, SizesTyped DEF Tier, Block
<1>2. PICK rb : LinkedTiers(s, B, rb, {})
  BY DEF TiersOk
<1>3. /\ \A v \in Tier, w \in Tier : v # w => B[v] \cap B[w] = {}
      /\ \A c \in Block : c < s.size <=> \E v \in Tier : c \in B[v]
      /\ \A c \in Block : s.blocks[c].count > 0 <=> c \in B["RT"] \/ c \in B["HIST"]
  BY <1>1, <1>2 DEF LinkedTiers, TiersOk, Filled
<1>4. \A c \in Block : s.blocks[c].count \in Nat
  BY ShapeFields, SizesTyped DEF BlockShape
<1>5. CASE b # -1
  <2> DEFINE d == detachBlock(s, "FREE", b)
             A == [B EXCEPT !["FREE"] = B["FREE"] \ {b}]
  <2>1. b \in B["FREE"] /\ b \in Block
    BY <1>1, <1>5
  <2>2. g = Got(d, b)
    BY <1>5 DEF popFreeBlock
  <2>3. Detached(s, d, "FREE", b)
    BY <1>1, <2>1, DetachIs
  <2> HIDE DEF d, b
  <2>4. LinkedTiers(d, A, rb, {b})
    BY <1>1, <1>2, <2>1, <2>3, LinkedTiersDetached
  <2>5. SamePoints(s, d) /\ d \in Shape
    BY <2>3 DEF Detached, SamePoints
  <2>6. s.blocks[b].count = 0
    BY <1>1, <1>3, <1>4, <2>1
  <2>7. A["RT"] = B["RT"] /\ A["HIST"] = B["HIST"]
    BY <1>1
  <2>8. Filled(d, A, b)
    BY <1>3, <2>1, <2>5, <2>6, <2>7 DEF Filled, SamePoints
  <2>9. TiersOk(d, A, {b}, b)
    BY <2>4, <2>8 DEF TiersOk
  <2>10. PointsOk(d, X, E, till) /\ SameElsewhere(s, d, {})
    BY <2>5, PointsCarry, SamePointsElsewhere
  <2>11. d.blocks[b].count = 0
    BY <2>1, <2>5, <2>6 DEF SamePoints
  <2>12. g.store = d /\ g.block = b
    BY <2>2, GotIs
  <2> HIDE DEF A, g
  <2>13. Fresh(g, A, {g.block}, X, E, till)
    BY <2>1, <2>5, <2>9, <2>10, <2>11, <2>12 DEF Fresh
  <2> QED
    BY <2>1, <2>7, <2>10, <2>12, <2>13 DEF g
<1>6. CASE b = -1 /\ s.size < block_cap
  <2> DEFINE d == [s EXCEPT !.size = s.size + 1]
             n == s.size
  <2>1. g = Got(d, n)
    BY <1>6 DEF popFreeBlock
  <2>2. n \in 0 .. block_cap /\ n + 1 \in 0 .. block_cap
    BY <1>6, ShapeFields, SizesTyped
  <2>3. /\ d \in Shape /\ d.size = n + 1 /\ d.pts = s.pts /\ d.blocks = s.blocks
        /\ d.anchors = s.anchors /\ d.lists = s.lists
    BY <2>2, WithSize
  <2> HIDE DEF d
  <2>4. n \in Block
    BY <1>6, <2>2, SizesTyped DEF Block
  <2>5. nextBlock(d) = nextBlock(s) /\ prevBlock(d) = prevBlock(s)
    BY <2>3 DEF nextBlock, prevBlock
  <2>6. \A t \in Tier : n \notin B[t]
    BY <1>3, <2>2, <2>4
  <2>7. \A c \in Block : c < d.size <=> c \in {n} \/ \E t \in Tier : c \in B[t]
    <3>1. \A c \in Block : c < n + 1 <=> c < n \/ c = n
      BY <2>2 DEF Block
    <3> QED
      BY <1>3, <2>3, <3>1
  <2>8. LinkedTiers(d, B, rb, {n})
    BY <1>2, <2>3, <2>5, <2>6, <2>7 DEF LinkedTiers
  <2>9. s.blocks[n].count = 0
    BY <1>1, <1>3, <1>4, <2>4, <2>6
  <2>10. Filled(d, B, n)
    BY <1>1, <1>3, <2>3, <2>6 DEF Filled
  <2>11. TiersOk(d, B, {n}, n)
    BY <2>8, <2>10 DEF TiersOk
  <2>12. SamePoints(s, d)
    BY <2>3 DEF SamePoints
  <2>13. PointsOk(d, X, E, till) /\ SameElsewhere(s, d, {})
    BY <2>12, PointsCarry, SamePointsElsewhere
  <2>14. g.store = d /\ g.block = n
    BY <2>1, GotIs
  <2> HIDE DEF g, n
  <2>15. Fresh(g, B, {g.block}, X, E, till)
    BY <2>3, <2>4, <2>9, <2>11, <2>13, <2>14 DEF Fresh
  <2> QED
    BY <2>4, <2>13, <2>14, <2>15 DEF g
<1>7. CASE b = -1 /\ ~(s.size < block_cap)
  <2>1. g = Got(s, -1)
    BY <1>7 DEF popFreeBlock
  <2> QED
    BY <2>1, GotIs
<1> QED
  BY <1>5, <1>6, <1>7

(* An empty block of no tier becomes the first of a tier in use.           *)
LEMMA FreshPushed ==
  ASSUME NEW g, NEW C, NEW X, NEW E, NEW till \in Limits, Fresh(g, C, {g.block}, X, E, till),
         NEW t \in {"RT", "HIST"}
  PROVE  LET u == Got(pushBlockHead(g.store, t, g.block), g.block) IN
         /\ u.block = g.block /\ SameElsewhere(g.store, u.store, {})
         /\ Fresh(u, [C EXCEPT ![t] = C[t] \cup {g.block}], {}, X, E, till)
<1> DEFINE b == g.block
           s == g.store
           w == pushBlockHead(s, t, b)
           u == Got(w, b)
           A == [C EXCEPT ![t] = C[t] \cup {b}]
<1>1. /\ s \in Shape /\ b \in Block /\ s.blocks[b].count = 0
      /\ TiersOk(s, C, {b}, b) /\ PointsOk(s, X, E, till)
  BY DEF Fresh
<1>2. t \in Tier /\ t # "FREE"
  BY DEF Tier
<1>3. s.lists[t].head # b
  <2>1. s.lists[t].head \in C[t] \cup {-1}
    BY <1>1, <1>2, TierEnds
  <2>2. b \notin C[t] /\ b # -1
    BY <1>1, <1>2, SizesTyped DEF TiersOk, LinkedTiers, Block
  <2> QED
    BY <2>1, <2>2
<1>4. Pushed(s, w, t, b)
  BY <1>1, <1>2, <1>3, PushIs
<1>5. u.store = w /\ u.block = b
  BY GotIs
<1> HIDE DEF b, s, w, u
<1>6. TiersOk(w, A, {}, IF t = "FREE" THEN -1 ELSE b)
  BY <1>1, <1>2, <1>4, TiersPushed
<1>7. SamePoints(s, w) /\ w \in Shape
  BY <1>4 DEF Pushed, SamePoints
<1>8. PointsOk(w, X, E, till) /\ SameElsewhere(s, w, {})
  BY <1>1, <1>7, PointsCarry, SamePointsElsewhere
<1>9. w.blocks[b].count = 0
  BY <1>1, <1>7 DEF SamePoints
<1>10. Fresh(u, A, {}, X, E, till)
  BY <1>1, <1>2, <1>5, <1>6, <1>7, <1>8, <1>9 DEF Fresh
<1> QED
  BY <1>5, <1>8, <1>10 DEF b, s, w, u


(* A block of history with room for a point, or none; R are the recent     *)
(* blocks.                                                                 *)
HistoryGot(s, g, R, X, E, till) ==
  /\ g.store \in Shape /\ PointsOk(g.store, X, E, till)
  /\ SameElsewhere(s, g.store, Block \ R)
  /\ \E C : /\ C["RT"] = R
            /\ g.block = -1 => TiersOk(g.store, C, {}, -1)
            /\ g.block # -1 => /\ g.block \in C["HIST"] /\ g.block \in Block
                               /\ g.store.blocks[g.block].count < BLOCK_SIZE
                               /\ \/ TiersOk(g.store, C, {}, -1)
                                  \/ TiersOk(g.store, C, {}, g.block)

LEMMA FreshIsHistory ==
  ASSUME NEW s, NEW g, NEW C, NEW R, C["RT"] = R, C \in [Tier -> SUBSET Block],
         NEW X, NEW E, NEW till \in Limits,
         Fresh(g, C, {g.block}, X, E, till), SameElsewhere(s, g.store, Block \ R)
  PROVE  HistoryGot(s, Got(pushBlockHead(g.store, "HIST", g.block), g.block), R, X, E, till)
<1> DEFINE u == Got(pushBlockHead(g.store, "HIST", g.block), g.block)
           A == [C EXCEPT !["HIST"] = C["HIST"] \cup {g.block}]
<1>1. u.block = g.block /\ SameElsewhere(g.store, u.store, {}) /\ Fresh(u, A, {}, X, E, till)
  BY FreshPushed
<1> HIDE DEF u
<1>2. A["RT"] = R /\ u.block \in A["HIST"]
  BY <1>1 DEF Tier
<1>3. /\ u.store \in Shape /\ u.block \in Block /\ u.store.blocks[u.block].count = 0
      /\ TiersOk(u.store, A, {}, u.block) /\ PointsOk(u.store, X, E, till)
  BY <1>1 DEF Fresh
<1>4. u.block # -1 /\ u.store.blocks[u.block].count < BLOCK_SIZE
  BY <1>3, SizesTyped DEF Block
<1>5. SameElsewhere(s, u.store, Block \ R)
  BY <1>1, ElsewhereTwice
<1> HIDE DEF A
<1>6. HistoryGot(s, u, R, X, E, till)
  BY <1>2, <1>3, <1>4, <1>5 DEF HistoryGot
<1> QED
  BY <1>6 DEF u

LEMMA HistoryBlockIs ==
  ASSUME NEW s \in Shape, NEW B, TiersOk(s, B, {}, -1),
         NEW X, \A r \in X : blockOf(r) \in B["RT"],
         NEW E, NEW till \in Limits, PointsOk(s, X, E, till)
  PROVE  HistoryGot(s, HistoryBlock(s), B["RT"], X, E, till)
<1> DEFINE h == s.lists["HIST"].head
           last == s.lists["HIST"].tail
           free == popFreeBlock(s)
           g == HistoryBlock(s)
           R == B["RT"]
           HistoryOf(d) == HistoryGot(s, d, R, X, E, till)
<1>0. SameElsewhere(s, s, Block \ R)
  BY DEF SameElsewhere
<1>1. /\ "RT" \in Tier /\ "HIST" \in Tier /\ B \in [Tier -> SUBSET Block] /\ \A c \in Block : c # -1
      /\ h \in B["HIST"] \cup {-1} /\ last \in B["HIST"] \cup {-1}
  BY TierEnds, SizesTyped DEF Tier, Block
<1>2. \A c \in B["HIST"] : c \in Block /\ c \notin R
  BY <1>1 DEF TiersOk, LinkedTiers
<1> SUFFICES HistoryOf(g)
  OBVIOUS
<1>3. CASE h # -1 /\ s.blocks[h].count < BLOCK_SIZE
  <2>1. g = Got(s, h)
    BY <1>3 DEF HistoryBlock
  <2>2. g.store = s /\ g.block = h
    BY <2>1, GotIs
  <2>3. h \in B["HIST"] /\ h \in Block
    BY <1>1, <1>2, <1>3
  <2> HIDE DEF g, h
  <2> QED
    BY <1>0, <1>3, <2>2, <2>3 DEF HistoryGot
<1>4. CASE ~(h # -1 /\ s.blocks[h].count < BLOCK_SIZE)
  <2>1. g = OpenHistory(s, free, last)
    BY <1>4 DEF HistoryBlock
  <2>2. \/ free.block = -1 /\ free.store = s
        \/ /\ free.block \in Block /\ SameElsewhere(s, free.store, {})
           /\ \E C : /\ C["RT"] = B["RT"] /\ C["HIST"] = B["HIST"]
                     /\ Fresh(free, C, {free.block}, X, E, till)
    BY PopIs
  <2> HIDE DEF free, h, last
  <2>3. CASE free.block # -1
    <3>1. g = Got(pushBlockHead(free.store, "HIST", free.block), free.block)
      BY <2>1, <2>3 DEF OpenHistory
    <3>2. PICK C : C["RT"] = R /\ Fresh(free, C, {free.block}, X, E, till)
      BY <2>2, <2>3
    <3>3. SameElsewhere(s, free.store, Block \ R)
      BY <1>0, <2>2, <2>3, ElsewhereTwice
    <3>4. C \in [Tier -> SUBSET Block]
      BY <3>2 DEF Fresh, TiersOk, LinkedTiers
    <3> HIDE DEF g, R
    <3> QED
      BY <3>1, <3>2, <3>3, <3>4, FreshIsHistory
  <2>4. CASE free.block = -1 /\ last # -1
    <3> DEFINE w == evictBlock(s, last)
               d == Got(w, last)
               C == [B EXCEPT !["HIST"] = B["HIST"] \ {last}]
    <3>1. g = Got(pushBlockHead(w, "HIST", last), last)
      BY <2>1, <2>4 DEF OpenHistory
    <3>2. last \in B["HIST"] /\ last \in Block /\ last \notin R
      BY <1>1, <1>2, <2>4
    <3>3. \A r \in X : blockOf(r) # last
      BY <3>2
    <3>4. /\ w \in Shape /\ SameElsewhere(s, w, {last}) /\ w.blocks[last].count = 0
          /\ TiersOk(w, C, {last}, last) /\ PointsOk(w, X, E, till)
      BY <3>2, <3>3, Evicted
    <3>5. d.store = w /\ d.block = last
      BY GotIs
    <3>6. C["RT"] = R /\ C \in [Tier -> SUBSET Block]
      BY <1>1
    <3> HIDE DEF d, w, C, g
    <3>7. Fresh(d, C, {d.block}, X, E, till)
      BY <3>2, <3>4, <3>5 DEF Fresh
    <3>8. SameElsewhere(s, d.store, Block \ R)
      BY <1>0, <3>2, <3>4, <3>5, ElsewhereTwice
    <3>9. g = Got(pushBlockHead(d.store, "HIST", d.block), d.block)
      BY <3>1, <3>5
    <3> HIDE DEF R
    <3> QED
      BY <3>6, <3>7, <3>8, <3>9, FreshIsHistory
  <2>5. CASE free.block = -1 /\ last = -1
    <3>1. g = Got(s, -1)
      BY <2>1, <2>5 DEF OpenHistory
    <3>2. g.store = s /\ g.block = -1
      BY <3>1, GotIs
    <3> HIDE DEF g
    <3> QED
      BY <1>0, <3>2 DEF HistoryGot
  <2> QED
    BY <2>3, <2>4, <2>5
<1> QED
  BY <1>3, <1>4


-----------------------------------------------------------------------------
(* Compaction.                                                             *)

(* A point of block b, still live, goes to a block of history.             *)
LEMMA PointsMoved ==
  ASSUME NEW s \in Shape, NEW X, NEW E, NEW till \in Limits, PointsOk(s, X, E, till),
         NEW r \in PointRef, LiveIn(s, r), r \notin X,
         NEW b \in Block, s.blocks[b].count < BLOCK_SIZE, Slot(s, b) \notin X
  PROVE  LET u == linkedIn(s, b, s.pts[r]) IN
         /\ Inserted(s, u, b, s.pts[r]) /\ PointsOk(u, X \cup {r}, E, till)
<1> DEFINE p == s.pts[r]
           u == linkedIn(s, b, p)
<1>1. PICK Q, rq : LinkedTracks(s, Q, rq, X)
  BY DEF TracksOk, PointsOk
<1>2. PICK a \in Ship : r \in Q[a]
  BY <1>1 DEF LinkedTracks
<1>3. /\ p.prev \in AnyRef
      /\ p.next \in PointRef => s.pts[p.next].prev = r
  BY <1>1, <1>2, Neighbours
<1>4. Inserted(s, u, b, p) /\ TracksOk(u, X \cup {r}, till.from)
  BY TracksMoved DEF PointsOk
<1> HIDE DEF u
<1>5. p.next \in PointRef => s.pts[p.next].prev # NIL
  BY <1>3, AnyRefIs
<1>6. p.dur \in 0 .. (DWELL_MAX - 1) /\ p.time + p.dur =< till.clock
  BY DEF PointsOk, Times
<1>8. ASSUME NEW c \in Ship, p.next = Anchor(c)
      PROVE  p.time + p.dur =< till.ends[c]
  <2>1. c = a
    BY <1>1, <1>2, <1>8, Neighbours
  <2>2. nextPoint(s)[r] = Anchor(c)
    BY <1>8 DEF nextPoint
  <2>3. s.anchors[c].tail = r
    BY <1>1, <1>2, <2>1, <2>2 DEF LinkedTracks, Linked
  <2> QED
    BY <2>3 DEF PointsOk, EndsBy, End
<1>7. LiveOk(u, E) /\ Times(u, till.clock) /\ EndsBy(u, till)
  BY <1>3, <1>4, <1>5, <1>6, <1>8, PointsInserted
<1> QED
  BY <1>4, <1>7 DEF u, PointsOk

(* The first k slots of block b.                                           *)
upTo(b, k) == {r \in PointRef : blockOf(r) = b /\ slotOf(r) < k}

LEMMA UpToNext ==
  ASSUME NEW b \in Block, NEW k \in Nat, k < BLOCK_SIZE
  PROVE  /\ upTo(b, k + 1) = upTo(b, k) \cup {Ref(b, k)}
         /\ Ref(b, k) \in PointRef /\ blockOf(Ref(b, k)) = b /\ slotOf(Ref(b, k)) = k
         /\ Ref(b, k) \notin upTo(b, k)
<1>1. Ref(b, k) \in PointRef /\ blockOf(Ref(b, k)) = b /\ slotOf(Ref(b, k)) = k
  BY RefIs, SizesTyped
<1>2. \A r \in PointRef : slotOf(r) \in Nat /\ (blockOf(r) = b /\ slotOf(r) = k => r = Ref(b, k))
  BY PointRefIs, SizesTyped
<1> QED
  BY <1>1, <1>2 DEF upTo

(* What k steps of compactBlock() leave; R are the recent blocks.          *)
CompactedTo(u, b, n, k, R, till) ==
  /\ u \in Shape /\ u.blocks[b].count = n
  /\ PointsOk(u, upTo(b, k), {b}, till)
  /\ \E C : C["RT"] = R /\ TiersOk(u, C, {}, -1)

LEMMA CompactedUnlinked ==
  ASSUME NEW u, NEW b \in Block, NEW n, NEW k \in Nat, k < BLOCK_SIZE, NEW R, NEW till \in Limits,
         CompactedTo(u, b, n, k, R, till), LiveIn(u, Ref(b, k))
  PROVE  CompactedTo(unlink(u, Ref(b, k)), b, n, k + 1, R, till)
<1> DEFINE r == Ref(b, k)
           w == unlink(u, r)
<1>1. /\ upTo(b, k + 1) = upTo(b, k) \cup {r}
      /\ r \in PointRef /\ blockOf(r) = b /\ slotOf(r) = k /\ r \notin upTo(b, k)
  BY UpToNext
<1> HIDE DEF r
<1>2. u \in Shape /\ u.blocks[b].count = n /\ PointsOk(u, upTo(b, k), {b}, till)
  BY DEF CompactedTo
<1>3. PICK C : C["RT"] = R /\ TiersOk(u, C, {}, -1)
  BY DEF CompactedTo
<1>4. Unlinked(u, w, r) /\ ~LiveIn(w, r) /\ PointsOk(w, upTo(b, k), {b}, till)
  BY <1>1, <1>2, PointsUnlinked DEF r
<1> HIDE DEF w
<1>5. w \in Shape /\ SameLinks(u, w) /\ SameCounts(u, w)
  BY <1>4 DEF Unlinked, SameCounts
<1>6. TiersOk(w, C, {}, -1)
  BY <1>3, <1>5, TiersCarry DEF SameCounts
<1>7. PointsOk(w, upTo(b, k + 1), {b}, till)
  BY <1>1, <1>4, PointsDead
<1>8. CompactedTo(w, b, n, k + 1, R, till)
  BY <1>2, <1>3, <1>5, <1>6, <1>7 DEF CompactedTo, SameCounts
<1> QED
  BY <1>8 DEF w, r

LEMMA CompactedMoved ==
  ASSUME NEW u, NEW b \in Block, NEW n, NEW k \in Nat, k < n, n =< BLOCK_SIZE, n \in Nat,
         NEW R, b \in R, NEW till \in Limits,
         CompactedTo(u, b, n, k, R, till), LiveIn(u, Ref(b, k))
  PROVE  CompactedTo(moveToHistory(u, Ref(b, k)), b, n, k + 1, R, till)
<1> DEFINE r == Ref(b, k)
           X == upTo(b, k)
           g == HistoryBlock(u)
           s == g.store
           w == moveToHistory(u, r)
<1>0. k < BLOCK_SIZE
  BY SizesTyped
<1>1. /\ upTo(b, k + 1) = X \cup {r}
      /\ r \in PointRef /\ blockOf(r) = b /\ slotOf(r) = k /\ r \notin X
      /\ \A y \in X : blockOf(y) = b
  BY <1>0, UpToNext DEF upTo
<1>2. u \in Shape /\ u.blocks[b].count = n /\ PointsOk(u, X, {b}, till)
  BY DEF CompactedTo
<1>3. PICK B : B["RT"] = R /\ TiersOk(u, B, {}, -1)
  BY DEF CompactedTo
<1> HIDE DEF X
<1>4. HistoryGot(u, g, R, X, {b}, till)
  BY <1>1, <1>2, <1>3, HistoryBlockIs
<1>5. w = MovedTo(g, r, s.pts[r])
  BY DEF moveToHistory
<1> HIDE DEF g, w, r
<1>6. /\ s \in Shape /\ PointsOk(s, X, {b}, till) /\ SameElsewhere(u, s, Block \ R)
  BY <1>4 DEF HistoryGot
<1>7. PICK C : /\ C["RT"] = R
               /\ g.block = -1 => TiersOk(s, C, {}, -1)
               /\ g.block # -1 => /\ g.block \in C["HIST"] /\ g.block \in Block
                                  /\ s.blocks[g.block].count < BLOCK_SIZE
                                  /\ \/ TiersOk(s, C, {}, -1)
                                     \/ TiersOk(s, C, {}, g.block)
  BY <1>4 DEF HistoryGot
<1>8. s.blocks[b].count = n
  BY <1>2, <1>6 DEF SameElsewhere
<1>9. LiveIn(s, r)
  BY <1>1, <1>6 DEF SameElsewhere, r
<1> HIDE DEF s
<1>10. CASE g.block = -1
  <2>1. w = unlink(s, r)
    BY <1>5, <1>10 DEF MovedTo, s
  <2>2. CompactedTo(s, b, n, k, R, till)
    BY <1>6, <1>7, <1>8, <1>10 DEF CompactedTo, X
  <2> QED
    BY <1>0, <1>9, <2>1, <2>2, CompactedUnlinked DEF r, w
<1>11. CASE g.block # -1
  <2> DEFINE d == g.block
             p == s.pts[r]
  <2>1. w = linkedIn(s, d, p)
    BY <1>5, <1>11 DEF MovedTo, linkedIn, s
  <2>2. PICK e : (e = -1 \/ e = d) /\ TiersOk(s, C, {}, e)
    BY <1>7, <1>11
  <2>3. d \in Block /\ d \in C["HIST"] /\ s.blocks[d].count < BLOCK_SIZE
    BY <1>7, <1>11
  <2>4. d # b
    BY <1>7, <2>2, <2>3 DEF TiersOk, LinkedTiers, Tier
  <2>5. Slot(s, d) \notin X
    BY <1>1, <1>6, <2>3, <2>4, SlotIs
  <2> HIDE DEF d
  <2>6. Inserted(s, w, d, p) /\ PointsOk(w, X \cup {r}, {b}, till)
    BY <1>1, <1>6, <1>9, <2>1, <2>3, <2>5, PointsMoved
  <2>7. /\ w \in Shape /\ SameLinks(s, w)
        /\ \A c \in Block : w.blocks[c].count = IF c = d THEN s.blocks[c].count + 1
                                                         ELSE s.blocks[c].count
    BY <2>6 DEF Inserted
  <2>8. TiersOk(w, C, {}, -1)
    BY <1>6, <2>2, <2>3, <2>7, TiersWritten
  <2>9. w.blocks[b].count = n
    BY <1>8, <2>4, <2>7
  <2>10. CompactedTo(w, b, n, k + 1, R, till)
    BY <1>1, <1>7, <2>6, <2>7, <2>8, <2>9 DEF CompactedTo
  <2> QED
    BY <2>10 DEF w, r
<1> QED
  BY <1>10, <1>11

LEMMA CompactStep ==
  ASSUME NEW u, NEW b \in Block, NEW n, NEW k \in Nat, k < n, n =< BLOCK_SIZE, n \in Nat,
         NEW R, b \in R, NEW till \in Limits, CompactedTo(u, b, n, k, R, till)
  PROVE  CompactedTo(compactPoint(u, Ref(b, k)), b, n, k + 1, R, till)
<1> DEFINE r == Ref(b, k)
           w == compactPoint(u, r)
<1>0. k < BLOCK_SIZE
  BY SizesTyped
<1>1. upTo(b, k + 1) = upTo(b, k) \cup {r} /\ blockOf(r) = b /\ slotOf(r) = k
  BY <1>0, UpToNext
<1>2. u.blocks[b].count = n /\ PointsOk(u, upTo(b, k), {b}, till)
  BY DEF CompactedTo
<1>3. CASE u.pts[r].prev = NIL
  <2>1. w = u /\ ~LiveIn(u, r)
    BY <1>3 DEF compactPoint, LiveIn
  <2>2. PointsOk(u, upTo(b, k + 1), {b}, till)
    BY <1>1, <1>2, <2>1, PointsDead
  <2>3. CompactedTo(u, b, n, k + 1, R, till)
    BY <2>2 DEF CompactedTo
  <2> QED
    BY <2>1, <2>3
<1>4. CASE u.pts[r].prev # NIL
  <2>1. w = IF keeps(u, u.pts[r]) THEN moveToHistory(u, r) ELSE unlink(u, r)
    BY <1>4 DEF compactPoint
  <2>2. LiveIn(u, r)
    BY <1>1, <1>2, <1>4 DEF LiveIn
  <2>3. CompactedTo(moveToHistory(u, r), b, n, k + 1, R, till)
    BY <2>2, CompactedMoved
  <2>4. CompactedTo(unlink(u, r), b, n, k + 1, R, till)
    BY <1>0, <2>2, CompactedUnlinked
  <2> QED
    BY <2>1, <2>3, <2>4
<1> QED
  BY <1>3, <1>4

LEMMA SlotsCompacted ==
  ASSUME NEW s \in Shape, NEW B, TiersOk(s, B, {}, -1), NEW b \in B["RT"],
         NEW till \in Limits, PointsOk(s, {}, {}, till)
  PROVE  LET n == s.blocks[b].count
         IN  CompactedTo(EachSlot(compactPoint, s, b), b, n, n, B["RT"], till)
<1> DEFINE n == s.blocks[b].count
           R == B["RT"]
<1>0. b \in Block /\ R = B["RT"]
  BY TierEnds DEF Tier
<1>1. n \in Nat /\ n =< BLOCK_SIZE
  BY <1>0, ShapeFields, SizesTyped DEF BlockShape
<1>2. PICK f : StepByStep(f, "compact", s, b, n) /\ EachSlot(compactPoint, s, b) = f[n]
  BY <1>0, EachSlotCompacted
<1> DEFINE S == {k \in Nat : k =< n => CompactedTo(f[k], b, n, k, R, till)}
<1>3. 0 \in S
  <2>1. f[0] = s
    BY <1>2 DEF StepByStep
  <2>2. upTo(b, 0) = {}
    BY PointRefIs, SizesTyped DEF upTo
  <2>3. PointsOk(s, upTo(b, 0), {b}, till)
    <3>1. {} \subseteq {b}
      OBVIOUS
    <3> QED
      BY <2>2, <3>1, PointsWeaker
  <2>4. CompactedTo(s, b, n, 0, R, till)
    BY <2>3 DEF CompactedTo
  <2> QED
    BY <2>1, <2>4
<1>4. ASSUME NEW k \in Nat, k \in S
      PROVE  k + 1 \in S
  <2> SUFFICES ASSUME k + 1 =< n
               PROVE  CompactedTo(f[k + 1], b, n, k + 1, R, till)
    OBVIOUS
  <2>1. k < n /\ k \in 0 .. (n - 1)
    BY <1>1
  <2>2. CompactedTo(f[k], b, n, k, R, till)
    BY <1>1, <1>4, <2>1
  <2>3. f[k + 1] = compactPoint(f[k], Ref(b, k))
    BY <1>2, <2>1 DEF StepByStep, repeatedStep
  <2> HIDE DEF n
  <2> QED
    BY <1>0, <1>1, <2>1, <2>2, <2>3, CompactStep
<1> HIDE DEF S
<1>5. n \in S
  BY <1>1, <1>3, <1>4, InductionOnNat
<1> QED
  BY <1>1, <1>2, <1>5 DEF S

(* Between two operations.                                                 *)
Ready(s, till) == s \in Shape /\ (\E B : TiersOk(s, B, {}, -1)) /\ PointsOk(s, {}, {}, till)

LEMMA BlockCompacted ==
  ASSUME NEW s, NEW till \in Limits, Ready(s, till), s.lists["RT"].tail # -1
  PROVE  LET u == compactBlock(s, s.lists["RT"].tail)
         IN  Ready(u, till) /\ u.lists["FREE"].head # -1
<1> DEFINE b == s.lists["RT"].tail
           n == s.blocks[b].count
           w == EachSlot(compactPoint, s, b)
           e == emptied(detachBlock(w, "RT", b), b)
           u == pushBlockHead(e, "FREE", b)
<1>1. PICK B : TiersOk(s, B, {}, -1)
  BY DEF Ready
<1>2. s \in Shape /\ PointsOk(s, {}, {}, till)
  BY DEF Ready
<1>3. b \in B["RT"] /\ b \in Block
  BY <1>1, TierEnds DEF Tier
<1>4. compactBlock(s, b) = u
  BY DEF compactBlock
<1> HIDE DEF b
<1>5. CompactedTo(w, b, n, n, B["RT"], till)
  BY <1>1, <1>2, <1>3, SlotsCompacted
<1> HIDE DEF w
<1>6. PICK C : C["RT"] = B["RT"] /\ TiersOk(w, C, {}, -1)
  BY <1>5 DEF CompactedTo
<1>7. w \in Shape /\ w.blocks[b].count = n /\ PointsOk(w, upTo(b, n), {b}, till)
  BY <1>5 DEF CompactedTo
<1>8. \A r \in PointRef : blockOf(r) = b /\ LiveIn(w, r) => r \in upTo(b, n)
  BY <1>7 DEF LiveIn, upTo
<1> HIDE DEF n
<1> DEFINE A == [C EXCEPT !["RT"] = C["RT"] \ {b}]
<1>9. /\ e \in Shape /\ TiersOk(e, A, {b}, b)
      /\ PointsOk(e, {y \in upTo(b, n) : blockOf(y) # b}, {b} \ {b}, till)
  BY <1>3, <1>6, <1>7, <1>8, TierBlockEmptied DEF Tier
<1>10. {y \in upTo(b, n) : blockOf(y) # b} = {} /\ {b} \ {b} = {}
  BY DEF upTo
<1> HIDE DEF e, A
<1>11. e.lists["FREE"].head # b
  <2>1. e.lists["FREE"].head \in A["FREE"] \cup {-1}
    BY <1>9, TierEnds DEF Tier
  <2>2. b \notin A["FREE"] /\ b # -1
    BY <1>3, <1>9, SizesTyped DEF TiersOk, LinkedTiers, Block, Tier
  <2> QED
    BY <2>1, <2>2
<1>12. Pushed(e, u, "FREE", b)
  BY <1>3, <1>9, <1>11, PushIs DEF Tier
<1> HIDE DEF u
<1>13. TiersOk(u, [A EXCEPT !["FREE"] = A["FREE"] \cup {b}], {}, -1)
  BY <1>3, <1>9, <1>12, TiersPushed DEF Tier
<1>14. SamePoints(e, u) /\ u \in Shape
  BY <1>12 DEF Pushed, SamePoints
<1>15. PointsOk(u, {}, {}, till)
  BY <1>9, <1>10, <1>14, PointsCarry
<1>16. Ready(u, till)
  BY <1>13, <1>14, <1>15 DEF Ready
<1>17. u.lists["FREE"].head # -1
  BY <1>3, <1>12, SizesTyped DEF Pushed, Block
<1> QED
  BY <1>4, <1>16, <1>17 DEF b

LEMMA OneExpiredCompacted ==
  ASSUME NEW s, NEW till \in Limits, Ready(s, till), NEW now
  PROVE  Ready(compactOneExpired(s, now), till)
<1>1. SeveralRT(s) => s.lists["RT"].tail # -1
  BY TierEnds DEF Ready, SeveralRT, Tier
<1> QED
  BY <1>1, BlockCompacted DEF compactOneExpired

LEMMA OldestCompacted ==
  ASSUME NEW s, NEW till \in Limits, Ready(s, till)
  PROVE  /\ Ready(compactOldest(s), till)
         /\ compactOldest(s) = s \/ compactOldest(s).lists["FREE"].head # -1
         /\ SeveralRT(s) => compactOldest(s).lists["FREE"].head # -1
<1>1. SeveralRT(s) => s.lists["RT"].tail # -1
  BY TierEnds DEF Ready, SeveralRT, Tier
<1> QED
  BY <1>1, BlockCompacted DEF compactOldest

(* A block for recent points, or none.                                     *)
RecentGot(g, till) ==
  \/ g.block = -1 /\ Ready(g.store, till)
  \/ g.block # -1 /\ \E C : Fresh(g, C, {g.block}, {}, {}, till)

LEMMA FreeGot ==
  ASSUME NEW s, NEW till \in Limits, Ready(s, till)
  PROVE  /\ RecentGot(popFreeBlock(s), till)
         /\ popFreeBlock(s).block = -1 => popFreeBlock(s).store = s
<1>1. PICK B : TiersOk(s, B, {}, -1)
  BY DEF Ready
<1>2. s \in Shape /\ PointsOk(s, {}, {}, till)
  BY DEF Ready
<1> DEFINE g == popFreeBlock(s)
<1>3. \/ g.block = -1 /\ g.store = s
      \/ g.block \in Block /\ \E C : Fresh(g, C, {g.block}, {}, {}, till)
  BY <1>1, <1>2, PopIs
<1>4. \A c \in Block : c # -1
  BY SizesTyped DEF Block
<1> HIDE DEF g
<1>5. RecentGot(g, till) /\ (g.block = -1 => g.store = s)
  BY <1>3, <1>4 DEF RecentGot
<1> QED
  BY <1>5 DEF g

LEMMA OldestHistoryGot ==
  ASSUME NEW s, NEW till \in Limits, Ready(s, till)
  PROVE  RecentGot(ElseOldestHistory(s, popFreeBlock(s)), till)
<1> DEFINE free == popFreeBlock(s)
           last == s.lists["HIST"].tail
           g == ElseOldestHistory(s, free)
<1> SUFFICES RecentGot(g, till)
  OBVIOUS
<1>1. RecentGot(free, till)
  BY FreeGot
<1> HIDE DEF free
<1>2. CASE ~(free.block = -1 /\ last # -1)
  BY <1>1, <1>2 DEF ElseOldestHistory
<1>3. CASE free.block = -1 /\ last # -1
  <2>1. PICK B : TiersOk(s, B, {}, -1)
    BY DEF Ready
  <2>2. s \in Shape /\ PointsOk(s, {}, {}, till)
    BY DEF Ready
  <2>3. last \in B["HIST"] /\ last \in Block
    BY <1>3, <2>1, TierEnds DEF Tier
  <2> DEFINE w == evictBlock(s, last)
             C == [B EXCEPT !["HIST"] = B["HIST"] \ {last}]
  <2>4. g = Got(w, last)
    BY <1>3 DEF ElseOldestHistory
  <2> HIDE DEF last
  <2>5. /\ w \in Shape /\ w.blocks[last].count = 0
        /\ TiersOk(w, C, {last}, last) /\ PointsOk(w, {}, {}, till)
    BY <2>1, <2>2, <2>3, Evicted
  <2>6. g.store = w /\ g.block = last
    BY <2>4, GotIs
  <2> HIDE DEF g, w, C
  <2>7. Fresh(g, C, {g.block}, {}, {}, till)
    BY <2>3, <2>5, <2>6 DEF Fresh
  <2>8. g.block # -1
    BY <1>3, <2>6 DEF last
  <2> QED
    BY <2>7, <2>8 DEF RecentGot
<1> QED
  BY <1>2, <1>3

(* A list of one node, or none.                                            *)
LEMMA OneLinked ==
  ASSUME NEW D, NEW rk \in [D -> Nat], NEW N \in SUBSET D,
         NEW nx, NEW pv, NEW h, NEW out, Linked(N, nx, pv, h, h, out, rk)
  PROVE  N \subseteq {h}
<1> SUFFICES ASSUME N \ {h} # {}
             PROVE  FALSE
  OBVIOUS
<1> DEFINE R == {rk[y] : y \in N \ {h}}
<1>1. R \in SUBSET Nat /\ R # {}
  OBVIOUS
<1> HIDE DEF R
<1>2. PICK n \in R : \A m \in R : n =< m
  BY <1>1, LeastElement
<1>3. PICK x \in N \ {h} : rk[x] = n /\ \A y \in N \ {h} : rk[x] =< rk[y]
  BY <1>2 DEF R
<1>4. pv[x] \in N /\ nx[pv[x]] = x /\ rk[pv[x]] < rk[x] /\ pv[x] # h
  BY DEF Linked
<1>5. rk[pv[x]] \in Nat /\ rk[x] \in Nat
  BY <1>4
<1> QED
  BY <1>3, <1>4, <1>5

LEMMA PopFinds ==
  ASSUME NEW s \in Shape
  PROVE  /\ s.lists["FREE"].head # -1 => popFreeBlock(s).block # -1
         /\ popFreeBlock(s).block = -1 => s.lists["FREE"].head = -1 /\ s.size = block_cap
<1>1. s.size \in 0 .. block_cap
  BY ShapeFields
<1>2. \A d, b : Got(d, b).block = b
  BY GotIs
<1> QED
  BY <1>1, <1>2, SizesTyped DEF popFreeBlock

(* All blocks are in use and there is one recent block at most: the others *)
(* are history.                                                            *)
LEMMA HistoryFound ==
  ASSUME NEW s, NEW till \in Limits, Ready(s, till), popFreeBlock(s).block = -1, ~SeveralRT(s)
  PROVE  s.lists["HIST"].tail # -1
<1> SUFFICES ASSUME s.lists["HIST"].tail = -1
             PROVE  FALSE
  OBVIOUS
<1>1. PICK B, rb : LinkedTiers(s, B, rb, {})
  BY DEF Ready, TiersOk
<1>2. s.lists["FREE"].head = -1 /\ s.size = block_cap
  BY PopFinds DEF Ready
<1>3. \A t \in Tier : /\ B[t] \in SUBSET Block /\ rb \in [Block -> Nat]
                      /\ Linked(B[t], nextBlock(s), prevBlock(s),
                                s.lists[t].head, s.lists[t].tail, -1, rb)
  BY <1>1 DEF LinkedTiers
<1>4. B["FREE"] = {}
  BY <1>2, <1>3, NoneLinked DEF Tier
<1>5. B["HIST"] = {}
  <2>1. s.lists["HIST"].head = -1
    BY <1>3 DEF Linked, Tier
  <2> QED
    BY <1>3, <2>1, NoneLinked DEF Tier
<1>6. B["RT"] \subseteq {s.lists["RT"].head}
  <2>1. s.lists["RT"].tail = s.lists["RT"].head
    BY DEF SeveralRT
  <2> QED
    BY <1>3, <2>1, OneLinked DEF Tier
<1>7. 0 \in Block /\ 1 \in Block /\ 0 < s.size /\ 1 < s.size
  BY <1>2, SizesTyped DEF Block
<1>8. \A c \in Block : c < s.size => c \in B["RT"]
  BY <1>1, <1>4, <1>5 DEF LinkedTiers, Tier
<1>9. 0 \in B["RT"] /\ 1 \in B["RT"]
  BY <1>7, <1>8
<1> QED
  BY <1>6, <1>9

LEMMA BlockAllocated ==
  ASSUME NEW s, NEW till \in Limits, Ready(s, till)
  PROVE  RecentGot(allocRTBlock(s), till) /\ allocRTBlock(s).block # -1
<1> DEFINE t == compactAgain(s, compactOldest(s))
<1>1. Ready(t, till)
  BY OldestCompacted DEF compactAgain
<1>2. allocRTBlock(s) = IF popFreeBlock(s).block # -1 THEN popFreeBlock(s)
                        ELSE ElseOldestHistory(t, popFreeBlock(t))
  BY DEF allocRTBlock
<1>3. RecentGot(popFreeBlock(s), till) /\ RecentGot(ElseOldestHistory(t, popFreeBlock(t)), till)
  <2> HIDE DEF t
  <2> QED
    BY <1>1, FreeGot, OldestHistoryGot
<1>4. ASSUME popFreeBlock(s).block = -1
      PROVE  ElseOldestHistory(t, popFreeBlock(t)).block # -1
  <2>1. CASE SeveralRT(s)
    <3> DEFINE first == compactOldest(s)
    <3>1. Ready(first, till) /\ first.lists["FREE"].head # -1
      BY <2>1, OldestCompacted
    <3>2. t = first \/ t = compactOldest(first)
      BY DEF compactAgain
    <3> HIDE DEF first
    <3>3. t.lists["FREE"].head # -1
      BY <3>1, <3>2, OldestCompacted
    <3> HIDE DEF t
    <3>4. popFreeBlock(t).block # -1
      BY <1>1, <3>3, PopFinds DEF Ready
    <3> QED
      BY <3>4 DEF ElseOldestHistory
  <2>2. CASE ~SeveralRT(s)
    <3>1. t = s
      BY <2>2 DEF compactAgain, compactOldest
    <3>2. s.lists["HIST"].tail # -1
      BY <1>4, <2>2, HistoryFound
    <3> HIDE DEF t
    <3>3. ElseOldestHistory(s, popFreeBlock(s)) =
            Got(evictBlock(s, s.lists["HIST"].tail), s.lists["HIST"].tail)
      BY <1>4, <3>2 DEF ElseOldestHistory
    <3> QED
      BY <3>1, <3>2, <3>3, GotIs
  <2> QED
    BY <2>1, <2>2
<1> HIDE DEF t
<1> QED
  BY <1>2, <1>3, <1>4

-----------------------------------------------------------------------------
(* The tracks as sequences.                                                *)

NoRepeats(c) == \A i, j \in 1 .. Len(c) : c[i] = c[j] => i = j

LEMMA LengthIsCardinality ==
  ASSUME NEW S, NEW c \in Seq(S), NoRepeats(c)
  PROVE  IsFiniteSet(ToSet(c)) /\ Cardinality(ToSet(c)) = Len(c)
<1>1. Len(c) \in Nat /\ DOMAIN c = 1 .. Len(c) /\ c \in [1 .. Len(c) -> S]
  OBVIOUS
<1>2. ToSet(c) = {c[i] : i \in 1 .. Len(c)}
  BY <1>1 DEF ToSet
<1>3. c \in Bijection(1 .. Len(c), ToSet(c))
  <2>1. c \in [1 .. Len(c) -> ToSet(c)]
    BY <1>1, <1>2
  <2>2. c \in Injection(1 .. Len(c), ToSet(c))
    BY <2>1 DEF Injection, IsInjective, NoRepeats
  <2>3. c \in Surjection(1 .. Len(c), ToSet(c))
    BY <1>2, <2>1 DEF Surjection
  <2> QED
    BY <2>2, <2>3 DEF Bijection
<1>4. IsFiniteSet(1 .. Len(c)) /\ Cardinality(1 .. Len(c)) = Len(c)
  <2>1. 1 \in Int /\ Len(c) \in Int /\ Len(c) >= 0
    BY <1>1
  <2>2. IsFiniteSet(1 .. Len(c)) /\ Cardinality(1 .. Len(c)) = IF 1 > Len(c) THEN 0 ELSE Len(c) - 1 + 1
    BY <2>1, FS_Interval, Zenon
  <2> QED
    BY <2>1, <2>2
<1>5. ExistsBijection(1 .. Len(c), ToSet(c))
  BY <1>3 DEF ExistsBijection
<1> QED
  BY <1>4, <1>5, FS_Bijection, FS_CardinalityType, Zenon

LEMMA EnumeratedSet ==
  ASSUME NEW c, NEW N, NEW nx, NEW pv, NEW h, NEW t, NEW out,
         Enumerates(c, N, nx, pv, h, t, out)
  PROVE  c \in Seq(N) /\ NoRepeats(c) /\ ToSet(c) = N
<1>1. /\ c \in Seq(N) /\ (\A x \in N : \E i \in 1 .. Len(c) : c[i] = x)
      /\ \A i, j \in 1 .. Len(c) : c[i] = c[j] => i = j
  BY DEF Enumerates
<1>2. DOMAIN c = 1 .. Len(c) /\ \A i \in 1 .. Len(c) : c[i] \in N
  BY <1>1, LenProperties
<1>3. ToSet(c) = {c[i] : i \in 1 .. Len(c)}
  BY <1>2 DEF ToSet
<1> QED
  BY <1>1, <1>2, <1>3 DEF NoRepeats


(* A set of nodes is linked in one order only.                             *)
LEMMA EnumeratedOnce ==
  ASSUME NEW N, NEW out, out \notin N,
         NEW c, NEW nx, NEW pv, NEW h, NEW t, Enumerates(c, N, nx, pv, h, t, out),
         NEW d, NEW nx2, NEW pv2, NEW t2, Enumerates(d, N, nx2, pv2, h, t2, out),
         \A x \in N : nx2[x] = nx[x]
  PROVE  d = c
<1>1. /\ c \in Seq(N) /\ h = IF Len(c) = 0 THEN out ELSE c[1]
      /\ \A i \in 1 .. Len(c) : nx[c[i]] = IF i = Len(c) THEN out ELSE c[i + 1]
  BY DEF Enumerates
<1>2. /\ d \in Seq(N) /\ h = IF Len(d) = 0 THEN out ELSE d[1]
      /\ \A i \in 1 .. Len(d) : nx2[d[i]] = IF i = Len(d) THEN out ELSE d[i + 1]
  BY DEF Enumerates
<1>3. Len(c) = Len(d)
  <2>1. NoRepeats(c) /\ ToSet(c) = N /\ NoRepeats(d) /\ ToSet(d) = N
    BY EnumeratedSet
  <2> QED
    BY <1>1, <1>2, <2>1, LengthIsCardinality
<1>4. /\ Len(c) \in Nat /\ \A i \in 1 .. Len(c) : c[i] \in N /\ d[i] \in N
  BY <1>1, <1>2, <1>3, LenProperties
<1> DEFINE S == {k \in Nat : k + 1 \in 1 .. Len(c) => c[k + 1] = d[k + 1]}
<1>5. 0 \in S
  BY <1>1, <1>2, <1>3, <1>4
<1>6. ASSUME NEW k \in Nat, k \in S
      PROVE  k + 1 \in S
  <2> SUFFICES ASSUME (k + 1) + 1 \in 1 .. Len(c)
               PROVE  c[(k + 1) + 1] = d[(k + 1) + 1]
    OBVIOUS
  <2> DEFINE i == k + 1
  <2>1. i \in 1 .. Len(c) /\ i # Len(c) /\ c[i] = d[i]
    BY <1>4, <1>6
  <2> HIDE DEF i
  <2>2. c[i + 1] = nx[c[i]] /\ d[i + 1] = nx2[d[i]] /\ c[i] \in N
    BY <1>1, <1>2, <1>3, <1>4, <2>1
  <2> QED
    BY <2>1, <2>2 DEF i
<1> HIDE DEF S
<1>7. Nat \subseteq S
  BY <1>5, <1>6, InductionOnNat
<1>8. ASSUME NEW i \in 1 .. Len(c)
      PROVE  c[i] = d[i]
  <2> DEFINE k == i - 1
  <2>1. k \in Nat /\ k + 1 = i
    BY <1>4
  <2> HIDE DEF k
  <2> QED
    BY <1>7, <2>1 DEF S
<1> QED
  BY <1>1, <1>2, <1>3, <1>8, SeqEqual

LEMMA TrackEnumerated ==
  ASSUME NEW s, NEW Q, NEW rq, NEW X, LinkedTracks(s, Q, rq, X), NEW a \in Ship
  PROVE  LET ps == PointsOf(s, a)
         IN  /\ Enumerates(ps, Q[a], nextPoint(s), prevPoint(s),
                           s.anchors[a].head, s.anchors[a].tail, Anchor(a))
             /\ \A i, j \in 1 .. Len(ps) : i < j => rq[ps[i]] < rq[ps[j]]
<1>1. /\ SHIP_BIT \in Nat /\ Q[a] \in SUBSET (0 .. (SHIP_BIT - 1))
      /\ rq \in [0 .. (SHIP_BIT - 1) -> Nat]
      /\ Anchor(a) \in Int /\ Anchor(a) \notin 0 .. (SHIP_BIT - 1)
  BY SizesTyped, AnchorIs DEF LinkedTracks, PointRef
<1>2. DOMAIN nextPoint(s) = 0 .. (SHIP_BIT - 1)
  BY DEF nextPoint, PointRef
<1>3. Linked(Q[a], nextPoint(s), prevPoint(s),
             s.anchors[a].head, s.anchors[a].tail, Anchor(a), rq)
  BY DEF LinkedTracks
<1>4. PointsOf(s, a) = Chain(s.anchors[a].head, nextPoint(s), SHIP_BIT + 1)
  BY DEF PointsOf, nextPoint
<1> DEFINE nx == nextPoint(s)
           h == s.anchors[a].head
           ps == Chain(h, nx, SHIP_BIT + 1)
<1>5. /\ Enumerates(ps, Q[a], nx, prevPoint(s), h, s.anchors[a].tail, Anchor(a))
      /\ \A i, j \in 1 .. Len(ps) : i < j => rq[ps[i]] < rq[ps[j]]
  <2> HIDE DEF nx, h
  <2> QED
    BY <1>1, <1>2, <1>3, ListEnumerated DEF nx, h
<1> QED
  BY <1>4, <1>5

(* What a track says of the points on its chain.                           *)
TrackSays(s, a, N) ==
  LET ps == PointsOf(s, a)
      tr == TracksIn(s)[a]
  IN  /\ ps \in Seq(N) /\ Len(ps) \in Nat
      /\ tr \in Seq(Spans) /\ Len(tr) = Len(ps) /\ DOMAIN tr = 1 .. Len(ps)
      /\ \A i \in 1 .. Len(ps) : ps[i] \in N /\ tr[i] = Span(s.pts[ps[i]])
      /\ \A x \in N : \E i \in 1 .. Len(ps) : ps[i] = x
      /\ \A i, j \in 1 .. Len(ps) : ps[i] = ps[j] => i = j

LEMMA TrackIs ==
  ASSUME NEW s \in Shape, NEW Q, NEW rq, NEW X, LinkedTracks(s, Q, rq, X), NEW a \in Ship
  PROVE  /\ TrackSays(s, a, Q[a])
         /\ s.anchors[a].tail \in PointRef =>
              /\ TracksIn(s)[a] # <<>>
              /\ PointsOf(s, a)[Len(PointsOf(s, a))] = s.anchors[a].tail
              /\ Last(TracksIn(s)[a]) = Span(s.pts[s.anchors[a].tail])
         /\ s.anchors[a].tail \notin PointRef => TracksIn(s)[a] = <<>>
<1> DEFINE ps == PointsOf(s, a)
           tr == TracksIn(s)[a]
<1>1. tr = [i \in DOMAIN ps |-> Span(s.pts[ps[i]])]
  BY DEF TracksIn
<1>2. Enumerates(ps, Q[a], nextPoint(s), prevPoint(s),
                 s.anchors[a].head, s.anchors[a].tail, Anchor(a))
  BY TrackEnumerated
<1> HIDE DEF ps
<1>3. /\ ps \in Seq(Q[a])
      /\ \A x \in Q[a] : \E i \in 1 .. Len(ps) : ps[i] = x
      /\ \A i, j \in 1 .. Len(ps) : ps[i] = ps[j] => i = j
      /\ s.anchors[a].tail = IF Len(ps) = 0 THEN Anchor(a) ELSE ps[Len(ps)]
  BY <1>2 DEF Enumerates
<1>4. Q[a] \subseteq PointRef /\ Anchor(a) \notin PointRef
  BY AnchorIs DEF LinkedTracks
<1>5. /\ Len(ps) \in Nat /\ DOMAIN ps = 1 .. Len(ps)
      /\ \A i \in 1 .. Len(ps) : ps[i] \in Q[a]
  BY <1>3, LenProperties
<1>6. \A r \in PointRef : Span(s.pts[r]) \in Spans
  <2>1. \A r \in PointRef : s.pts[r].time \in Nat /\ s.pts[r].dur \in Nat
    BY ShapeFields DEF PointShape
  <2> QED
    BY <2>1 DEF Span, Spans, End
<1>7. \A i \in 1 .. Len(ps) : Span(s.pts[ps[i]]) \in Spans
  BY <1>4, <1>5, <1>6
<1> HIDE DEF tr
<1>8. tr \in [1 .. Len(ps) -> Spans] /\ \A i \in 1 .. Len(ps) : tr[i] = Span(s.pts[ps[i]])
  BY <1>1, <1>5, <1>7
<1>9. tr \in Seq(Spans) /\ Len(tr) = Len(ps) /\ DOMAIN tr = 1 .. Len(ps)
  BY <1>5, <1>8
<1>10. TrackSays(s, a, Q[a])
  BY <1>3, <1>5, <1>8, <1>9 DEF TrackSays, ps, tr
<1>11. Len(ps) = 0 <=> tr = <<>>
  BY <1>9
<1>12. CASE Len(ps) = 0
  BY <1>3, <1>4, <1>10, <1>11, <1>12 DEF ps, tr
<1>13. CASE Len(ps) # 0
  <2>1. Len(ps) \in 1 .. Len(ps)
    BY <1>5, <1>13
  <2>2. s.anchors[a].tail = ps[Len(ps)] /\ ps[Len(ps)] \in PointRef
    BY <1>3, <1>4, <1>5, <1>13, <2>1
  <2>3. Last(tr) = Span(s.pts[ps[Len(ps)]])
    BY <1>8, <1>9, <2>1 DEF Last
  <2> QED
    BY <1>10, <1>11, <1>13, <2>2, <2>3 DEF ps, tr
<1> QED
  BY <1>12, <1>13

LEMMA TracksAreSpans ==
  ASSUME NEW s \in Shape, NEW Q, NEW rq, NEW X, LinkedTracks(s, Q, rq, X)
  PROVE  TracksIn(s) \in [Ship -> Seq(Spans)]
<1>1. \A a \in Ship : TracksIn(s)[a] \in Seq(Spans)
  BY TrackIs DEF TrackSays
<1>2. TracksIn(s) = [a \in Ship |-> TracksIn(s)[a]]
  BY DEF TracksIn
<1> HIDE DEF TracksIn
<1> QED
  BY <1>1, <1>2

(* At first each point is where it is in its own track.                    *)
Place(s, Q, y) ==
  CHOOSE i \in Nat : \E a \in Ship : /\ y \in Q[a] /\ i \in 1 .. Len(PointsOf(s, a))
                                     /\ PointsOf(s, a)[i] = y

LEMMA TracksOrigins ==
  ASSUME NEW s \in Shape, NEW Q, NEW rq, NEW X, LinkedTracks(s, Q, rq, X)
  PROVE  TracksOk(s, X, TracksIn(s))
<1> DEFINE r2 == [y \in PointRef |-> IF \E a \in Ship : y \in Q[a] THEN Place(s, Q, y) ELSE 0]
<1>1. /\ Q \in [Ship -> SUBSET PointRef]
      /\ \A a \in Ship, c \in Ship : a # c => Q[a] \cap Q[c] = {}
  BY DEF LinkedTracks
<1>2. ASSUME NEW a \in Ship, NEW i \in 1 .. Len(PointsOf(s, a))
      PROVE  Place(s, Q, PointsOf(s, a)[i]) = i /\ i \in Nat /\ PointsOf(s, a)[i] \in Q[a]
  <2> DEFINE ps == PointsOf(s, a)
             y == ps[i]
             Is(k) == \E c \in Ship : /\ y \in Q[c] /\ k \in 1 .. Len(PointsOf(s, c))
                                      /\ PointsOf(s, c)[k] = y
  <2>1. /\ Len(ps) \in Nat /\ ps[i] \in Q[a]
        /\ \A k, l \in 1 .. Len(ps) : ps[k] = ps[l] => k = l
    BY TrackIs DEF TrackSays
  <2>2. Place(s, Q, y) = CHOOSE k \in Nat : Is(k)
    BY DEF Place
  <2> HIDE DEF ps
  <2>3. i \in Nat /\ Is(i)
    BY <2>1 DEF ps
  <2>4. \A k \in Nat : Is(k) => k = i
    <3> SUFFICES ASSUME NEW k \in Nat, NEW c \in Ship, y \in Q[c],
                        k \in 1 .. Len(PointsOf(s, c)), PointsOf(s, c)[k] = y
                 PROVE  k = i
      OBVIOUS
    <3>1. c = a
      BY <1>1, <2>1
    <3> QED
      BY <2>1, <3>1 DEF ps
  <2> HIDE DEF Is
  <2>5. (CHOOSE k \in Nat : Is(k)) = i
    BY <2>3, <2>4
  <2> QED
    BY <2>1, <2>2, <2>3, <2>5 DEF ps
<1>3. \A a \in Ship : \A y \in Q[a] : \E i \in 1 .. Len(PointsOf(s, a)) : PointsOf(s, a)[i] = y
  BY TrackIs DEF TrackSays
<1>4. \A a \in Ship : \A y \in Q[a] : /\ r2[y] = Place(s, Q, y) /\ y \in PointRef
  BY <1>1
<1>5. \A a \in Ship : \A i \in 1 .. Len(PointsOf(s, a)) : r2[PointsOf(s, a)[i]] = i
  BY <1>2, <1>4
<1>6. r2 \in [PointRef -> Nat]
  <2>1. \A y \in PointRef : (\E a \in Ship : y \in Q[a]) => Place(s, Q, y) \in Nat
    BY <1>2, <1>3
  <2> QED
    BY <2>1
<1> HIDE DEF r2
<1>7. ASSUME NEW a \in Ship
      PROVE  Linked(Q[a], nextPoint(s), prevPoint(s), s.anchors[a].head, s.anchors[a].tail, Anchor(a), r2)
  <2> DEFINE ps == PointsOf(s, a)
             nx == nextPoint(s)
             pv == prevPoint(s)
             h == s.anchors[a].head
             tl == s.anchors[a].tail
             out == Anchor(a)
  <2>1. Linked(Q[a], nx, pv, h, tl, out, rq)
    BY DEF LinkedTracks
  <2>2. Enumerates(ps, Q[a], nx, pv, h, tl, out)
    BY TrackEnumerated
  <2>3. \A i \in 1 .. Len(ps) : r2[ps[i]] = i
    BY <1>5
  <2> HIDE DEF ps, nx, pv, h, tl, out
  <2>4. ASSUME NEW x \in Q[a], nx[x] \in Q[a]
        PROVE  r2[x] < r2[nx[x]]
    <3>1. PICK i \in 1 .. Len(ps) : ps[i] = x
      BY <2>2 DEF Enumerates
    <3>2. nx[x] = (IF i = Len(ps) THEN out ELSE ps[i + 1]) /\ out \notin Q[a] /\ ps \in Seq(Q[a])
      BY <2>1, <2>2, <3>1 DEF Enumerates, Linked
    <3>3. i + 1 \in 1 .. Len(ps) /\ nx[x] = ps[i + 1]
      BY <2>4, <3>2
    <3> QED
      BY <2>3, <3>1, <3>3
  <2> QED
    BY <2>1, <2>4 DEF Linked, nx, pv, h, tl, out
<1>8. LinkedTracks(s, Q, r2, X)
  BY <1>6, <1>7 DEF LinkedTracks
<1>9. Origins(s, Q, r2, TracksIn(s))
  <2> SUFFICES ASSUME NEW a \in Ship, NEW y \in Q[a]
               PROVE  r2[y] \in DOMAIN TracksIn(s)[a] /\ TracksIn(s)[a][r2[y]] = Span(s.pts[y])
    BY DEF Origins
  <2>1. PICK i \in 1 .. Len(PointsOf(s, a)) : PointsOf(s, a)[i] = y
    BY <1>3
  <2>2. r2[y] = i
    BY <1>5, <2>1
  <2>3. DOMAIN TracksIn(s)[a] = 1 .. Len(PointsOf(s, a)) /\ TracksIn(s)[a][i] = Span(s.pts[y])
    BY <2>1, TrackIs DEF TrackSays
  <2> QED
    BY <2>2, <2>3
<1> QED
  BY <1>8, <1>9 DEF TracksOk

(* A track is what it was made from, without some of it.                   *)
LEMMA ThinnedFrom ==
  ASSUME NEW s \in Shape, NEW X, NEW from \in [Ship -> Seq(Spans)], TracksOk(s, X, from), NEW a \in Ship
  PROVE  T!Thinned(TracksIn(s)[a], from[a])
<1>1. PICK Q, rq : LinkedTracks(s, Q, rq, X) /\ Origins(s, Q, rq, from)
  BY DEF TracksOk
<1> DEFINE ps == PointsOf(s, a)
           tr == TracksIn(s)[a]
           at == [i \in DOMAIN tr |-> rq[ps[i]]]
<1>2. \A i, j \in 1 .. Len(ps) : i < j => rq[ps[i]] < rq[ps[j]]
  BY <1>1, TrackEnumerated
<1>3. /\ DOMAIN tr = 1 .. Len(ps)
      /\ \A i \in 1 .. Len(ps) : ps[i] \in Q[a] /\ tr[i] = Span(s.pts[ps[i]])
  BY <1>1, TrackIs DEF TrackSays
<1> HIDE DEF ps, tr
<1>4. \A i \in 1 .. Len(ps) : rq[ps[i]] \in DOMAIN from[a] /\ from[a][rq[ps[i]]] = tr[i]
  BY <1>1, <1>3 DEF Origins
<1>5. at \in [DOMAIN tr -> DOMAIN from[a]] /\ \A i \in 1 .. Len(ps) : at[i] = rq[ps[i]]
  BY <1>3, <1>4
<1> HIDE DEF at
<1>6. \A i, j \in DOMAIN tr : i < j => at[i] < at[j]
  BY <1>2, <1>3, <1>5
<1>7. \A i \in DOMAIN tr : tr[i] = from[a][at[i]]
  BY <1>3, <1>4, <1>5
<1>8. T!Thinned(tr, from[a])
  BY <1>5, <1>6, <1>7 DEF T!Thinned
<1> QED
  BY <1>8 DEF tr

(* What is thinned to more than its last is, without that, what came       *)
(* before thinned.                                                         *)
LEMMA FrontThinned ==
  ASSUME NEW S, NEW x \in Seq(S), NEW y \in Seq(S), NEW e, x # <<>>, T!Thinned(x, Append(y, e))
  PROVE  T!Thinned(Front(x), y)
<1> DEFINE z == Append(y, e)
           w == Front(x)
           n == Len(x)
           m == Len(y)
<1>1. PICK at \in [DOMAIN x -> DOMAIN z] : /\ \A i, j \in DOMAIN x : i < j => at[i] < at[j]
                                           /\ \A i \in DOMAIN x : x[i] = z[at[i]]
  BY DEF T!Thinned
<1>2. n \in Nat /\ n > 0 /\ DOMAIN x = 1 .. n /\ m \in Nat /\ DOMAIN y = 1 .. m
  OBVIOUS
<1>3. DOMAIN z = 1 .. (m + 1) /\ \A i \in 1 .. m : z[i] = y[i]
  OBVIOUS
<1>4. DOMAIN w = 1 .. (n - 1) /\ \A i \in 1 .. (n - 1) : w[i] = x[i] /\ i \in DOMAIN x
  BY <1>2 DEF Front
<1> DEFINE up == [i \in DOMAIN w |-> at[i]]
<1> HIDE DEF z, w, n, m
<1>5. \A i \in 1 .. (n - 1) : at[i] \in 1 .. m
  <2> SUFFICES ASSUME NEW i \in 1 .. (n - 1)
               PROVE  at[i] \in 1 .. m
    OBVIOUS
  <2>1. i \in DOMAIN x /\ n \in DOMAIN x /\ i < n
    BY <1>2
  <2>2. at[i] < at[n] /\ at[i] \in 1 .. (m + 1) /\ at[n] \in 1 .. (m + 1)
    BY <1>1, <1>3, <2>1
  <2> QED
    BY <1>2, <2>2
<1>6. up \in [DOMAIN w -> DOMAIN y] /\ \A i \in 1 .. (n - 1) : up[i] = at[i]
  BY <1>2, <1>4, <1>5
<1> HIDE DEF up
<1>7. \A i, j \in DOMAIN w : i < j => up[i] < up[j]
  BY <1>1, <1>4, <1>6
<1>8. \A i \in DOMAIN w : w[i] = y[up[i]]
  BY <1>1, <1>3, <1>4, <1>5, <1>6
<1>9. T!Thinned(w, y)
  BY <1>6, <1>7, <1>8 DEF T!Thinned
<1> QED
  BY <1>9 DEF w

-----------------------------------------------------------------------------
(* The operations of the store.                                            *)

LEMMA LimitsRaised ==
  ASSUME NEW s \in Shape, NEW X, NEW E, NEW till \in Limits, PointsOk(s, X, E, till),
         NEW more \in Limits, till.clock =< more.clock, more.from = till.from,
         \A a \in Ship : till.ends[a] =< more.ends[a]
  PROVE  PointsOk(s, X, E, more)
<1>1. \A r \in PointRef : s.pts[r].time \in Nat /\ s.pts[r].dur \in Nat
  BY ShapeFields DEF PointShape
<1>2. /\ till.clock \in Nat /\ more.clock \in Nat
      /\ \A a \in Ship : till.ends[a] \in Nat /\ more.ends[a] \in Nat
  BY DEF Limits
<1>3. Times(s, more.clock)
  BY <1>1, <1>2 DEF Times, PointsOk
<1>4. EndsBy(s, more)
  BY <1>1, <1>2 DEF EndsBy, PointsOk, End
<1> QED
  BY <1>3, <1>4 DEF PointsOk

(* Between two operations, when there is nothing to remember of one.       *)
Settled(s, c) ==
  /\ s \in Shape /\ (\E B : TiersOk(s, B, {}, -1))
  /\ (\E Q, rq : LinkedTracks(s, Q, rq, {}))
  /\ LiveOk(s, {}) /\ Times(s, c)

(* What an operation that begins now remembers.                            *)
tight(s, c) ==
  [clock |-> c,
   ends |-> [a \in Ship |-> IF HasPoints(s, a) THEN End(s.pts[s.anchors[a].tail]) ELSE 0],
   from |-> TracksIn(s)]

LEMMA Tightened ==
  ASSUME NEW s, NEW c \in Nat, Settled(s, c)
  PROVE  tight(s, c) \in Limits /\ Ready(s, tight(s, c))
<1> DEFINE till == tight(s, c)
<1>1. s \in Shape /\ LiveOk(s, {}) /\ Times(s, c)
  BY DEF Settled
<1>2. ASSUME NEW a \in Ship
      PROVE  /\ HasPoints(s, a) <=> s.anchors[a].tail \in PointRef
             /\ HasPoints(s, a) => End(s.pts[s.anchors[a].tail]) \in Nat
  <2>1. s.anchors[a].tail \in AnyRef /\ s.pts \in [PointRef -> PointShape]
    BY <1>1, ShapeFields DEF TrackShape
  <2>2. HasPoints(s, a) <=> s.anchors[a].tail \in PointRef
    BY <2>1, AnyRefIs DEF HasPoints
  <2> QED
    BY <2>1, <2>2 DEF PointShape, End
<1>3. TracksIn(s) \in [Ship -> Seq(Spans)] /\ TracksOk(s, {}, TracksIn(s))
  BY <1>1, TracksAreSpans, TracksOrigins DEF Settled
<1>4. till \in Limits
  BY <1>2, <1>3 DEF Limits, tight
<1>5. /\ till.clock = c /\ till.from = TracksIn(s)
      /\ \A a \in Ship : till.ends[a] = IF HasPoints(s, a) THEN End(s.pts[s.anchors[a].tail]) ELSE 0
  BY DEF tight
<1> HIDE DEF till
<1>6. EndsBy(s, till)
  BY <1>2, <1>5 DEF EndsBy
<1>7. PointsOk(s, {}, {}, till)
  BY <1>1, <1>3, <1>5, <1>6 DEF PointsOk
<1>8. Ready(s, till)
  BY <1>1, <1>7 DEF Ready, Settled
<1> QED
  BY <1>4, <1>8 DEF till

(* The block a new point goes into: there is always one.                   *)
RoomGot(g, till) ==
  /\ g.block # -1 /\ g.store \in Shape /\ g.block \in Block
  /\ g.store.blocks[g.block].count < BLOCK_SIZE
  /\ PointsOk(g.store, {}, {}, till)
  /\ \E C, e : /\ g.block \in C["RT"] /\ (e = -1 \/ e = g.block)
               /\ TiersOk(g.store, C, {}, e)

LEMMA RTBlockIs ==
  ASSUME NEW till \in Limits, Ready(store, till), NEW t
  PROVE  RoomGot(RTBlock(t), till)
<1> DEFINE h == store.lists["RT"].head
           a == allocRTBlock(compactExpired(store, t))
           g == RTBlock(t)
<1> SUFFICES RoomGot(g, till)
  OBVIOUS
<1>1. CASE h # -1 /\ store.blocks[h].count < BLOCK_SIZE
  <2>1. PICK B : TiersOk(store, B, {}, -1)
    BY DEF Ready
  <2>2. h \in B["RT"] /\ h \in Block
    BY <1>1, <2>1, TierEnds DEF Tier
  <2>3. g = Got(store, h)
    BY <1>1 DEF RTBlock
  <2>4. g.store = store /\ g.block = h
    BY <2>3, GotIs
  <2> HIDE DEF g
  <2> QED
    BY <1>1, <2>1, <2>2, <2>4 DEF RoomGot, Ready
<1>2. CASE ~(h # -1 /\ store.blocks[h].count < BLOCK_SIZE)
  <2>1. g = IF a.block = -1 THEN a ELSE Got(pushBlockHead(a.store, "RT", a.block), a.block)
    BY <1>2 DEF RTBlock
  <2>2. Ready(compactExpired(store, t), till)
    BY OneExpiredCompacted DEF compactExpired
  <2>3. RecentGot(a, till) /\ a.block # -1
    BY <2>2, BlockAllocated
  <2> HIDE DEF a
  <2>5. RoomGot(g, till)
    <3>1. PICK C : Fresh(a, C, {a.block}, {}, {}, till)
      BY <2>3 DEF RecentGot
    <3> DEFINE u == Got(pushBlockHead(a.store, "RT", a.block), a.block)
               A == [C EXCEPT !["RT"] = C["RT"] \cup {a.block}]
    <3>2. u.block = a.block /\ Fresh(u, A, {}, {}, {}, till)
      BY <3>1, FreshPushed
    <3>3. g = u
      BY <2>1, <2>3
    <3> HIDE DEF g, u
    <3>4. a.block \in A["RT"]
      BY <3>1 DEF Fresh, TiersOk, LinkedTiers, Tier
    <3>5. /\ g.store \in Shape /\ g.block \in Block /\ g.store.blocks[g.block].count = 0
          /\ TiersOk(g.store, A, {}, g.block) /\ PointsOk(g.store, {}, {}, till)
      BY <3>2, <3>3 DEF Fresh
    <3> HIDE DEF A
    <3>6. g.store.blocks[g.block].count < BLOCK_SIZE /\ g.block # -1
      BY <2>3, <3>2, <3>3, <3>5, SizesTyped
    <3> QED
      BY <3>2, <3>3, <3>4, <3>5, <3>6 DEF RoomGot
  <2> QED
    BY <2>5
<1> QED
  BY <1>1, <1>2

(* The report of time t is the newest point of a track, and of what the    *)
(* tracks are made from.                                                   *)
PlacedAt(u, a, t, from) ==
  LET e == [time |-> t, end |-> t]
  IN  /\ u.anchors[a].tail \in PointRef /\ Span(u.pts[u.anchors[a].tail]) = e
      /\ TracksOk(u, {}, [from EXCEPT ![a] = Append(from[a], e)])

LEMMA PlacedSettled ==
  ASSUME NEW till \in Limits, NEW g, RoomGot(g, till), NEW a \in Ship,
         NEW t \in Nat, till.ends[a] =< t, NEW now \in Nat, till.clock =< now, t =< now
  PROVE  LET u == Placed(g.store, g.block, a, t)
         IN  Settled(u, now) /\ PlacedAt(u, a, t, till.from)
<1> DEFINE s == g.store
           b == g.block
           p == newPoint(s, a, t)
           u == Placed(s, b, a, t)
           to == [till.from EXCEPT ![a] = Append(till.from[a], Span(p))]
           more == [till EXCEPT !.clock = now, !.ends = [till.ends EXCEPT ![a] = t]]
<1>1. /\ s \in Shape /\ b \in Block /\ s.blocks[b].count < BLOCK_SIZE /\ PointsOk(s, {}, {}, till)
  BY DEF RoomGot
<1>2. PICK C, e : b \in C["RT"] /\ (e = -1 \/ e = b) /\ TiersOk(s, C, {}, e)
  BY DEF RoomGot
<1> HIDE DEF s, b
<1>3. /\ more \in Limits /\ more.clock = now /\ more.from = till.from
      /\ till.from \in [Ship -> Seq(Spans)]
      /\ \A c \in Ship : till.ends[c] \in Nat /\ more.ends[c] = IF c = a THEN t ELSE till.ends[c]
  BY DEF Limits
<1> HIDE DEF more
<1>4. PointsOk(s, {}, {}, more)
  <2>1. \A c \in Ship : till.ends[c] =< more.ends[c]
    BY <1>3
  <2> QED
    BY <1>1, <1>3, <2>1, LimitsRaised
<1>5. s.anchors[a].tail \in PointRef => t >= End(s.pts[s.anchors[a].tail])
  <2>1. s.anchors[a].tail \in PointRef => End(s.pts[s.anchors[a].tail]) =< till.ends[a]
    BY <1>1 DEF PointsOk, EndsBy
  <2>2. \A r \in PointRef : s.pts[r].time \in Nat /\ s.pts[r].dur \in Nat
    BY <1>1, ShapeFields DEF PointShape
  <2>3. till.ends[a] \in Nat
    BY <1>3
  <2> QED
    BY <2>1, <2>2, <2>3 DEF End
<1>6. Slot(s, b) \notin {} /\ TracksOk(s, {}, till.from)
  BY <1>1 DEF PointsOk
<1>7. Inserted(s, u, b, p) /\ TracksOk(u, {}, to)
  <2> DEFINE from == till.from
             none == {}
  <2>1. from \in [Ship -> Seq(Spans)] /\ TracksOk(s, none, from) /\ Slot(s, b) \notin none
    BY <1>3, <1>6
  <2>2. s \in Shape /\ b \in Block /\ s.blocks[b].count < BLOCK_SIZE
    BY <1>1
  <2> HIDE DEF from, none
  <2>3. Inserted(s, u, b, p)
    BY <1>5, <2>1, <2>2, TracksPlaced
  <2>4. TracksOk(u, none, [from EXCEPT ![a] = Append(from[a], Span(p))])
    BY <1>5, <2>1, <2>2, TracksPlaced
  <2> QED
    BY <2>3, <2>4 DEF from, none
<1>8. p.time = t /\ p.dur = 0 /\ p.next = Anchor(a) /\ p.prev = s.anchors[a].tail
  BY DEF newPoint
<1>9. p.prev \in AnyRef /\ p.next \notin PointRef
  BY <1>1, <1>8, ShapeFields, AnchorIs DEF TrackShape
<1>10. p.dur \in 0 .. (DWELL_MAX - 1) /\ p.time + p.dur =< more.clock
  BY <1>3, <1>8, StoreSizes
<1>11. \A c \in Ship : p.next = Anchor(c) => p.time + p.dur =< more.ends[c]
  <2>1. \A c \in Ship : p.next = Anchor(c) => c = a
    BY <1>8, AnchorIs
  <2> QED
    BY <1>3, <1>8, <2>1
<1>16. Span(p) = [time |-> t, end |-> t]
  BY <1>8 DEF Span, End
<1> HIDE DEF p, u
<1>12. LiveOk(u, {}) /\ Times(u, now)
  BY <1>1, <1>3, <1>4, <1>7, <1>9, <1>10, <1>11, PointsInserted
<1>13. /\ u \in Shape /\ SameLinks(s, u)
       /\ \A c \in Block : u.blocks[c].count = IF c = b THEN s.blocks[c].count + 1
                                                        ELSE s.blocks[c].count
  BY <1>7 DEF Inserted
<1>14. TiersOk(u, C, {}, -1)
  BY <1>1, <1>2, <1>13, TiersWritten
<1>15. Settled(u, now)
  BY <1>7, <1>12, <1>13, <1>14 DEF Settled, TracksOk
<1>17. u.anchors[a].tail \in PointRef /\ Span(u.pts[u.anchors[a].tail]) = Span(p)
  <2> DEFINE z == Slot(s, b)
  <2>1. z \in PointRef
    BY <1>1, SlotIs
  <2>2. u.anchors[a].tail = z /\ u.pts[z].time = p.time /\ u.pts[z].dur = p.dur
    BY <1>7, <1>8 DEF Inserted
  <2> HIDE DEF z
  <2> QED
    BY <2>1, <2>2 DEF Span, End
<1> QED
  BY <1>7, <1>15, <1>16, <1>17 DEF PlacedAt, u, s, b

LEMMA SameChains ==
  ASSUME NEW s, NEW u, nextPoint(u) = nextPoint(s), u.anchors = s.anchors
  PROVE  \A a \in Ship : PointsOf(u, a) = PointsOf(s, a)
BY DEF PointsOf, nextPoint

LEMMA LastChanged ==
  ASSUME NEW S, NEW x \in Seq(S), NEW y \in Seq(S), Len(y) = Len(x), x # <<>>,
         \A i \in 1 .. Len(x) : i # Len(x) => y[i] = x[i]
  PROVE  y = Front(x) \o <<y[Len(x)]>>
<1> DEFINE n == Len(x)
           w == SubSeq(x, 1, n - 1)
           e == <<y[n]>>
           z == w \o e
<1>1. n \in Nat /\ n > 0 /\ Len(y) = n
  OBVIOUS
<1>2. w \in Seq(S) /\ Len(w) = n - 1 /\ \A i \in 1 .. (n - 1) : w[i] = x[i]
  BY <1>1
<1>3. y[n] \in S /\ e \in Seq(S) /\ Len(e) = 1 /\ e[1] = y[n]
  BY <1>1
<1>4. Front(x) = w
  BY DEF Front
<1> HIDE DEF w, e, n
<1>5. z \in Seq(S) /\ Len(z) = n /\ \A i \in 1 .. n : z[i] = IF i =< n - 1 THEN w[i] ELSE e[i - (n - 1)]
  <2>1. /\ z \in Seq(S) /\ Len(z) = Len(w) + Len(e)
        /\ \A i \in 1 .. (Len(w) + Len(e)) : z[i] = IF i =< Len(w) THEN w[i] ELSE e[i - Len(w)]
    <3>1. w \in Seq(S) /\ e \in Seq(S)
      BY <1>2, <1>3
    <3> QED
      BY <3>1, ConcatProperties, Zenon
  <2>2. Len(w) + Len(e) = n
    BY <1>1, <1>2, <1>3
  <2> HIDE DEF z
  <2> QED
    BY <1>2, <2>1, <2>2
<1>6. \A i \in 1 .. n : z[i] = y[i]
  <2> SUFFICES ASSUME NEW i \in 1 .. n
               PROVE  z[i] = y[i]
    OBVIOUS
  <2>1. CASE i = n
    <3>1. ~(i =< n - 1) /\ i - (n - 1) = 1
      BY <1>1, <2>1
    <3> QED
      BY <1>3, <1>5, <2>1, <3>1
  <2>2. CASE i # n
    <3>1. i =< n - 1 /\ i \in 1 .. (n - 1)
      BY <1>1, <2>2
    <3> QED
      BY <1>2, <1>5, <2>2, <3>1 DEF n
  <2> QED
    BY <2>1, <2>2
<1> HIDE DEF z
<1>7. y = z
  BY <1>1, <1>5, <1>6, SeqEqual
<1> QED
  BY <1>4, <1>7 DEF z, e, n

(* The newest point of a track lasts until t.                              *)
extendedTo(s, a, t) ==
  LET tl == s.anchors[a].tail IN [s EXCEPT !.pts[tl].dur = t - s.pts[tl].time]

LongerBy(old, new, a, t) ==
  /\ old[a] # <<>> /\ Last(old[a]).end =< t
  /\ new = [old EXCEPT ![a] = Front(old[a]) \o <<[Last(old[a]) EXCEPT !.end = t]>>]

LEMMA ExtendedSettled ==
  ASSUME NEW c0 \in Nat, NEW s, Settled(s, c0), NEW a \in Ship,
         s.anchors[a].tail \in PointRef, NEW t \in Nat,
         t >= End(s.pts[s.anchors[a].tail]), t - s.pts[s.anchors[a].tail].time < DWELL_MAX,
         NEW now \in Nat, c0 =< now, t =< now
  PROVE  LET u == extendedTo(s, a, t)
         IN  Settled(u, now) /\ LongerBy(TracksIn(s), TracksIn(u), a, t)
<1> DEFINE tl == s.anchors[a].tail
           d == t - s.pts[tl].time
           pts == [s.pts EXCEPT ![tl] = [s.pts[tl] EXCEPT !.dur = d]]
           u == [s EXCEPT !.pts = pts]
<1>1. s \in Shape /\ LiveOk(s, {}) /\ Times(s, c0)
  BY DEF Settled
<1>2. PICK B : TiersOk(s, B, {}, -1)
  BY DEF Settled
<1>3. /\ s.pts \in [PointRef -> PointShape]
      /\ \A r \in PointRef : s.pts[r].time \in Nat /\ s.pts[r].dur \in Nat
  BY <1>1, ShapeFields DEF PointShape
<1>4. d \in 0 .. (DWELL_MAX - 1)
  BY <1>3, StoreSizes DEF End
<1>5. extendedTo(s, a, t) = u
  BY <1>1, <1>3 DEF Shape, extendedTo
<1> DEFINE old == TracksIn(s)[a]
           new == TracksIn(u)[a]
<1> SUFFICES Settled(u, now) /\ LongerBy(TracksIn(s), TracksIn(u), a, t)
  BY <1>5
<1>6. s.pts[tl].time + d = t
  BY <1>3
<1> HIDE DEF d
<1>7. /\ pts \in [PointRef -> PointShape]
      /\ \A r \in PointRef : /\ pts[r].time = s.pts[r].time /\ pts[r].prev = s.pts[r].prev
                             /\ pts[r].next = s.pts[r].next
                             /\ pts[r].dur = IF r = tl THEN d ELSE s.pts[r].dur
  <2> DEFINE p == [s.pts[tl] EXCEPT !.dur = d]
  <2>1. s.pts[tl] \in PointShape
    BY <1>3
  <2>2. /\ p \in PointShape /\ p.dur = d /\ p.time = s.pts[tl].time
        /\ p.prev = s.pts[tl].prev /\ p.next = s.pts[tl].next
    BY <1>4, <2>1 DEF PointShape
  <2> HIDE DEF p, tl
  <2>3. pts = [s.pts EXCEPT ![tl] = p]
    BY DEF p
  <2> HIDE DEF pts
  <2>4. \A r \in PointRef : pts[r] = IF r = tl THEN p ELSE s.pts[r]
    BY <1>3, <2>3
  <2> QED
    BY <1>3, <2>2, <2>3, <2>4
<1> HIDE DEF pts, tl
<1>8. /\ u \in Shape /\ u.pts = pts /\ u.blocks = s.blocks /\ u.size = s.size
      /\ u.anchors = s.anchors /\ u.lists = s.lists
  BY <1>1, <1>7, WithPts
<1> HIDE DEF u
<1>9. nextPoint(u) = nextPoint(s) /\ prevPoint(u) = prevPoint(s)
  BY <1>7, <1>8 DEF nextPoint, prevPoint
<1>10. \A r \in PointRef : LiveIn(u, r) <=> LiveIn(s, r)
  BY <1>7, <1>8 DEF LiveIn
<1>11. PICK Q, rq : LinkedTracks(s, Q, rq, {})
  BY DEF Settled
<1>12. ASSUME NEW c \in Ship
       PROVE  InOrder(u, Q[c])
  <2> SUFFICES ASSUME NEW r \in Q[c], u.pts[r].next \in Q[c]
               PROVE  u.pts[u.pts[r].next].time >= End(u.pts[r])
    BY DEF InOrder
  <2>1. r \in PointRef /\ Q[c] \subseteq PointRef
    BY <1>11 DEF LinkedTracks
  <2>2. r # tl
    <3>1. s.pts[tl].next = Anchor(a) /\ Anchor(a) \notin PointRef
      BY <1>1, <1>11, TrackEnds, AnchorIs DEF tl
    <3> QED
      BY <1>7, <1>8, <2>1, <3>1
  <2>3. s.pts[s.pts[r].next].time >= End(s.pts[r])
    BY <1>7, <1>8, <1>11, <2>1 DEF LinkedTracks, InOrder
  <2> QED
    BY <1>7, <1>8, <2>1, <2>2, <2>3 DEF End
<1>13. LinkedTracks(u, Q, rq, {})
  BY <1>8, <1>9, <1>10, <1>11, <1>12 DEF LinkedTracks
<1>14. LiveOk(u, {})
  <2>1. \A b : livePoints(u, b) = livePoints(s, b)
    BY <1>10 DEF livePoints
  <2> QED
    BY <1>1, <1>8, <2>1 DEF LiveOk
<1>16. Times(u, now)
  BY <1>1, <1>3, <1>4, <1>6, <1>7, <1>8 DEF Times, tl
<1>18. TiersOk(u, B, {}, -1)
  <2>1. SameLinks(s, u)
    BY <1>8 DEF SameLinks
  <2> QED
    BY <1>2, <1>8, <2>1, TiersCarry
<1>19. Settled(u, now)
  BY <1>8, <1>13, <1>14, <1>16, <1>18 DEF Settled
<1> DEFINE n == Len(PointsOf(s, a))
<1>20. \A c \in Ship : PointsOf(u, c) = PointsOf(s, c)
  BY <1>8, <1>9, SameChains
<1>21. \A c \in Ship : TrackSays(s, c, Q[c]) /\ TrackSays(u, c, Q[c])
  BY <1>1, <1>8, <1>11, <1>13, TrackIs
<1>22. /\ tl \in Q[a] /\ \A c \in Ship \ {a} : tl \notin Q[c]
       /\ \A c \in Ship : Q[c] \subseteq PointRef
  <2>1. tl \in Q[a] /\ \A c \in Ship \ {a} : tl \notin Q[c]
    BY <1>1, <1>11, TrackEnds DEF tl
  <2>2. \A c \in Ship : Q[c] \subseteq PointRef
    BY <1>11 DEF LinkedTracks
  <2> QED
    BY <2>1, <2>2
<1>23. old # <<>> /\ PointsOf(s, a)[n] = tl /\ Last(old) = Span(s.pts[tl])
  <2>1. s.anchors[a].tail \in PointRef =>
          /\ TracksIn(s)[a] # <<>>
          /\ PointsOf(s, a)[Len(PointsOf(s, a))] = s.anchors[a].tail
          /\ Last(TracksIn(s)[a]) = Span(s.pts[s.anchors[a].tail])
    BY <1>1, <1>11, TrackIs
  <2> QED
    BY <2>1 DEF tl
<1>24. Last(old).end =< t /\ [Last(old) EXCEPT !.end = t] = Span(u.pts[tl])
  <2>1. tl \in PointRef /\ t >= End(s.pts[tl])
    BY DEF tl
  <2>2. u.pts[tl].time = s.pts[tl].time /\ u.pts[tl].dur = d
    BY <1>7, <1>8, <2>1
  <2>3. Last(old).end =< t
    BY <1>23, <2>1 DEF Span
  <2>4. [Last(old) EXCEPT !.end = t] = [time |-> s.pts[tl].time, end |-> t]
    BY <1>23 DEF Span
  <2> QED
    BY <1>6, <2>2, <2>3, <2>4 DEF Span, End
<1>25. \A r \in PointRef \ {tl} : Span(u.pts[r]) = Span(s.pts[r])
  BY <1>7, <1>8 DEF Span, End
<1>26. /\ old \in Seq(Spans) /\ new \in Seq(Spans) /\ Len(old) = n /\ Len(new) = n /\ n \in Nat /\ n # 0
       /\ \A i \in 1 .. n : i # n => new[i] = old[i]
       /\ new[n] = Span(u.pts[tl])
  <2>1. /\ old \in Seq(Spans) /\ new \in Seq(Spans) /\ Len(old) = n /\ Len(new) = n /\ n \in Nat
        /\ \A i \in 1 .. n : /\ PointsOf(s, a)[i] \in Q[a]
                              /\ old[i] = Span(s.pts[PointsOf(s, a)[i]])
                              /\ new[i] = Span(u.pts[PointsOf(s, a)[i]])
        /\ \A i, j \in 1 .. n : PointsOf(s, a)[i] = PointsOf(s, a)[j] => i = j
    BY <1>20, <1>21 DEF TrackSays
  <2> HIDE DEF old, new, n
  <2>2. n # 0 /\ n \in 1 .. n
    BY <1>23, <2>1
  <2>3. \A i \in 1 .. n : i # n => PointsOf(s, a)[i] \in PointRef \ {tl}
    BY <1>22, <1>23, <2>1, <2>2
  <2> QED
    BY <1>23, <1>25, <2>1, <2>2, <2>3
<1>27. new = Front(old) \o <<[Last(old) EXCEPT !.end = t]>>
  <2> HIDE DEF old, new, n
  <2>1. new = Front(old) \o <<new[Len(old)]>>
    BY <1>23, <1>26, LastChanged
  <2> QED
    BY <1>24, <1>26, <2>1
<1>28. ASSUME NEW c \in Ship \ {a}
       PROVE  TracksIn(u)[c] = TracksIn(s)[c]
  <2> DEFINE m == Len(PointsOf(s, c))
             x == TracksIn(s)[c]
             y == TracksIn(u)[c]
  <2>1. /\ x \in Seq(Spans) /\ y \in Seq(Spans) /\ Len(x) = m /\ Len(y) = m
        /\ \A i \in 1 .. m : /\ PointsOf(s, c)[i] \in Q[c]
                              /\ x[i] = Span(s.pts[PointsOf(s, c)[i]])
                              /\ y[i] = Span(u.pts[PointsOf(s, c)[i]])
    BY <1>20, <1>21 DEF TrackSays
  <2> HIDE DEF x, y, m
  <2>2. \A i \in 1 .. m : x[i] = y[i]
    BY <1>22, <1>25, <2>1
  <2>3. x = y
    BY <2>1, <2>2, SeqEqual
  <2> QED
    BY <2>3 DEF x, y
<1>29. TracksIn(u) = [TracksIn(s) EXCEPT ![a] = new]
  <2>1. \A v : TracksIn(v) = [c \in Ship |-> TracksIn(v)[c]]
    BY DEF TracksIn
  <2> QED
    BY <1>28, <2>1
<1>30. LongerBy(TracksIn(s), TracksIn(u), a, t)
  BY <1>23, <1>24, <1>27, <1>29 DEF LongerBy
<1> QED
  BY <1>19, <1>30

LEMMA HeadDropped ==
  ASSUME NEW till \in Limits, NEW s, Ready(s, till), NEW a \in Ship
  PROVE  Ready(dropHead(s, a), till)
<1> DEFINE r == s.anchors[a].head
           u == unlink(s, r)
<1>1. s \in Shape /\ PointsOk(s, {}, {}, till)
  BY DEF Ready
<1>2. PICK B : TiersOk(s, B, {}, -1)
  BY DEF Ready
<1>3. PICK Q, rq : LinkedTracks(s, Q, rq, {})
  BY <1>1 DEF PointsOk, TracksOk
<1>4. r \in AnyRef /\ (r \in PointRef => r \in Q[a])
  BY <1>1, <1>3, TrackEnds
<1>5. CASE isPoint(r)
  <2>1. r \in PointRef /\ r \in Q[a]
    BY <1>4, <1>5, AnyRefIs
  <2>2. LiveIn(s, r)
    BY <1>3, <2>1 DEF LinkedTracks
  <2>3. dropHead(s, a) = u
    BY <1>5 DEF dropHead
  <2> HIDE DEF r
  <2>4. Unlinked(s, u, r) /\ PointsOk(u, {}, {}, till)
    BY <1>1, <2>1, <2>2, PointsUnlinked
  <2> HIDE DEF u
  <2>5. u \in Shape /\ SameLinks(s, u) /\ \A c \in Block : u.blocks[c].count = s.blocks[c].count
    BY <2>4 DEF Unlinked
  <2>6. TiersOk(u, B, {}, -1)
    BY <1>2, <2>5, TiersCarry
  <2> QED
    BY <2>3, <2>4, <2>5, <2>6 DEF Ready
<1>6. CASE ~isPoint(r)
  BY <1>6 DEF dropHead
<1> QED
  BY <1>5, <1>6

(* What k steps of a ship's wiping leave: at most so many of its points,   *)
(* and the tracks of the others as they were.                              *)
WipedTo(s, u, Q, rq, a, k) ==
  \E A : /\ LinkedTracks(u, A, rq, {}) /\ Cardinality(A[a]) =< SHIP_BIT - k
         /\ \A c \in Ship \ {a} :
              /\ A[c] = Q[c] /\ u.anchors[c].head = s.anchors[c].head
              /\ \A y \in Q[c] : /\ u.pts[y].next = s.pts[y].next
                                 /\ u.pts[y].time = s.pts[y].time /\ u.pts[y].dur = s.pts[y].dur

LEMMA NoHeadNoPoints ==
  ASSUME NEW s, NEW Q, NEW rq, NEW X, LinkedTracks(s, Q, rq, X), NEW a \in Ship,
         s.anchors[a].head = Anchor(a)
  PROVE  Q[a] = {}
<1> DEFINE ps == PointsOf(s, a)
<1>1. Enumerates(ps, Q[a], nextPoint(s), prevPoint(s),
                 s.anchors[a].head, s.anchors[a].tail, Anchor(a))
  BY TrackEnumerated
<1> HIDE DEF ps
<1>2. /\ ps \in Seq(Q[a]) /\ (\A x \in Q[a] : \E i \in 1 .. Len(ps) : ps[i] = x)
      /\ Anchor(a) = IF Len(ps) = 0 THEN Anchor(a) ELSE ps[1]
  BY <1>1 DEF Enumerates
<1>3. Anchor(a) \notin Q[a]
  BY AnchorIs DEF LinkedTracks
<1>4. Len(ps) \in Nat /\ \A i \in 1 .. Len(ps) : ps[i] \in Q[a]
  BY <1>2, LenProperties
<1>5. Len(ps) = 0
  <2> SUFFICES ASSUME Len(ps) # 0
               PROVE  FALSE
    OBVIOUS
  <2>1. 1 \in 1 .. Len(ps)
    BY <1>4
  <2> QED
    BY <1>2, <1>3, <1>4, <2>1
<1> QED
  BY <1>2, <1>5

LEMMA HeadWiped ==
  ASSUME NEW s, NEW u \in Shape, NEW Q, NEW rq, NEW a \in Ship,
         NEW k \in Nat, k + 1 =< SHIP_BIT, WipedTo(s, u, Q, rq, a, k)
  PROVE  WipedTo(s, dropHead(u, a), Q, rq, a, k + 1)
<1> DEFINE r == u.anchors[a].head
           v == unlink(u, r)
<1>1. PICK A : /\ LinkedTracks(u, A, rq, {}) /\ Cardinality(A[a]) =< SHIP_BIT - k
               /\ \A c \in Ship \ {a} :
                    /\ A[c] = Q[c] /\ u.anchors[c].head = s.anchors[c].head
                    /\ \A y \in Q[c] : /\ u.pts[y].next = s.pts[y].next
                                       /\ u.pts[y].time = s.pts[y].time
                                       /\ u.pts[y].dur = s.pts[y].dur
  BY DEF WipedTo
<1>2. /\ A \in [Ship -> SUBSET PointRef]
      /\ \A c \in Ship : a # c => A[a] \cap A[c] = {}
  BY <1>1 DEF LinkedTracks
<1>3. r \in A[a] \cup {Anchor(a)} /\ r \in AnyRef /\ (r \in PointRef => r \in A[a])
  BY <1>1, TrackEnds
<1>4. SHIP_BIT \in Nat
  BY SizesTyped
<1>5. CASE isPoint(r)
  <2> DEFINE B == [A EXCEPT ![a] = A[a] \ {r}]
             p == u.pts[r]
  <2>1. r \in A[a]
    BY <1>3, <1>5, AnyRefIs
  <2>2. dropHead(u, a) = v
    BY <1>5 DEF dropHead
  <2> HIDE DEF r
  <2>3. Unlinked(u, v, r) /\ LinkedTracks(v, B, rq, {})
    BY <1>1, <2>1, TrackUnlinked
  <2> HIDE DEF v
  <2>4. Cardinality(B[a]) =< SHIP_BIT - (k + 1)
    <3>1. IsFiniteSet(A[a])
      BY <1>2, PointsFinite, FS_Subset
    <3>2. Cardinality(A[a] \ {r}) = Cardinality(A[a]) - 1 /\ Cardinality(A[a]) \in Nat
      BY <2>1, <3>1, FS_RemoveElement, FS_CardinalityType
    <3>3. B[a] = A[a] \ {r}
      BY <1>2
    <3> HIDE DEF B
    <3> QED
      BY <1>1, <1>4, <3>2, <3>3
  <2>5. ASSUME NEW c \in Ship \ {a}
        PROVE  /\ B[c] = Q[c] /\ v.anchors[c].head = s.anchors[c].head
               /\ \A y \in Q[c] : /\ v.pts[y].next = s.pts[y].next
                                  /\ v.pts[y].time = s.pts[y].time /\ v.pts[y].dur = s.pts[y].dur
    <3>1. B[c] = Q[c]
      BY <1>1, <1>2
    <3>2. p.prev \notin A[c] /\ p.prev # Anchor(c)
      BY <1>1, <2>1, Neighbours
    <3>3. v.anchors[c].head = u.anchors[c].head
      BY <2>3, <3>2 DEF Unlinked
    <3>4. \A y \in Q[c] : y \in PointRef \ {r} /\ y # p.prev
      BY <1>1, <1>2, <2>1, <3>2
    <3>5. \A y \in Q[c] : /\ v.pts[y].next = u.pts[y].next
                          /\ v.pts[y].time = u.pts[y].time /\ v.pts[y].dur = u.pts[y].dur
      BY <2>3, <3>4 DEF Unlinked
    <3> QED
      BY <1>1, <3>1, <3>3, <3>5
  <2> HIDE DEF B
  <2> QED
    BY <2>2, <2>3, <2>4, <2>5 DEF WipedTo
<1>6. CASE ~isPoint(r)
  <2>1. dropHead(u, a) = u
    BY <1>6 DEF dropHead
  <2>2. r \notin PointRef
    BY <1>3, <1>6, AnyRefIs
  <2>3. A[a] = {}
    BY <1>1, <1>2, <1>3, <2>2, NoHeadNoPoints
  <2>4. Cardinality(A[a]) =< SHIP_BIT - (k + 1)
    <3>1. Cardinality(A[a]) = 0
      BY <2>3, FS_EmptySet
    <3> QED
      BY <1>4, <3>1
  <2> QED
    BY <1>1, <2>1, <2>4 DEF WipedTo
<1> QED
  BY <1>5, <1>6

LEMMA WipedSettled ==
  ASSUME NEW now \in Nat, NEW s, Settled(s, now), NEW a \in Ship
  PROVE  LET u == Wiped(s, a)
         IN  Settled(u, now) /\ TracksIn(u) = [TracksIn(s) EXCEPT ![a] = <<>>]
<1> DEFINE u == Wiped(s, a)
           till == tight(s, now)
<1>1. PICK f : StepByStep(f, "wipe", s, a, SHIP_BIT) /\ u = f[SHIP_BIT]
  BY WipedByHead
<1>2. SHIP_BIT \in Nat
  BY SizesTyped
<1>3. s \in Shape
  BY DEF Settled
<1>4. PICK Q, rq : LinkedTracks(s, Q, rq, {})
  BY DEF Settled
<1>5. till \in Limits /\ Ready(s, till) /\ till.clock = now
  BY Tightened DEF tight
<1> HIDE DEF till, u
<1> DEFINE S == {k \in Nat : k =< SHIP_BIT => Ready(f[k], till) /\ WipedTo(s, f[k], Q, rq, a, k)}
<1>6. 0 \in S
  <2>1. f[0] = s
    BY <1>1 DEF StepByStep
  <2>2. Cardinality(Q[a]) =< SHIP_BIT - 0
    <3>1. IsFiniteSet(PointRef) /\ Cardinality(PointRef) = SHIP_BIT
      <4> DEFINE last == SHIP_BIT - 1
      <4>1. 0 \in Int /\ last \in Int /\ (IF 0 > last THEN 0 ELSE last - 0 + 1) = SHIP_BIT
        BY <1>2
      <4>2. PointRef = 0 .. last
        BY DEF PointRef
      <4> HIDE DEF last
      <4>3. IsFiniteSet(0 .. last) /\ Cardinality(0 .. last) = IF 0 > last THEN 0 ELSE last - 0 + 1
        BY <4>1, FS_Interval, Zenon
      <4> QED
        BY <4>1, <4>2, <4>3
    <3>2. Q[a] \in SUBSET PointRef
      BY <1>4 DEF LinkedTracks
    <3>3. Cardinality(Q[a]) =< Cardinality(PointRef)
      BY <3>1, <3>2, FS_Subset
    <3> QED
      BY <1>2, <3>1, <3>3
  <2>3. WipedTo(s, s, Q, rq, a, 0)
    BY <1>4, <2>2 DEF WipedTo
  <2> QED
    BY <1>5, <2>1, <2>3
<1>7. ASSUME NEW k \in Nat, k \in S
      PROVE  k + 1 \in S
  <2> SUFFICES ASSUME k + 1 =< SHIP_BIT
               PROVE  Ready(f[k + 1], till) /\ WipedTo(s, f[k + 1], Q, rq, a, k + 1)
    OBVIOUS
  <2>1. k \in 0 .. (SHIP_BIT - 1) /\ Ready(f[k], till) /\ WipedTo(s, f[k], Q, rq, a, k)
    BY <1>2, <1>7
  <2>2. f[k + 1] = dropHead(f[k], a)
    BY <1>1, <2>1 DEF StepByStep, repeatedStep
  <2>3. f[k] \in Shape
    BY <2>1 DEF Ready
  <2>4. Ready(dropHead(f[k], a), till)
    BY <1>5, <2>1, HeadDropped
  <2>5. WipedTo(s, dropHead(f[k], a), Q, rq, a, k + 1)
    BY <2>1, <2>3, HeadWiped
  <2> QED
    BY <2>2, <2>4, <2>5
<1> HIDE DEF S
<1>8. SHIP_BIT \in S
  BY <1>2, <1>6, <1>7, InductionOnNat
<1>9. Ready(u, till) /\ WipedTo(s, u, Q, rq, a, SHIP_BIT)
  BY <1>1, <1>2, <1>8 DEF S
<1>10. Settled(u, now)
  BY <1>5, <1>9 DEF Settled, Ready, PointsOk, TracksOk
<1>11. PICK A : /\ LinkedTracks(u, A, rq, {}) /\ Cardinality(A[a]) =< SHIP_BIT - SHIP_BIT
                /\ \A c \in Ship \ {a} :
                     /\ A[c] = Q[c] /\ u.anchors[c].head = s.anchors[c].head
                     /\ \A y \in Q[c] : /\ u.pts[y].next = s.pts[y].next
                                        /\ u.pts[y].time = s.pts[y].time
                                        /\ u.pts[y].dur = s.pts[y].dur
  BY <1>9 DEF WipedTo
<1>12. u \in Shape
  BY <1>9 DEF Ready
<1>13. A[a] = {}
  <2>1. IsFiniteSet(A[a])
    BY <1>11, PointsFinite, FS_Subset DEF LinkedTracks
  <2>2. Cardinality(A[a]) \in Nat
    BY <2>1, FS_CardinalityType
  <2>3. Cardinality(A[a]) = 0
    BY <1>2, <1>11, <2>2
  <2> QED
    BY <2>1, <2>3, FS_EmptySet
<1>14. TracksIn(u)[a] = <<>>
  <2>1. TrackSays(u, a, {})
    BY <1>11, <1>12, <1>13, TrackIs
  <2>2. /\ Len(PointsOf(u, a)) \in Nat /\ Len(TracksIn(u)[a]) = Len(PointsOf(u, a))
        /\ TracksIn(u)[a] \in Seq(Spans) /\ \A i \in 1 .. Len(PointsOf(u, a)) : FALSE
    BY <2>1 DEF TrackSays
  <2>3. Len(PointsOf(u, a)) = 0
    <3> DEFINE n == Len(PointsOf(u, a))
    <3>1. n \in Nat /\ \A i \in 1 .. n : FALSE
      BY <2>2
    <3> HIDE DEF n
    <3>2. n # 0 => 1 \in 1 .. n
      BY <3>1
    <3> QED
      BY <3>1, <3>2 DEF n
  <2> QED
    BY <2>2, <2>3
<1>15. ASSUME NEW c \in Ship \ {a}
       PROVE  TracksIn(u)[c] = TracksIn(s)[c]
  <2>1. Enumerates(PointsOf(s, c), Q[c], nextPoint(s), prevPoint(s),
                   s.anchors[c].head, s.anchors[c].tail, Anchor(c))
    BY <1>4, TrackEnumerated
  <2>2. Enumerates(PointsOf(u, c), Q[c], nextPoint(u), prevPoint(u),
                   s.anchors[c].head, u.anchors[c].tail, Anchor(c))
    BY <1>11, TrackEnumerated
  <2>3. Q[c] \subseteq PointRef /\ Anchor(c) \notin Q[c]
    BY <1>4, AnchorIs DEF LinkedTracks
  <2>4. \A x \in Q[c] : nextPoint(u)[x] = nextPoint(s)[x]
    BY <1>11, <2>3 DEF nextPoint
  <2>5. PointsOf(u, c) = PointsOf(s, c)
    BY <2>1, <2>2, <2>3, <2>4, EnumeratedOnce
  <2> DEFINE m == Len(PointsOf(s, c))
             x == TracksIn(s)[c]
             y == TracksIn(u)[c]
  <2>6. TrackSays(s, c, Q[c]) /\ TrackSays(u, c, Q[c])
    BY <1>3, <1>4, <1>11, <1>12, TrackIs
  <2>7. /\ x \in Seq(Spans) /\ y \in Seq(Spans) /\ Len(x) = m /\ Len(y) = m
        /\ \A i \in 1 .. m : /\ PointsOf(s, c)[i] \in Q[c]
                              /\ x[i] = Span(s.pts[PointsOf(s, c)[i]])
                              /\ y[i] = Span(u.pts[PointsOf(s, c)[i]])
    BY <2>5, <2>6 DEF TrackSays
  <2>8. \A r \in Q[c] : Span(u.pts[r]) = Span(s.pts[r])
    BY <1>11 DEF Span, End
  <2> HIDE DEF x, y, m
  <2>9. \A i \in 1 .. m : x[i] = y[i]
    BY <2>7, <2>8
  <2>10. x = y
    BY <2>7, <2>9, SeqEqual
  <2> QED
    BY <2>10 DEF x, y
<1>16. TracksIn(u) = [TracksIn(s) EXCEPT ![a] = <<>>]
  <2>1. \A v : TracksIn(v) = [c \in Ship |-> TracksIn(v)[c]]
    BY DEF TracksIn
  <2> QED
    BY <1>14, <1>15, <2>1
<1> QED
  BY <1>10, <1>16 DEF u

-----------------------------------------------------------------------------
(* The inductive invariant, and what its steps do to the tracks.           *)

SoundStore == clock \in 0 .. MaxTime /\ Settled(store, clock)

(* What a report starts from.                                              *)
LEMMA ReportTaken ==
  ASSUME SoundStore, NEW a \in Ship, NEW now \in Reports(a), NEW t, t = Clamped(a, now),
         clock' = IF now > clock THEN now ELSE clock
  PROVE  LET till == tight(store, clock)
         IN  /\ clock' \in 0 .. MaxTime /\ clock \in Nat /\ clock' \in Nat /\ t \in Nat
             /\ clock =< clock' /\ t =< clock'
             /\ HasPoints(store, a) <=> store.anchors[a].tail \in PointRef
             /\ HasPoints(store, a) => t >= End(Newest(a))
             /\ till \in Limits /\ Ready(store, till)
             /\ till.clock = clock /\ till.from = TracksIn(store) /\ till.ends[a] =< t
<1>1. clock \in 0 .. MaxTime /\ now \in 0 .. MaxTime /\ MaxTime \in Nat
  BY StoreSizes DEF SoundStore, Reports
<1>2. /\ clock' \in 0 .. MaxTime /\ clock' >= clock /\ now =< clock'
      /\ clock \in Nat /\ clock' \in Nat
  BY <1>1
<1>3. store \in Shape /\ Times(store, clock)
  BY DEF SoundStore, Settled
<1> DEFINE till == tight(store, clock)
<1>4. till \in Limits /\ Ready(store, till)
  BY <1>2, Tightened DEF SoundStore
<1>5. /\ till.clock = clock /\ till.from = TracksIn(store)
      /\ till.ends[a] = IF HasPoints(store, a) THEN End(Newest(a)) ELSE 0
  BY DEF tight, Newest
<1> HIDE DEF till
<1>7. HasPoints(store, a) <=> store.anchors[a].tail \in PointRef
  <2>1. store.anchors[a].tail \in AnyRef
    BY <1>3, ShapeFields DEF TrackShape
  <2> QED
    BY <2>1, AnyRefIs DEF HasPoints
<1>8. HasPoints(store, a) => End(Newest(a)) \in Nat /\ End(Newest(a)) =< clock
  <2>1. HasPoints(store, a) => Newest(a).time \in Nat /\ Newest(a).dur \in Nat
    BY <1>3, <1>7, ShapeFields DEF Newest, PointShape
  <2>2. HasPoints(store, a) => Newest(a).time + Newest(a).dur =< clock
    BY <1>3, <1>7 DEF Times, Newest
  <2> QED
    BY <2>1, <2>2 DEF End
<1>9. t \in Nat /\ t =< clock' /\ till.ends[a] =< t /\ (HasPoints(store, a) => t >= End(Newest(a)))
  BY <1>1, <1>2, <1>5, <1>8 DEF Clamped
<1> QED
  BY <1>2, <1>4, <1>5, <1>7, <1>9 DEF till

LEMMA SameEnds == \A x : T!Last(x) = Last(x) /\ T!Front(x) = Front(x)
  BY DEF T!Last, T!Front, Last, Front

(* A ship that has not moved: its newest point lasts until t.              *)
LEMMA ReportExtends ==
  ASSUME SoundStore, NEW a \in Ship, NEW now \in Reports(a), extend(a, now),
         clock' = IF now > clock THEN now ELSE clock
  PROVE  SoundStore' /\ T!Extended(TracksIn(store), TracksIn(store'), a)
<1> DEFINE t == Clamped(a, now)
           tl == store.anchors[a].tail
           u == extendedTo(store, a, t)
           old == TracksIn(store)
           new == TracksIn(u)
           e == [Last(old[a]) EXCEPT !.end = t]
<1>1. CanExtend(a, t) /\ store' = u
  BY DEF extend, Newest, extendedTo
<1>2. HasPoints(store, a) /\ t - store.pts[tl].time < DWELL_MAX
  BY <1>1 DEF CanExtend, Newest
<1>3. /\ clock' \in 0 .. MaxTime /\ clock \in Nat /\ clock' \in Nat /\ t \in Nat
      /\ clock =< clock' /\ t =< clock'
      /\ HasPoints(store, a) <=> tl \in PointRef
      /\ HasPoints(store, a) => t >= End(Newest(a))
  BY ReportTaken
<1>4. tl \in PointRef /\ t >= End(store.pts[tl])
  BY <1>2, <1>3 DEF Newest
<1>5. Settled(store, clock)
  BY DEF SoundStore
<1> HIDE DEF t
<1>6. Settled(u, clock') /\ LongerBy(old, new, a, t)
  <2> DEFINE s == store
             c0 == clock
             c == clock'
  <2>1. /\ c0 \in Nat /\ c \in Nat /\ t \in Nat /\ c0 =< c /\ t =< c /\ Settled(s, c0)
        /\ s.anchors[a].tail \in PointRef /\ t >= End(s.pts[s.anchors[a].tail])
        /\ t - s.pts[s.anchors[a].tail].time < DWELL_MAX
    BY <1>2, <1>3, <1>4, <1>5
  <2> HIDE DEF s, c0, c
  <2>2. Settled(extendedTo(s, a, t), c) /\ LongerBy(TracksIn(s), TracksIn(extendedTo(s, a, t)), a, t)
    BY <2>1, ExtendedSettled
  <2> QED
    BY <2>2 DEF s, c
<1>7. old \in [Ship -> Seq(Spans)]
  BY <1>5, TracksAreSpans DEF Settled
<1> HIDE DEF u, old, new
<1>16. /\ old[a] # <<>> /\ Last(old[a]).end =< t
       /\ new = [old EXCEPT ![a] = Front(old[a]) \o <<e>>]
  BY <1>6 DEF LongerBy
<1> HIDE DEF e
<1>8. SoundStore'
  BY <1>1, <1>3, <1>6 DEF SoundStore
<1>9. Last(old[a]) \in Spans /\ Front(old[a]) \in Seq(Spans)
  <2> DEFINE x == old[a]
             n == Len(x)
  <2>1. x \in Seq(Spans) /\ x # <<>>
    BY <1>7, <1>16
  <2> HIDE DEF x
  <2>2. n \in 1 .. n /\ n - 1 =< n /\ x[n] \in Spans
    BY <2>1
  <2>3. SubSeq(x, 1, n - 1) \in Seq(Spans)
    BY <2>1
  <2> QED
    BY <2>2, <2>3 DEF Last, Front, x
<1>10. e.end = t /\ e = [Last(old[a]) EXCEPT !.end = e.end] /\ e \in Spans
  BY <1>3, <1>9 DEF e, Spans
<1>11. new[a] # <<>> /\ Last(new[a]) = e
  <2> DEFINE w == Front(old[a])
             z == w \o <<e>>
  <2>1. w \in Seq(Spans)
    BY <1>9
  <2> HIDE DEF w
  <2>2. z # <<>> /\ z[Len(z)] = e
    BY <1>10, <2>1
  <2>3. new[a] = z
    BY <1>7, <1>16 DEF w
  <2> QED
    BY <2>2, <2>3 DEF Last
<1>12. Last(new[a]).end >= Last(old[a]).end
  BY <1>3, <1>9, <1>10, <1>11, <1>16 DEF Spans
<1>13. new = [old EXCEPT ![a] = Front(old[a]) \o <<[Last(old[a]) EXCEPT !.end = Last(new[a]).end]>>]
  BY <1>10, <1>11, <1>16
<1>14. T!Extended(old, new, a)
  BY <1>11, <1>12, <1>13, <1>16, SameEnds DEF T!Extended
<1> QED
  BY <1>1, <1>8, <1>14 DEF old, new

(* Any other report: a new point, and less of what there was.              *)
LEMMA ReportAppends ==
  ASSUME SoundStore, NEW a \in Ship, NEW now \in Reports(a), append(a, now),
         clock' = IF now > clock THEN now ELSE clock
  PROVE  SoundStore' /\ T!Reported(TracksIn(store), TracksIn(store'), a)
<1> DEFINE t == Clamped(a, now)
           g == RTBlock(t)
           u == Placed(g.store, g.block, a, t)
           till == tight(store, clock)
           old == TracksIn(store)
           new == TracksIn(u)
           e == [time |-> t, end |-> t]
           to == [old EXCEPT ![a] = Append(old[a], e)]
<1>1. store' = IF g.block = -1 THEN g.store ELSE u
  BY DEF append
<1>2. /\ clock' \in 0 .. MaxTime /\ clock \in Nat /\ clock' \in Nat /\ t \in Nat
      /\ clock =< clock' /\ t =< clock'
      /\ HasPoints(store, a) <=> store.anchors[a].tail \in PointRef
      /\ HasPoints(store, a) => t >= End(Newest(a))
      /\ till \in Limits /\ Ready(store, till)
      /\ till.clock = clock /\ till.from = old /\ till.ends[a] =< t
  BY ReportTaken
<1> HIDE DEF t, till
<1>3. RoomGot(g, till)
  BY <1>2, RTBlockIs
<1>4. store' = u
  BY <1>1, <1>3 DEF RoomGot
<1> HIDE DEF g
<1>17. Settled(u, clock') /\ PlacedAt(u, a, t, old)
  <2> DEFINE c == clock'
  <2>1. /\ till \in Limits /\ RoomGot(g, till) /\ t \in Nat /\ till.ends[a] =< t
        /\ c \in Nat /\ till.clock =< c /\ t =< c /\ till.from = old
    BY <1>2, <1>3
  <2> HIDE DEF c, old
  <2>2. Settled(u, c) /\ PlacedAt(u, a, t, till.from)
    BY <2>1, PlacedSettled
  <2> QED
    BY <2>1, <2>2 DEF c
<1> HIDE DEF u
<1>5. /\ Settled(u, clock')
      /\ u.anchors[a].tail \in PointRef /\ Span(u.pts[u.anchors[a].tail]) = e
      /\ TracksOk(u, {}, to)
  BY <1>17 DEF PlacedAt
<1>6. SoundStore'
  BY <1>2, <1>4, <1>5 DEF SoundStore
<1>7. old \in [Ship -> Seq(Spans)] /\ new \in [Ship -> Seq(Spans)]
  BY <1>5, TracksAreSpans DEF SoundStore, Settled
<1>8. e \in Spans
  BY <1>2 DEF Spans
<1>9. /\ to \in [Ship -> Seq(Spans)] /\ to[a] = Append(old[a], e)
      /\ \A x \in Ship \ {a} : to[x] = old[x]
  BY <1>7, <1>8
<1>10. \A x \in Ship : T!Thinned(new[x], to[x])
  <2> HIDE DEF to
  <2> QED
    BY <1>5, <1>9, ThinnedFrom DEF Settled
<1>11. new[a] # <<>> /\ Last(new[a]) = e
  BY <1>5, TrackIs DEF Settled
<1>12. old[a] # <<>> => t >= Last(old[a]).end
  <2>1. PICK Q, rq : LinkedTracks(store, Q, rq, {})
    BY DEF SoundStore, Settled
  <2>2. store \in Shape
    BY DEF SoundStore, Settled
  <2>3. old[a] # <<>> => HasPoints(store, a) /\ Last(old[a]) = Span(Newest(a))
    BY <1>2, <2>1, <2>2, TrackIs DEF Newest
  <2> QED
    BY <1>2, <2>3 DEF Span
<1>13. T!Thinned(Front(new[a]), old[a])
  BY <1>7, <1>8, <1>9, <1>10, <1>11, FrontThinned
<1>14. DOMAIN new = Ship
  BY <1>7
<1>15. e.time = t /\ e.end = t
  OBVIOUS
<1> HIDE DEF old, new, e, to
<1>16. T!Reported(old, new, a)
  BY <1>9, <1>10, <1>11, <1>12, <1>13, <1>14, <1>15, SameEnds DEF T!Reported
<1> QED
  BY <1>4, <1>6, <1>16 DEF old, new

LEMMA ShipWiped ==
  ASSUME SoundStore, NEW a \in Ship, wipe(a)
  PROVE  SoundStore' /\ T!Wiped(TracksIn(store), TracksIn(store'), a)
<1>1. store' = Wiped(store, a) /\ clock' = clock /\ clock \in Nat
  BY StoreSizes DEF wipe, SoundStore
<1>2. Settled(store', clock) /\ TracksIn(store') = [TracksIn(store) EXCEPT ![a] = <<>>]
  BY <1>1, WipedSettled DEF SoundStore
<1> QED
  BY <1>1, <1>2 DEF SoundStore, T!Wiped

LEMMA StoreSteps ==
  ASSUME SoundStore, Next
  PROVE  SoundStore' /\ T!Step(TracksIn(store), TracksIn(store'))
<1>1. PICK a \in Ship : Add(a) \/ wipe(a)
  BY DEF Next
<1>2. CASE Add(a)
  <2>1. PICK now \in Reports(a) : /\ extend(a, now) \/ append(a, now)
                                  /\ clock' = IF now > clock THEN now ELSE clock
    BY <1>2 DEF Add
  <2>2. CASE extend(a, now)
    BY <2>1, <2>2, ReportExtends DEF T!Step
  <2>3. CASE append(a, now)
    BY <2>1, <2>3, ReportAppends DEF T!Step
  <2> QED
    BY <2>1, <2>2, <2>3
<1>3. CASE wipe(a)
  BY <1>3, ShipWiped DEF T!Step
<1> QED
  BY <1>1, <1>2, <1>3

LEMMA StoreKeptSound == SoundStore /\ [Next]_vars => SoundStore'
<1>1. SoundStore /\ Next => SoundStore'
  BY StoreSteps
<1>2. SoundStore /\ UNCHANGED vars => SoundStore'
  BY DEF SoundStore, vars
<1> QED
  BY <1>1, <1>2

LEMMA StoreBornSound == Init => SoundStore
<1> SUFFICES ASSUME Init
             PROVE  SoundStore
  OBVIOUS
<1> DEFINE B == [t \in Tier |-> {}]
           Q == [a \in Ship |-> {}]
           rb == [b \in Block |-> 0]
           rq == [r \in PointRef |-> 0]
<1>1. /\ store.pts = [r \in PointRef |-> Blank]
      /\ store.blocks = [b \in Block |-> [prev |-> -1, next |-> -1, count |-> 0, live |-> 0]]
      /\ store.size = 0
      /\ store.anchors = [a \in Ship |-> [head |-> Anchor(a), tail |-> Anchor(a)]]
      /\ store.lists = [t \in Tier |-> [head |-> -1, tail |-> -1]]
      /\ clock = 0
  BY DEF Init
<1>2. store \in Shape
  <2>1. Blank \in PointShape /\ \A a \in Ship : Anchor(a) \in AnyRef
    BY AnchorIs DEF Blank, PointShape
  <2>2. [prev |-> -1, next |-> -1, count |-> 0, live |-> 0] \in BlockShape
    BY SizesTyped DEF BlockShape
  <2>3. store.pts \in [PointRef -> PointShape] /\ store.blocks \in [Block -> BlockShape]
    BY <1>1, <2>1, <2>2
  <2>4. store.anchors \in [Ship -> TrackShape] /\ store.lists \in [Tier -> EndsShape]
    BY <1>1, <2>1 DEF TrackShape, EndsShape
  <2>5. store.size \in 0 .. block_cap
    BY <1>1, SizesTyped
  <2>6. store = [pts |-> store.pts, blocks |-> store.blocks, size |-> store.size,
                 anchors |-> store.anchors, lists |-> store.lists]
    BY DEF Init
  <2> QED
    BY <2>3, <2>4, <2>5, <2>6 DEF Shape
<1>4. LinkedTiers(store, B, rb, {})
  <2>1. ASSUME NEW t \in Tier
        PROVE  Linked({}, nextBlock(store), prevBlock(store),
                      store.lists[t].head, store.lists[t].tail, -1, rb)
    BY <1>1 DEF Linked
  <2>2. \A c \in Block : ~(c < store.size)
    BY <1>1, SizesTyped DEF Block
  <2>3. B \in [Tier -> SUBSET Block] /\ rb \in [Block -> Nat]
    OBVIOUS
  <2>4. \A t \in Tier : B[t] = {}
    OBVIOUS
  <2> HIDE DEF B, rb
  <2> QED
    BY <2>1, <2>2, <2>3, <2>4 DEF LinkedTiers
<1>5. Filled(store, B, -1)
  BY <1>1 DEF Filled, Tier
<1>6. LinkedTracks(store, Q, rq, {})
  <2>1. ASSUME NEW a \in Ship
        PROVE  /\ Linked({}, nextPoint(store), prevPoint(store),
                      store.anchors[a].head, store.anchors[a].tail, Anchor(a), rq)
               /\ InOrder(store, {})
    BY <1>1 DEF Linked, InOrder
  <2>2. \A r \in PointRef : ~LiveIn(store, r)
    BY <1>1 DEF LiveIn, Blank
  <2>3. Q \in [Ship -> SUBSET PointRef] /\ rq \in [PointRef -> Nat]
    OBVIOUS
  <2>4. \A a \in Ship : Q[a] = {}
    OBVIOUS
  <2> HIDE DEF Q, rq
  <2> QED
    BY <2>1, <2>2, <2>3, <2>4 DEF LinkedTracks
<1>7. LiveOk(store, {})
  <2>1. \A b \in Block : livePoints(store, b) = {}
    BY <1>1 DEF livePoints, LiveIn, Blank
  <2>2. Cardinality({}) = 0
    BY FS_EmptySet
  <2>3. \A b \in Block : store.blocks[b].live = 0
    BY <1>1
  <2> QED
    BY <2>1, <2>2, <2>3, Zenon DEF LiveOk
<1>8. Times(store, clock)
  BY <1>1, StoreSizes DEF Times, Blank
<1>9. clock \in 0 .. MaxTime
  BY <1>1, StoreSizes
<1> HIDE DEF B, Q, rb, rq
<1>10. Settled(store, clock)
  BY <1>2, <1>4, <1>5, <1>6, <1>7, <1>8 DEF Settled, TiersOk
<1> QED
  BY <1>9, <1>10 DEF SoundStore


LEMMA TracksBorn == Init => T!Init
<1> SUFFICES ASSUME Init
             PROVE  TracksIn(store) = [a \in Ship |-> <<>>]
  BY DEF T!Init
<1>1. ASSUME NEW a \in Ship
      PROVE  TracksIn(store)[a] = <<>>
  <2>1. store.anchors[a].tail \notin PointRef
    BY AnchorIs DEF Init
  <2> QED
    BY <2>1, StoreBornSound, TrackIs DEF SoundStore, Settled
<1>2. TracksIn(store) = [a \in Ship |-> TracksIn(store)[a]]
  BY DEF TracksIn
<1> QED
  BY <1>1, <1>2

-----------------------------------------------------------------------------
(* From the invariant to what check() looks for.                           *)

(* Two lists without a common node, one after the other.                   *)
LEMMA JoinedLists ==
  ASSUME NEW S, NEW a \in Seq(S), NEW b \in Seq(S), NoRepeats(a), NoRepeats(b),
         ToSet(a) \cap ToSet(b) = {}
  PROVE  /\ a \o b \in Seq(S) /\ NoRepeats(a \o b)
         /\ ToSet(a \o b) = ToSet(a) \cup ToSet(b)
<1> DEFINE c == a \o b
<1>1. /\ c \in Seq(S) /\ Len(c) = Len(a) + Len(b) /\ Len(a) \in Nat /\ Len(b) \in Nat
      /\ \A i \in 1 .. Len(c) : c[i] = IF i =< Len(a) THEN a[i] ELSE b[i - Len(a)]
  BY ConcatProperties, LenProperties
<1>2. /\ ToSet(a) = {a[i] : i \in 1 .. Len(a)} /\ ToSet(b) = {b[i] : i \in 1 .. Len(b)}
      /\ ToSet(c) = {c[i] : i \in 1 .. Len(c)}
  BY <1>1 DEF ToSet
<1> HIDE DEF c
<1>3. \A i \in 1 .. Len(a) : i \in 1 .. Len(c) /\ c[i] = a[i]
  BY <1>1
<1>4. ASSUME NEW i \in 1 .. Len(b)
      PROVE  i + Len(a) \in 1 .. Len(c) /\ c[i + Len(a)] = b[i]
  <2> DEFINE j == i + Len(a)
  <2>1. j \in 1 .. Len(c) /\ ~(j =< Len(a)) /\ j - Len(a) = i
    BY <1>1
  <2> HIDE DEF j
  <2> QED
    BY <1>1, <2>1 DEF j
<1>5. \A i \in 1 .. Len(c) : IF i =< Len(a) THEN i \in 1 .. Len(a) /\ c[i] = a[i]
                             ELSE i - Len(a) \in 1 .. Len(b) /\ c[i] = b[i - Len(a)]
  BY <1>1
<1>6. ToSet(c) = ToSet(a) \cup ToSet(b)
  <2>1. ASSUME NEW x \in ToSet(a) \cup ToSet(b)
        PROVE  x \in ToSet(c)
    BY <1>2, <1>3, <1>4
  <2>2. ASSUME NEW x \in ToSet(c)
        PROVE  x \in ToSet(a) \cup ToSet(b)
    BY <1>2, <1>5
  <2> QED
    BY <2>1, <2>2
<1>7. NoRepeats(c)
  <2> SUFFICES ASSUME NEW i \in 1 .. Len(c), NEW j \in 1 .. Len(c), c[i] = c[j]
               PROVE  i = j
    BY DEF NoRepeats
  <2>1. CASE i =< Len(a) /\ j =< Len(a)
    BY <1>5, <2>1 DEF NoRepeats
  <2>2. CASE i > Len(a) /\ j > Len(a)
    <3> DEFINE k == i - Len(a)
               l == j - Len(a)
    <3>1. k \in 1 .. Len(b) /\ l \in 1 .. Len(b) /\ c[i] = b[k] /\ c[j] = b[l]
      BY <1>1, <1>5, <2>2
    <3>2. k = l => i = j
      BY <1>1
    <3> HIDE DEF k, l
    <3> QED
      BY <3>1, <3>2 DEF NoRepeats
  <2>3. CASE i =< Len(a) /\ j > Len(a)
    <3> DEFINE l == j - Len(a)
    <3>1. i \in 1 .. Len(a) /\ l \in 1 .. Len(b) /\ c[i] = a[i] /\ c[j] = b[l]
      BY <1>1, <1>5, <2>3
    <3> HIDE DEF l
    <3>2. a[i] \in ToSet(a) /\ b[l] \in ToSet(b)
      BY <1>2, <3>1
    <3> QED
      BY <3>1, <3>2
  <2>4. CASE i > Len(a) /\ j =< Len(a)
    <3> DEFINE k == i - Len(a)
    <3>1. j \in 1 .. Len(a) /\ k \in 1 .. Len(b) /\ c[j] = a[j] /\ c[i] = b[k]
      BY <1>1, <1>5, <2>4
    <3> HIDE DEF k
    <3>2. a[j] \in ToSet(a) /\ b[k] \in ToSet(b)
      BY <1>2, <3>1
    <3> QED
      BY <3>1, <3>2
  <2> QED
    BY <1>1, <2>1, <2>2, <2>3, <2>4
<1> QED
  BY <1>1, <1>6, <1>7 DEF c

LEMMA StoreTyped ==
  ASSUME SoundStore
  PROVE  TypeOK
<1>2. /\ clock \in 0 .. MaxTime /\ MaxTime \in Nat
      /\ store \in Shape /\ Times(store, clock) /\ LiveOk(store, {})
  BY StoreSizes DEF SoundStore, Settled
<1> DEFINE P == [time : 0 .. MaxTime, dur : 0 .. (DWELL_MAX - 1),
                 prev : AnyRef \cup {NIL}, next : AnyRef \cup {NIL}]
           L == [prev : Block \cup {-1}, next : Block \cup {-1},
                 count : 0 .. BLOCK_SIZE, live : 0 .. BLOCK_SIZE]
<1>3. store.pts \in [PointRef -> P]
  <2>1. store.pts \in [PointRef -> PointShape]
    BY <1>2, ShapeFields
  <2>2. ASSUME NEW r \in PointRef
        PROVE  store.pts[r] \in P
    <3>1. store.pts[r] \in PointShape
      BY <2>1
    <3>2. store.pts[r].time \in Nat /\ store.pts[r].dur \in Nat
      BY <3>1 DEF PointShape
    <3>3. /\ store.pts[r].dur \in 0 .. (DWELL_MAX - 1)
          /\ store.pts[r].time + store.pts[r].dur =< clock
      BY <1>2 DEF Times
    <3>4. store.pts[r].time \in 0 .. MaxTime
      BY <1>2, <3>2, <3>3
    <3> QED
      BY <3>1, <3>3, <3>4 DEF PointShape
  <2> QED
    BY <2>1, <2>2
<1>4. store.blocks \in [Block -> L]
  <2>1. store.blocks \in [Block -> BlockShape]
    BY <1>2, ShapeFields
  <2>2. ASSUME NEW b \in Block
        PROVE  store.blocks[b] \in L
    <3> DEFINE first == b * BLOCK_SIZE
               last == b * BLOCK_SIZE + (BLOCK_SIZE - 1)
               M == first .. last
               V == livePoints(store, b)
    <3>1. store.blocks[b].live = Cardinality(V)
      BY <1>2 DEF LiveOk
    <3>2. b * BLOCK_SIZE \in Int
      BY SizesTyped DEF Block
    <3>3. V \subseteq M
      <4> SUFFICES ASSUME NEW r \in PointRef, blockOf(r) = b
                   PROVE  r \in M
        BY DEF livePoints
      <4>1. slotOf(r) \in 0 .. (BLOCK_SIZE - 1) /\ r = b * BLOCK_SIZE + slotOf(r)
        BY PointRefIs DEF Ref
      <4> QED
        BY <3>2, <4>1, SizesTyped
    <3>4. IsFiniteSet(M) /\ Cardinality(M) = BLOCK_SIZE
      <4>1. first \in Int /\ last \in Int /\ ~(first > last) /\ last - first + 1 = BLOCK_SIZE
        BY <3>2, SizesTyped
      <4> HIDE DEF first, last
      <4>2. /\ IsFiniteSet(M)
            /\ Cardinality(M) = IF first > last THEN 0 ELSE last - first + 1
        BY <4>1, FS_Interval, Zenon
      <4> QED
        BY <4>1, <4>2
    <3> HIDE DEF M, V
    <3>5. Cardinality(V) =< Cardinality(M) /\ IsFiniteSet(V)
      BY <3>3, <3>4, FS_Subset
    <3>6. Cardinality(V) \in Nat
      BY <3>5, FS_CardinalityType
    <3>7. store.blocks[b].live \in 0 .. BLOCK_SIZE
      BY <3>1, <3>4, <3>5, <3>6, SizesTyped
    <3> QED
      BY <2>1, <3>7 DEF BlockShape
  <2> QED
    BY <2>1, <2>2
<1>5. /\ store.size \in 0 .. block_cap /\ store.anchors \in [Ship -> TrackShape]
      /\ store.lists \in [Tier -> EndsShape]
  BY <1>2, ShapeFields
<1>6. store = [pts |-> store.pts, blocks |-> store.blocks, size |-> store.size,
               anchors |-> store.anchors, lists |-> store.lists]
  BY <1>2 DEF Shape
<1> QED
  BY <1>2, <1>3, <1>4, <1>5, <1>6 DEF TypeOK, Store, TrackShape, EndsShape

LEMMA TierListed ==
  ASSUME SoundStore
  PROVE  \E B : /\ B \in [Tier -> SUBSET Block] /\ Filled(store, B, -1)
                /\ \A t \in Tier, v \in Tier : t # v => B[t] \cap B[v] = {}
                /\ \A c \in Block : c < store.size <=> \E t \in Tier : c \in B[t]
                /\ \A t \in Tier : Enumerates(BlocksOf(t), B[t], nextBlock(store),
                      prevBlock(store), store.lists[t].head, store.lists[t].tail, -1)
<1>2. PICK B, rb : LinkedTiers(store, B, rb, {}) /\ Filled(store, B, -1)
  BY DEF SoundStore, Settled, TiersOk
<1>3. ASSUME NEW t \in Tier
      PROVE  Enumerates(BlocksOf(t), B[t], nextBlock(store),
                        prevBlock(store), store.lists[t].head, store.lists[t].tail, -1)
  <2>1. /\ block_cap \in Nat /\ B[t] \in SUBSET (0 .. (block_cap - 1))
        /\ rb \in [0 .. (block_cap - 1) -> Nat] /\ -1 \in Int /\ -1 \notin 0 .. (block_cap - 1)
    BY <1>2, SizesTyped DEF LinkedTiers, Block
  <2>2. DOMAIN nextBlock(store) = 0 .. (block_cap - 1)
    BY DEF nextBlock, Block
  <2>3. Linked(B[t], nextBlock(store), prevBlock(store),
               store.lists[t].head, store.lists[t].tail, -1, rb)
    BY <1>2 DEF LinkedTiers
  <2>4. BlocksOf(t) = Chain(store.lists[t].head, nextBlock(store), block_cap + 1)
    BY DEF BlocksOf, nextBlock
  <2> DEFINE nx == nextBlock(store)
             h == store.lists[t].head
             bs == Chain(h, nx, block_cap + 1)
  <2>5. Enumerates(bs, B[t], nx, prevBlock(store), h, store.lists[t].tail, -1)
    <3> HIDE DEF nx, h
    <3> QED
      BY <2>1, <2>2, <2>3, ListEnumerated DEF nx, h
  <2> QED
    BY <2>4, <2>5
<1>4. /\ B \in [Tier -> SUBSET Block]
      /\ \A t \in Tier, v \in Tier : t # v => B[t] \cap B[v] = {}
      /\ \A c \in Block : c < store.size <=> \E t \in Tier : c \in B[t]
  BY <1>2 DEF LinkedTiers
<1> QED
  BY <1>2, <1>3, <1>4

LEMMA TiersAreSound ==
  ASSUME SoundStore
  PROVE  TiersSound
<1>1. PICK B : /\ B \in [Tier -> SUBSET Block] /\ Filled(store, B, -1)
               /\ \A t \in Tier, v \in Tier : t # v => B[t] \cap B[v] = {}
               /\ \A c \in Block : c < store.size <=> \E t \in Tier : c \in B[t]
               /\ \A t \in Tier : Enumerates(BlocksOf(t), B[t], nextBlock(store),
                      prevBlock(store), store.lists[t].head, store.lists[t].tail, -1)
  BY TierListed
<1>2. store \in Shape /\ store.size \in 0 .. block_cap
  BY ShapeFields DEF SoundStore, Settled
<1>3. ASSUME NEW t \in Tier
      PROVE  LET bs == BlocksOf(t)
             IN  /\ store.lists[t].tail = IF bs = <<>> THEN -1 ELSE Last(bs)
                 /\ \A i \in DOMAIN bs :
                      /\ store.blocks[bs[i]].prev = IF i = 1 THEN -1 ELSE bs[i - 1]
                      /\ t # "FREE" => store.blocks[bs[i]].count > 0
  <2> DEFINE bs == BlocksOf(t)
  <2>1. Enumerates(bs, B[t], nextBlock(store), prevBlock(store),
                   store.lists[t].head, store.lists[t].tail, -1)
    BY <1>1
  <2> HIDE DEF bs
  <2>2. /\ bs \in Seq(B[t])
        /\ store.lists[t].tail = IF Len(bs) = 0 THEN -1 ELSE bs[Len(bs)]
        /\ \A i \in 1 .. Len(bs) : prevBlock(store)[bs[i]] = IF i = 1 THEN -1 ELSE bs[i - 1]
    BY <2>1 DEF Enumerates
  <2>3. /\ DOMAIN bs = 1 .. Len(bs) /\ (bs = <<>> <=> Len(bs) = 0)
        /\ \A i \in 1 .. Len(bs) : bs[i] \in B[t] /\ bs[i] \in Block
    BY <1>1, <2>2, LenProperties
  <2>4. store.lists[t].tail = IF bs = <<>> THEN -1 ELSE Last(bs)
    BY <2>2, <2>3 DEF Last
  <2>5. ASSUME NEW i \in DOMAIN bs
        PROVE  /\ store.blocks[bs[i]].prev = IF i = 1 THEN -1 ELSE bs[i - 1]
               /\ t # "FREE" => store.blocks[bs[i]].count > 0
    <3>1. bs[i] \in B[t] /\ bs[i] \in Block /\ i \in 1 .. Len(bs)
      BY <2>3
    <3>2. store.blocks[bs[i]].prev = prevBlock(store)[bs[i]]
      BY <3>1 DEF prevBlock
    <3>3. bs[i] # -1
      BY <3>1, SizesTyped DEF Block
    <3>4. t # "FREE" => store.blocks[bs[i]].count > 0
      BY <1>1, <3>1, <3>3 DEF Filled, Tier
    <3> QED
      BY <2>2, <3>1, <3>2, <3>4
  <2> QED
    BY <2>4, <2>5 DEF bs
<1>4. LET all == BlocksOf("RT") \o BlocksOf("HIST") \o BlocksOf("FREE")
      IN  Len(all) = store.size /\ ToSet(all) = 0 .. (store.size - 1)
  <2> DEFINE rt == BlocksOf("RT")
             hist == BlocksOf("HIST")
             free == BlocksOf("FREE")
             all == (rt \o hist) \o free
  <2>1. /\ rt \in Seq(B["RT"]) /\ NoRepeats(rt) /\ ToSet(rt) = B["RT"]
        /\ hist \in Seq(B["HIST"]) /\ NoRepeats(hist) /\ ToSet(hist) = B["HIST"]
        /\ free \in Seq(B["FREE"]) /\ NoRepeats(free) /\ ToSet(free) = B["FREE"]
    BY <1>1, EnumeratedSet DEF Tier
  <2> HIDE DEF rt, hist, free
  <2>2. /\ B["RT"] \subseteq Block /\ B["HIST"] \subseteq Block /\ B["FREE"] \subseteq Block
        /\ B["RT"] \cap B["HIST"] = {} /\ B["RT"] \cap B["FREE"] = {}
        /\ B["HIST"] \cap B["FREE"] = {}
    BY <1>1 DEF Tier
  <2>3. rt \in Seq(Block) /\ hist \in Seq(Block) /\ free \in Seq(Block)
    BY <2>1, <2>2
  <2>4. /\ rt \o hist \in Seq(Block) /\ NoRepeats(rt \o hist)
        /\ ToSet(rt \o hist) = B["RT"] \cup B["HIST"]
    BY <2>1, <2>2, <2>3, JoinedLists
  <2>5. /\ all \in Seq(Block) /\ NoRepeats(all)
        /\ ToSet(all) = B["RT"] \cup B["HIST"] \cup B["FREE"]
    <3> DEFINE used == rt \o hist
    <3>1. used \in Seq(Block) /\ NoRepeats(used) /\ ToSet(used) = B["RT"] \cup B["HIST"]
      BY <2>4
    <3> HIDE DEF used
    <3>2. ToSet(used) \cap ToSet(free) = {}
      BY <2>1, <2>2, <3>1
    <3>3. /\ used \o free \in Seq(Block) /\ NoRepeats(used \o free)
          /\ ToSet(used \o free) = ToSet(used) \cup ToSet(free)
      BY <2>1, <2>3, <3>1, <3>2, JoinedLists
    <3> QED
      BY <2>1, <3>1, <3>3 DEF used
  <2> HIDE DEF all
  <2>6. ToSet(all) = {c \in Block : c < store.size}
    BY <1>1, <2>2, <2>5 DEF Tier
  <2>7. ToSet(all) = 0 .. (store.size - 1)
    BY <1>2, <2>6, SizesTyped DEF Block
  <2>8. Len(all) = Cardinality(0 .. (store.size - 1))
    BY <2>5, <2>7, LengthIsCardinality
  <2>9. Cardinality(0 .. (store.size - 1)) = store.size
    <3>1. 0 \in Int /\ store.size - 1 \in Int /\ store.size \in Nat
      BY <1>2, SizesTyped
    <3>2. Cardinality(0 .. (store.size - 1)) =
            IF 0 > store.size - 1 THEN 0 ELSE store.size - 1 - 0 + 1
      BY <3>1, FS_Interval, Zenon
    <3> QED
      BY <3>1, <3>2
  <2> QED
    BY <2>7, <2>8, <2>9 DEF all, rt, hist, free
<1> QED
  BY <1>3, <1>4 DEF TiersSound

LEMMA ChainsAreSound ==
  ASSUME SoundStore
  PROVE  ChainsSound
<1>0. PICK Q, rq : LinkedTracks(store, Q, rq, {})
  BY DEF SoundStore, Settled
<1>1. /\ Q \in [Ship -> SUBSET PointRef]
      /\ \A a \in Ship : InOrder(store, Q[a])
      /\ \A r \in PointRef : (\E a \in Ship : r \in Q[a]) <=> LiveIn(store, r)
      /\ \A a \in Ship : Enumerates(PointsOf(store, a), Q[a], nextPoint(store), prevPoint(store),
            store.anchors[a].head, store.anchors[a].tail, Anchor(a))
  <2>1. \A a \in Ship : Enumerates(PointsOf(store, a), Q[a], nextPoint(store), prevPoint(store),
          store.anchors[a].head, store.anchors[a].tail, Anchor(a))
    BY <1>0, TrackEnumerated
  <2> QED
    BY <1>0, <2>1 DEF LinkedTracks
<1> DEFINE points == [ship \in Ship |-> PointsOf(store, ship)]
           live == {r \in PointRef : LivePoint(r)}
<1>2. \A r \in PointRef : LivePoint(r) <=> LiveIn(store, r)
  BY DEF LivePoint, LiveIn
<1>3. \A a \in Ship : points[a] = PointsOf(store, a)
  OBVIOUS
<1>4. live = UNION {ToSet(points[ship]) : ship \in Ship}
  <2>1. \A a \in Ship : ToSet(points[a]) = Q[a] /\ Q[a] \subseteq PointRef
    BY <1>1, <1>3, EnumeratedSet
  <2> HIDE DEF points
  <2> QED
    BY <1>1, <1>2, <2>1
<1>5. ASSUME NEW ship \in Ship
      PROVE  LET ps == points[ship]
             IN  /\ Anchor(ship) = IF ps = <<>> THEN store.anchors[ship].head
                                               ELSE store.pts[Last(ps)].next
                 /\ store.anchors[ship].tail = IF ps = <<>> THEN Anchor(ship) ELSE Last(ps)
                 /\ \A i \in DOMAIN ps :
                      /\ store.pts[ps[i]].prev = IF i = 1 THEN Anchor(ship) ELSE ps[i - 1]
                      /\ i > 1 => store.pts[ps[i]].time >= End(store.pts[ps[i - 1]])
  <2> DEFINE ps == points[ship]
  <2>1. Enumerates(ps, Q[ship], nextPoint(store), prevPoint(store),
                   store.anchors[ship].head, store.anchors[ship].tail, Anchor(ship))
    BY <1>1, <1>3
  <2> HIDE DEF ps, points
  <2>2. /\ ps \in Seq(Q[ship])
        /\ store.anchors[ship].head = IF Len(ps) = 0 THEN Anchor(ship) ELSE ps[1]
        /\ store.anchors[ship].tail = IF Len(ps) = 0 THEN Anchor(ship) ELSE ps[Len(ps)]
        /\ \A i \in 1 .. Len(ps) :
             /\ nextPoint(store)[ps[i]] = IF i = Len(ps) THEN Anchor(ship) ELSE ps[i + 1]
             /\ prevPoint(store)[ps[i]] = IF i = 1 THEN Anchor(ship) ELSE ps[i - 1]
    BY <2>1 DEF Enumerates
  <2>3. /\ DOMAIN ps = 1 .. Len(ps) /\ (ps = <<>> <=> Len(ps) = 0) /\ Len(ps) \in Nat
        /\ \A i \in 1 .. Len(ps) : ps[i] \in Q[ship] /\ ps[i] \in PointRef
    BY <1>1, <2>2, LenProperties
  <2>4. \A i \in 1 .. Len(ps) :
             /\ store.pts[ps[i]].next = IF i = Len(ps) THEN Anchor(ship) ELSE ps[i + 1]
             /\ store.pts[ps[i]].prev = IF i = 1 THEN Anchor(ship) ELSE ps[i - 1]
    BY <2>2, <2>3 DEF nextPoint, prevPoint
  <2>5. Anchor(ship) = IF ps = <<>> THEN store.anchors[ship].head ELSE store.pts[Last(ps)].next
    <3>1. ps # <<>> => Len(ps) \in 1 .. Len(ps)
      BY <2>3
    <3> QED
      BY <2>2, <2>3, <2>4, <3>1 DEF Last
  <2>6. store.anchors[ship].tail = IF ps = <<>> THEN Anchor(ship) ELSE Last(ps)
    BY <2>2, <2>3 DEF Last
  <2>7. ASSUME NEW i \in DOMAIN ps, i > 1
        PROVE  store.pts[ps[i]].time >= End(store.pts[ps[i - 1]])
    <3> DEFINE j == i - 1
    <3>1. j \in 1 .. Len(ps) /\ j # Len(ps) /\ j + 1 = i /\ i \in 1 .. Len(ps)
      BY <2>3, <2>7
    <3> HIDE DEF j
    <3>2. store.pts[ps[j]].next = ps[i]
      BY <2>4, <3>1
    <3>3. ps[j] \in Q[ship] /\ store.pts[ps[j]].next \in Q[ship]
      BY <2>3, <3>1, <3>2
    <3>4. store.pts[store.pts[ps[j]].next].time >= End(store.pts[ps[j]])
      BY <1>1, <3>3 DEF InOrder
    <3> QED
      BY <3>2, <3>4 DEF j
  <2> QED
    BY <2>3, <2>4, <2>5, <2>6, <2>7 DEF ps
<1>6. ASSUME NEW b \in Block
      PROVE  store.blocks[b].live = Cardinality({r \in live : blockOf(r) = b})
  <2>1. {r \in live : blockOf(r) = b} = livePoints(store, b)
    BY <1>2 DEF livePoints
  <2>2. store.blocks[b].live = Cardinality(livePoints(store, b))
    BY DEF SoundStore, Settled, LiveOk
  <2> QED
    BY <2>1, <2>2
<1> QED
  BY <1>4, <1>5, <1>6 DEF ChainsSound

(* Whatever is reported, compacted, overwritten and wiped, in any order:   *)
(* the tiers partition the blocks that exist and are linked both ways, a   *)
(* block in use has points, every live point is on the chain of exactly    *)
(* one ship, the chains are linked both ways and ordered in time, and the  *)
(* counts of live points are right.  PathStore::check() (PathStore.h:405)  *)
(* finds nothing.                                                          *)
THEOREM TracksIntact == Spec => []CheckClean
<1>1. Spec => []SoundStore
  BY StoreBornSound, StoreKeptSound, PTL DEF Spec
<1>2. SoundStore => CheckClean
  BY StoreTyped, TiersAreSound, ChainsAreSound DEF CheckClean
<1> QED
  BY <1>1, <1>2, PTL

(* Compaction, overwriting and wiping do to the tracks what Tracks says    *)
(* and nothing else: a report extends a ship's newest point or becomes it, *)
(* a track is what was reported of its ship with points left out, in their *)
(* order, and no report is refused.                                        *)
THEOREM StoreKeepsTracks == Spec => RefinesTracks
<1>1. Spec => []SoundStore
  BY StoreBornSound, StoreKeptSound, PTL DEF Spec
<1>2. SoundStore /\ [Next]_vars => [T!Next]_(TracksIn(store))
  <2> SUFFICES ASSUME SoundStore, [Next]_vars
               PROVE  [T!Next]_(TracksIn(store))
    OBVIOUS
  <2>1. CASE Next
    BY <2>1, StoreSteps DEF T!Next
  <2>2. CASE UNCHANGED vars
    BY <2>2 DEF vars
  <2> QED
    BY <2>1, <2>2
<1> QED
  BY <1>1, <1>2, TracksBorn, PTL DEF Spec, RefinesTracks, T!Spec

=============================================================================
