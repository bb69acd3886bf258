-------------------------- MODULE AISDecoderProofs --------------------------
(***************************************************************************)
(* Marine/AIS.h: what the bit decoder stores stays inside the message, for *)
(* every limit on its length and every sequence of bits; and a frame that  *)
(* begins while the decoder looks for training is sent on unchanged, for   *)
(* every payload that fits.                                                *)
(***************************************************************************)
EXTENDS AISDecoder, SequenceTheorems, WellFoundedInduction, TLAPS

(* What is stored are bits, fewer than the limit; nothing else of the      *)
(* state matters for it.                                                   *)
StoredInBounds == msg \in Seq(Bit) /\ Len(msg) < MaxBits

(* Every change of state forgets what was stored.                          *)
LEMMA NextStateInBounds ==
  ASSUME NEW s \in States, NEW pos, NextState(s, pos)
  PROVE  StoredInBounds' /\ state' \in States
<1>1. MaxBits \in Nat \ {0}
  BY DecoderSizes, Zenon DEF DecoderSizes
<1>2. msg' = <<>> /\ state' = s
  BY DEF NextState
<1>3. QED  BY <1>1, <1>2 DEF StoredInBounds

(* The decision after a bit, Run()'s last test, restores the bound: what   *)
(* reached the limit is thrown away in the same step.                      *)
LEMMA ContinueInBounds ==
  ASSUME StoredInBounds, NEW b \in Bit, Continue(b)
  PROVE  StoredInBounds'
<1>1. Stored(b) \in Seq(Bit) /\ Len(Stored(b)) =< Len(msg) + 1
  BY DEF Stored, StoredInBounds
<1>2. CASE Overrun(Stored(b)) \/ cannotBeValid(Stored(b))
  BY <1>2, NextStateInBounds DEF Continue, States
<1>3. CASE ~(Overrun(Stored(b)) \/ cannotBeValid(Stored(b)))
  <2>1. msg' = Stored(b) /\ Len(Stored(b)) # MaxBits
    BY <1>3 DEF Continue, Overrun
  <2>2. MaxBits \in Nat
    BY DecoderSizes, Zenon DEF DecoderSizes
  <2>3. QED  BY <2>1, <2>2, <1>1 DEF StoredInBounds
<1>4. QED  BY <1>2, <1>3

(* One bit, in each of the decoder's states.                               *)
LEMMA RunInBounds ==
  ASSUME StoredInBounds, state \in States, NEW s, Run(s)
  PROVE  StoredInBounds' /\ state' \in States
<1> DEFINE b == IF s = prev THEN 1 ELSE 0
<1>0. b \in Bit
  BY DEF Bit
<1>1. CASE state = "TRAINING"
  <2>1. Train(b)
    BY <1>1 DEF Run
  <2>2. QED  BY <2>1, <1>1, NextStateInBounds DEF Train, StoredInBounds, States
<1>2. CASE state = "STARTFLAG"
  <2>1. Flag(b)
    BY <1>2 DEF Run
  <2>2. QED  BY <2>1, <1>2, NextStateInBounds DEF Flag, StoredInBounds, States
<1>3. CASE state = "DATAFCS"
  <2>1. Data(b)
    BY <1>3 DEF Run
  <2>2. CASE b = 1 /\ one_seq_count = 5
    BY <2>1, <2>2, NextStateInBounds DEF Data, States
  <2>3. CASE ~(b = 1 /\ one_seq_count = 5)
    <3>1. Continue(b)
      BY <2>1, <2>3 DEF Data
    <3>2. StoredInBounds'
      BY <3>1, <1>0, ContinueInBounds
    <3>3. QED  BY <3>1, <3>2, <1>3 DEF Continue, NextState, States
  <2>4. QED  BY <2>2, <2>3
<1>4. QED  BY <1>1, <1>2, <1>3 DEF States

(* Whatever bits arrive, the decoder never writes past the message.        *)
THEOREM StaysInBounds == Spec => []InBounds
<1> DEFINE Inv == StoredInBounds /\ state \in States
<1>1. Init => Inv
  <2>1. MaxBits \in Nat \ {0}
    BY DecoderSizes, Zenon DEF DecoderSizes
  <2>2. QED  BY <2>1 DEF Init, StoredInBounds, States
<1>2. Inv /\ [Next]_vars => Inv'
  <2> SUFFICES ASSUME Inv, [Next]_vars PROVE Inv'
    OBVIOUS
  <2>1. CASE Noise
    BY <2>1, RunInBounds DEF Noise
  <2>2. CASE Begin
    BY <2>2 DEF Begin, decoder, StoredInBounds
  <2>3. CASE SendBit
    BY <2>3, RunInBounds DEF SendBit, Receives
  <2>4. CASE Fade
    BY <2>4 DEF Fade, decoder, StoredInBounds
  <2>5. CASE UNCHANGED vars
    BY <2>5 DEF vars, decoder, StoredInBounds
  <2>6. QED  BY <2>1, <2>2, <2>3, <2>4, <2>5 DEF Next
<1>3. Inv => InBounds
  BY DEF StoredInBounds, InBounds
<1>4. QED  BY <1>1, <1>2, <1>3, PTL DEF Spec
-----------------------------------------------------------------------------
(* What is left of a sequence after its first i elements.                  *)
From(s, i) == SubSeq(s, i + 1, Len(s))

Bits(p) == p \o Fcs(p)
Body(p) == Stuffed(Bits(p)) \o FLAG
Training(first) == [i \in 1 .. TRAINING_BITS |-> (first + i + 1) % 2]

(* What is sent for the last n bits, as a function, and one step of it.    *)
Step(f, n, bits) ==
    [ones \in 0 .. 4 |->
       IF n = 0 THEN <<>>
       ELSE IF bits[Len(bits) + 1 - n] = 0 THEN <<0>> \o f[n - 1][0]
       ELSE IF ones = 4 THEN <<1, 0>> \o f[n - 1][0]
       ELSE <<1>> \o f[n - 1][ones + 1]]

Sends(f, n, bits) == f = [k \in 0 .. n |-> Step(f, k, bits)]

Sending(bits) == CHOOSE f : Sends(f, Len(bits), bits)

(* Where a frame that began while the decoder looked for training stands:  *)
(* j bits of its training, i bits of its first flag, all but the last n    *)
(* bits of its payload, or i bits of its last flag have been sent.         *)
InTraining(p) == \E first \in Bit, j \in 0 .. TRAINING_BITS :
  /\ tx.rest = From(Training(first), j) \o (FLAG \o Body(p))
  /\ j > 0 => lastBit = Training(first)[j]
  /\ \/ state = "TRAINING" /\ (position > MIN_TRAINING_BITS \/ position >= j - 3)
     \/ state = "STARTFLAG" /\ j = 1 /\ position = IF first = 1 THEN 3 ELSE 1
     \/ state = "STARTFLAG" /\ j = 2 /\ position = 2 /\ first = 0
  /\ out = <<>>

InFlag(p) == \E i \in 1 .. 7 :
  /\ tx.rest = From(FLAG, i) \o Body(p)
  /\ lastBit = FLAG[i]
  /\ \/ state = "STARTFLAG" /\ position = i
     \/ state = "TRAINING" /\ position > MIN_TRAINING_BITS /\ i =< 2
  /\ out = <<>>

InData(p) == \E n \in 0 .. Len(Bits(p)) :
  /\ state = "DATAFCS" /\ out = <<>>
  /\ msg = SubSeq(Bits(p), 1, Len(Bits(p)) - n)
  /\ \/ one_seq_count \in 0 .. 4 /\ tx.rest = Sending(Bits(p))[n][one_seq_count] \o FLAG
     \/ one_seq_count = 5 /\ tx.rest = (<<0>> \o Sending(Bits(p))[n][0]) \o FLAG

InEnd(p) == \E i \in 1 .. 8 :
  /\ tx.rest = From(FLAG, i) /\ lastBit = FLAG[i]
  /\ IF i =< 6
     THEN /\ state = "DATAFCS" /\ out = <<>>
          /\ msg = Bits(p) \o SubSeq(FLAG, 1, i) /\ one_seq_count = i - 1
     ELSE state = "TRAINING" /\ out = <<p>>

OnAir == tx.ready => \E p \in Payloads :
                       /\ tx.frame = p
                       /\ InTraining(p) \/ InFlag(p) \/ InData(p) \/ InEnd(p)

IInv == TypeOK /\ OnAir

-----------------------------------------------------------------------------
(* Sequences taken from the front.                                         *)

LEMMA Sizes ==
  /\ MIN_TRAINING_BITS \in Nat /\ MaxBits \in Nat /\ FCS \in Nat /\ MaxNoise \in Nat
  /\ TRAINING_BITS \in Nat /\ TRAINING_BITS >= MIN_TRAINING_BITS + 4
BY DecoderSizes, Zenon DEF DecoderSizes

LEMMA PayloadProperties ==
  ASSUME NEW p \in Payloads
  PROVE  /\ p \in Seq(Bit) /\ p # <<>> /\ Fcs(p) \in Seq(Bit) /\ Len(Fcs(p)) = FCS
         /\ p[1] \in DOMAIN MaxLength => MaxLength[p[1]] \in Nat /\ Len(p) =< MaxLength[p[1]]
         /\ Len(p) + FCS + 7 =< MaxBits
BY DecoderSizes, Zenon DEF DecoderSizes

LEMMA BitsAssociative ==
  ASSUME NEW s \in Seq(Bit), NEW t \in Seq(Bit), NEW u \in Seq(Bit)
  PROVE  (s \o t) \o u = s \o (t \o u)
BY ConcatAssociative

LEMMA FrontTaken ==
  ASSUME NEW S, NEW s \in Seq(S), NEW t \in Seq(S), s # <<>>
  PROVE  /\ s \o t # <<>> /\ Head(s \o t) = Head(s) /\ Tail(s \o t) = Tail(s) \o t
<1>1. Len(s) \in Nat \ {0} /\ Len(t) \in Nat
  BY EmptySeq, LenProperties
<1> DEFINE u == s \o t
<1>2. /\ u \in Seq(S) /\ Len(u) = Len(s) + Len(t)
      /\ \A i \in 1 .. Len(s) + Len(t) : u[i] = IF i <= Len(s) THEN s[i] ELSE t[i - Len(s)]
  BY ConcatProperties
<1> HIDE DEF u
<1>3. u # <<>>
  BY <1>1, <1>2, EmptySeq
<1>4. Head(u) = Head(s)
  BY <1>1, <1>2
<1>5. /\ Tail(s) \in Seq(S) /\ Len(Tail(s)) = Len(s) - 1
      /\ \A i \in 1 .. Len(Tail(s)) : Tail(s)[i] = s[i + 1]
  BY HeadTailProperties
<1>6. /\ Tail(u) \in Seq(S) /\ Len(Tail(u)) = Len(u) - 1
      /\ \A i \in 1 .. Len(Tail(u)) : Tail(u)[i] = u[i + 1]
  BY <1>2, <1>3, HeadTailProperties
<1> DEFINE h == Tail(s)
           v == h \o t
           w == Tail(u)
<1>7. /\ v \in Seq(S) /\ Len(v) = Len(h) + Len(t)
      /\ \A i \in 1 .. Len(h) + Len(t) : v[i] = IF i <= Len(h) THEN h[i] ELSE t[i - Len(h)]
  BY <1>5, ConcatProperties
<1> HIDE DEF h, v, w
<1>8. Len(w) = Len(v) /\ Len(w) = (Len(s) - 1) + Len(t)
  BY <1>1, <1>2, <1>5, <1>6, <1>7 DEF h, w
<1>9. ASSUME NEW i \in 1 .. Len(w)
      PROVE  w[i] = v[i]
  <2>1. w[i] = u[i + 1] /\ i + 1 \in 1 .. Len(s) + Len(t) /\ i \in 1 .. Len(h) + Len(t)
    BY <1>1, <1>5, <1>6, <1>8 DEF h, w
  <2>2. CASE i =< Len(s) - 1
    <3>1. u[i + 1] = s[i + 1]
      BY <1>1, <1>2, <2>1, <2>2
    <3>2. v[i] = h[i] /\ h[i] = s[i + 1]
      BY <1>1, <1>5, <1>7, <2>1, <2>2 DEF h
    <3> QED
      BY <2>1, <3>1, <3>2
  <2>3. CASE ~(i =< Len(s) - 1)
    <3>1. u[i + 1] = t[(i + 1) - Len(s)]
      BY <1>1, <1>2, <2>1, <2>3
    <3>2. v[i] = t[i - Len(h)] /\ i - Len(h) = (i + 1) - Len(s)
      BY <1>1, <1>5, <1>7, <2>1, <2>3 DEF h
    <3> QED
      BY <2>1, <3>1, <3>2
  <2> QED
    BY <2>2, <2>3
<1>10. w = v
  BY <1>6, <1>7, <1>8, <1>9, SeqEqual DEF w
<1> QED
  BY <1>3, <1>4, <1>10 DEF u, v, w, h

LEMMA FromProperties ==
  ASSUME NEW S, NEW s \in Seq(S), NEW i \in 0 .. Len(s)
  PROVE  /\ From(s, i) \in Seq(S)
         /\ i = 0 => From(s, i) = s
         /\ i = Len(s) => From(s, i) = <<>>
         /\ i # Len(s) => /\ From(s, i) # <<>> /\ Head(From(s, i)) = s[i + 1]
                          /\ Tail(From(s, i)) = From(s, i + 1)
<1>1. Len(s) \in Nat /\ \A k \in 1 .. Len(s) : s[k] \in S
  BY LenProperties, ElementOfSeq
<1>2. i + 1 \in Int /\ Len(s) \in Int /\ \A k \in i + 1 .. Len(s) : s[k] \in S
  BY <1>1
<1>3. From(s, i) \in Seq(S) /\ Len(From(s, i)) = IF i + 1 <= Len(s) THEN Len(s) - (i + 1) + 1 ELSE 0
  BY <1>2, SubSeqProperties DEF From
<1>4. i = 0 => From(s, i) = s
  BY SubSeqFull DEF From
<1>5. i = Len(s) => From(s, i) = <<>>
  BY <1>1, <1>2, SubSeqEmpty DEF From
<1>6. ASSUME i # Len(s)
      PROVE  /\ From(s, i) # <<>> /\ Head(From(s, i)) = s[i + 1]
             /\ Tail(From(s, i)) = From(s, i + 1)
  <2>1. i + 1 \in 1 .. Len(s) /\ Len(s) \in i + 1 .. Len(s)
    BY <1>1, <1>6
  <2>2. Head(From(s, i)) = s[i + 1] /\ Tail(From(s, i)) = From(s, i + 1)
    BY <2>1, HeadTailOfSubSeq DEF From
  <2>3. Len(From(s, i)) # 0
    BY <1>1, <1>3, <2>1
  <2> QED
    BY <2>2, <2>3, EmptySeq
<1> QED
  BY <1>3, <1>4, <1>5, <1>6

(* What comes next of two sequences that are sent one after the other.     *)
LEMMA NextOf ==
  ASSUME NEW S, NEW s \in Seq(S), NEW t \in Seq(S), NEW i \in 0 .. Len(s), i # Len(s)
  PROVE  /\ From(s, i) \o t # <<>> /\ Head(From(s, i) \o t) = s[i + 1]
         /\ Tail(From(s, i) \o t) = From(s, i + 1) \o t
<1>1. /\ From(s, i) \in Seq(S) /\ From(s, i) # <<>> /\ Head(From(s, i)) = s[i + 1]
      /\ Tail(From(s, i)) = From(s, i + 1)
  BY FromProperties
<1> DEFINE f == From(s, i)
<1> HIDE DEF f
<1>2. f \in Seq(S) /\ f # <<>>
  BY <1>1 DEF f
<1>3. f \o t # <<>> /\ Head(f \o t) = Head(f) /\ Tail(f \o t) = Tail(f) \o t
  BY <1>2, FrontTaken, Zenon
<1> QED
  BY <1>1, <1>3 DEF f

-----------------------------------------------------------------------------
(* Induction over the naturals, for a set in place of a predicate.         *)

LEMMA LeastElement ==
  ASSUME NEW T \in SUBSET Nat, T # {}
  PROVE  \E x \in T : \A y \in T : x =< y
<1> DEFINE R == {e \in Nat \X Nat : e[1] < e[2]}
<1>1. IsWellFoundedOn(R, Nat)
  BY NatLessThanWellFounded DEF OpToRel
<1>2. \A x, y \in Nat : y < x => <<y, x>> \in R
  OBVIOUS
<1> HIDE DEF R
<1>3. PICK x \in T : \A y \in T : <<y, x>> \notin R
  BY <1>1, WFMin, Zenon
<1>4. \A y \in T : ~(y < x)
  BY <1>2, <1>3
<1> QED
  BY <1>3, <1>4

LEMMA InductionOnNat ==
  ASSUME NEW S, 0 \in S, \A n \in Nat : n \in S => n + 1 \in S
  PROVE  Nat \subseteq S
<1> SUFFICES ASSUME ~(Nat \subseteq S)
             PROVE  FALSE
  OBVIOUS
<1>1. PICK x \in Nat \ S : \A y \in Nat \ S : x =< y
  BY LeastElement
<1>2. x - 1 \in Nat
  BY <1>1
<1>3. x - 1 \in S
  BY <1>1, <1>2
<1> QED
  BY <1>1, <1>2, <1>3

-----------------------------------------------------------------------------
(* The stuffed bits, from the last one on.                                 *)

Levels == [0 .. 4 -> Seq(Bit)]

(* A step looks at the one before it only.                                 *)
LEMMA StepTyped ==
  ASSUME NEW bits \in Seq(Bit), NEW n \in 1 .. Len(bits), NEW f, f[n - 1] \in Levels
  PROVE  Step(f, n, bits) \in Levels
<1> DEFINE b == bits[Len(bits) + 1 - n]
           g == f[n - 1]
<1>1. g \in Levels /\ \A o \in 0 .. 4 : g[o] \in Seq(Bit)
  BY DEF Levels
<1>2. <<0>> \in Seq(Bit) /\ <<1>> \in Seq(Bit) /\ <<1, 0>> \in Seq(Bit)
  BY DEF Bit
<1> HIDE DEF g
<1>3. <<0>> \o g[0] \in Seq(Bit) /\ <<1, 0>> \o g[0] \in Seq(Bit)
  <2>1. g[0] \in Seq(Bit)
    BY <1>1
  <2> QED
    BY <1>2, <2>1, ConcatProperties
<1>4. ASSUME NEW o \in 0 .. 4, o # 4
      PROVE  <<1>> \o g[o + 1] \in Seq(Bit)
  <2>1. g[o + 1] \in Seq(Bit)
    BY <1>1, <1>4
  <2> QED
    BY <1>2, <2>1, ConcatProperties
<1> HIDE DEF b
<1>5. \A o \in 0 .. 4 :
        (IF b = 0 THEN <<0>> \o g[0] ELSE IF o = 4 THEN <<1, 0>> \o g[0]
         ELSE <<1>> \o g[o + 1]) \in Seq(Bit)
  BY <1>3, <1>4
<1>6. Step(f, n, bits) =
        [o \in 0 .. 4 |-> IF b = 0 THEN <<0>> \o g[0] ELSE IF o = 4 THEN <<1, 0>> \o g[0]
                          ELSE <<1>> \o g[o + 1]]
  BY DEF Step, b, g
<1> QED
  BY <1>5, <1>6 DEF Levels

LEMMA SendsExists ==
  ASSUME NEW bits \in Seq(Bit)
  PROVE  \E f \in [0 .. Len(bits) -> Levels] : Sends(f, Len(bits), bits)
<1>1. Len(bits) \in Nat
  BY LenProperties
<1> DEFINE Can == {n \in Nat : n =< Len(bits) =>
                     \E f \in [0 .. n -> Levels] : Sends(f, n, bits)}
<1>2. 0 \in Can
  <2> DEFINE f == [k \in 0 .. 0 |-> [ones \in 0 .. 4 |-> <<>>]]
  <2>1. f \in [0 .. 0 -> Levels]
    BY EmptySeq DEF Levels
  <2>2. \A k \in 0 .. 0 : Step(f, k, bits) = [ones \in 0 .. 4 |-> <<>>]
    BY DEF Step
  <2>3. Sends(f, 0, bits)
    BY <2>2 DEF Sends
  <2> QED
    BY <2>1, <2>3
<1>3. ASSUME NEW n \in Nat, n \in Can
      PROVE  n + 1 \in Can
  <2> SUFFICES ASSUME n + 1 =< Len(bits)
               PROVE  \E f \in [0 .. n + 1 -> Levels] : Sends(f, n + 1, bits)
    OBVIOUS
  <2>1. PICK f \in [0 .. n -> Levels] : Sends(f, n, bits)
    BY <1>1, <1>3
  <2>2. n + 1 \in 1 .. Len(bits) /\ n \in 0 .. n /\ (n + 1) - 1 = n
    BY <1>1
  <2>3. Step(f, n + 1, bits) \in Levels
    <3>1. f[(n + 1) - 1] \in Levels
      BY <2>1, <2>2
    <3> QED
      BY <2>2, <3>1, StepTyped
  <2> DEFINE last == Step(f, n + 1, bits)
             g == [k \in 0 .. n + 1 |-> IF k = n + 1 THEN last ELSE f[k]]
  <2>4. \A k \in 0 .. n + 1 : k = n + 1 \/ k \in 0 .. n
    OBVIOUS
  <2> HIDE DEF last
  <2>5. g \in [0 .. n + 1 -> Levels]
    BY <2>1, <2>3, <2>4 DEF last
  <2>6. \A k \in 0 .. n : g[k] = f[k]
    OBVIOUS
  <2>7. g[n + 1] = last
    OBVIOUS
  <2> HIDE DEF g
  <2>8. ASSUME NEW k \in 0 .. n + 1
        PROVE  Step(g, k, bits) = Step(f, k, bits)
    <3>1. CASE k = 0
      BY <3>1 DEF Step
    <3>2. CASE k # 0
      <4>1. k - 1 \in 0 .. n
        BY <3>2
      <4>2. g[k - 1] = f[k - 1]
        BY <2>6, <4>1
      <4> QED
        BY <4>2 DEF Step
    <3> QED
      BY <3>1, <3>2
  <2>9. ASSUME NEW k \in 0 .. n + 1
        PROVE  g[k] = Step(g, k, bits)
    <3>1. CASE k = n + 1
      BY <2>7, <2>8, <3>1 DEF last
    <3>2. CASE k # n + 1
      <4>1. k \in 0 .. n
        BY <2>4, <3>2
      <4>2. f[k] = Step(f, k, bits)
        BY <2>1, <4>1 DEF Sends
      <4> QED
        BY <2>6, <2>8, <4>1, <4>2
    <3> QED
      BY <3>1, <3>2
  <2>10. Sends(g, n + 1, bits)
    BY <2>5, <2>9 DEF Sends
  <2> QED
    BY <2>5, <2>10
<1> HIDE DEF Can
<1>4. Nat \subseteq Can
  BY <1>2, <1>3, InductionOnNat
<1> QED
  BY <1>1, <1>4 DEF Can

LEMMA SendingProperties ==
  ASSUME NEW bits \in Seq(Bit)
  PROVE  /\ \A n \in 0 .. Len(bits), o \in 0 .. 4 : Sending(bits)[n][o] \in Seq(Bit)
         /\ \A n \in 0 .. Len(bits) : Sending(bits)[n] = Step(Sending(bits), n, bits)
<1> DEFINE f == Sending(bits)
<1>1. Len(bits) \in Nat
  BY LenProperties
<1>2. Sends(f, Len(bits), bits)
  BY SendsExists DEF Sending
<1> HIDE DEF f
<1>3. \A n \in 0 .. Len(bits) : f[n] = Step(f, n, bits)
  BY <1>2 DEF Sends
<1> DEFINE Typed == {n \in Nat : n =< Len(bits) => f[n] \in Levels}
<1>4. 0 \in Typed
  <2>1. Step(f, 0, bits) = [ones \in 0 .. 4 |-> <<>>]
    BY DEF Step
  <2>2. Step(f, 0, bits) \in Levels
    BY <2>1, EmptySeq DEF Levels
  <2> QED
    BY <1>1, <1>3, <2>2
<1>5. ASSUME NEW n \in Nat, n \in Typed
      PROVE  n + 1 \in Typed
  <2> SUFFICES ASSUME n + 1 =< Len(bits)
               PROVE  f[n + 1] \in Levels
    OBVIOUS
  <2>1. n + 1 \in 1 .. Len(bits) /\ n + 1 \in 0 .. Len(bits) /\ (n + 1) - 1 = n
    BY <1>1
  <2>2. f[(n + 1) - 1] \in Levels
    BY <1>1, <1>5, <2>1
  <2>3. Step(f, n + 1, bits) \in Levels
    BY <2>1, <2>2, StepTyped
  <2> QED
    BY <1>3, <2>1, <2>3
<1> HIDE DEF Typed
<1>6. Nat \subseteq Typed
  BY <1>4, <1>5, InductionOnNat
<1>7. \A n \in 0 .. Len(bits) : f[n] \in Levels
  BY <1>1, <1>6 DEF Typed
<1> QED
  BY <1>3, <1>7 DEF f, Levels

LEMMA StuffedIs ==
  ASSUME NEW bits
  PROVE  Stuffed(bits) = Sending(bits)[Len(bits)][0]
BY DEF Stuffed, Sending, Sends, Step

-----------------------------------------------------------------------------
(* The parts of a frame.                                                   *)

LEMMA FlagBits ==
  /\ FLAG \in Seq(Bit) /\ Len(FLAG) = 8
  /\ FLAG[1] = 0 /\ FLAG[8] = 0 /\ \A i \in 2 .. 7 : FLAG[i] = 1
BY DEF FLAG, Bit

LEMMA TrainingBits ==
  ASSUME NEW first \in Bit
  PROVE  /\ Training(first) \in Seq(Bit) /\ Len(Training(first)) = TRAINING_BITS
         /\ \A j \in 1 .. TRAINING_BITS : Training(first)[j] = (first + j + 1) % 2
<1>1. TRAINING_BITS \in Nat /\ first \in Int
  BY Sizes DEF Bit
<1>2. \A i \in 1 .. TRAINING_BITS : (first + i + 1) % 2 \in Bit
  BY <1>1 DEF Bit
<1>3. Training(first) \in [1 .. TRAINING_BITS -> Bit]
  BY <1>2 DEF Training
<1>4. Training(first) \in Seq(Bit)
  BY <1>1, <1>3, SeqDef
<1> QED
  BY <1>1, <1>3, <1>4, LenProperties DEF Training

LEMMA FrameParts ==
  ASSUME NEW p \in Payloads
  PROVE  /\ Bits(p) \in Seq(Bit) /\ Len(Bits(p)) \in Nat /\ Len(Bits(p)) = Len(p) + FCS
         /\ Body(p) \in Seq(Bit) /\ FLAG \o Body(p) \in Seq(Bit)
         /\ Body(p) = Sending(Bits(p))[Len(Bits(p))][0] \o FLAG
         /\ \A first \in Bit : /\ Frame(p, first) = Training(first) \o (FLAG \o Body(p))
                               /\ Frame(p, first) \in Seq(Bit)
<1>1. /\ p \in Seq(Bit) /\ Fcs(p) \in Seq(Bit) /\ Len(Fcs(p)) = FCS
  BY PayloadProperties
<1>2. Bits(p) \in Seq(Bit) /\ Len(Bits(p)) = Len(p) + FCS
  BY <1>1, ConcatProperties DEF Bits
<1>3. Len(Bits(p)) \in Nat /\ Len(Bits(p)) \in 0 .. Len(Bits(p)) /\ 0 \in 0 .. 4
  BY <1>2, LenProperties
<1> DEFINE st == Stuffed(Bits(p))
<1>4. st = Sending(Bits(p))[Len(Bits(p))][0]
  BY StuffedIs
<1>5. st \in Seq(Bit)
  BY <1>2, <1>3, <1>4, SendingProperties
<1>6. FLAG \in Seq(Bit)
  BY FlagBits
<1>7. Body(p) = st \o FLAG
  BY DEF Body
<1> HIDE DEF st
<1>8. Body(p) \in Seq(Bit)
  BY <1>5, <1>6, <1>7, ConcatProperties
<1> DEFINE body == Body(p)
<1> HIDE DEF body
<1>9. FLAG \o body \in Seq(Bit)
  BY <1>6, <1>8, ConcatProperties DEF body
<1>10. ASSUME NEW first \in Bit
       PROVE  /\ Frame(p, first) = Training(first) \o (FLAG \o body)
              /\ Training(first) \o (FLAG \o body) \in Seq(Bit)
  <2> DEFINE t == Training(first)
  <2>1. t \in Seq(Bit)
    BY TrainingBits
  <2>2. Frame(p, first) = ((t \o FLAG) \o st) \o FLAG
    BY DEF Frame, Training, Bits, st
  <2> HIDE DEF t
  <2>3. t \o FLAG \in Seq(Bit)
    BY <1>6, <2>1, ConcatProperties
  <2> DEFINE tf == t \o FLAG
  <2> HIDE DEF tf
  <2>4. (tf \o st) \o FLAG = tf \o (st \o FLAG)
    <3>1. tf \in Seq(Bit)
      BY <2>3 DEF tf
    <3> QED
      BY <1>5, <1>6, <3>1, BitsAssociative, Zenon
  <2>5. st \o FLAG = body
    BY <1>7 DEF body
  <2>6. (t \o FLAG) \o body = t \o (FLAG \o body)
    <3>1. body \in Seq(Bit)
      BY <1>8 DEF body
    <3> QED
      BY <1>6, <2>1, <3>1, BitsAssociative, Zenon
  <2>7. t \o (FLAG \o body) \in Seq(Bit)
    BY <1>9, <2>1, ConcatProperties
  <2> QED
    BY <2>2, <2>4, <2>5, <2>6, <2>7 DEF t, tf
<1> QED
  BY <1>2, <1>3, <1>4, <1>7, <1>8, <1>9, <1>10 DEF body, st

-----------------------------------------------------------------------------
(* One bit of a frame.                                                     *)

LEMMA BitSent ==
  ASSUME TypeOK, SendBit
  PROVE  \E b \in Bit :
           /\ tx.rest # <<>> /\ b = Head(tx.rest) /\ tx' = [tx EXCEPT !.rest = Tail(tx.rest)]
           /\ lastBit' = b /\ prev' \in BOOLEAN
           /\ state = "TRAINING" => Train(b)
           /\ state = "STARTFLAG" => Flag(b)
           /\ state = "DATAFCS" => Data(b)
           /\ out' = out \o Sent(b)
           /\ Run(IF b = 1 THEN prev ELSE ~prev)
<1>1. tx.rest # <<>> /\ tx.rest \in Seq(Bit) /\ prev \in BOOLEAN
  BY DEF TypeOK, SendBit
<1> DEFINE b == Head(tx.rest)
<1>2. b \in Bit
  BY <1>1, HeadTailProperties
<1>3. Receives(b) /\ tx' = [tx EXCEPT !.rest = Tail(tx.rest)]
  BY DEF SendBit
<1> HIDE DEF b
<1> DEFINE sample == IF b = 1 THEN prev ELSE ~prev
<1>4. Run(sample) /\ out' = out \o Sent(b)
  BY <1>3 DEF Receives
<1>5. sample \in BOOLEAN /\ (sample = prev <=> b = 1)
  BY <1>1, <1>2 DEF Bit
<1>6. (IF sample = prev THEN 1 ELSE 0) = b
  BY <1>2, <1>5 DEF Bit
<1> HIDE DEF sample
<1> DEFINE d == IF sample = prev THEN 1 ELSE 0
<1>7. /\ prev' = sample /\ lastBit' = d
      /\ CASE state = "TRAINING" -> Train(d)
           [] state = "STARTFLAG" -> Flag(d)
           [] state = "DATAFCS" -> Data(d)
  BY <1>4 DEF Run
<1>8. d = b
  BY <1>6
<1> HIDE DEF d
<1>9. /\ state = "TRAINING" => Train(d)
      /\ state = "STARTFLAG" => Flag(d)
      /\ state = "DATAFCS" => Data(d)
  BY <1>7
<1> QED
  BY <1>1, <1>2, <1>3, <1>4, <1>5, <1>7, <1>8, <1>9 DEF b, sample

(* Outside of a message nothing is sent on.                                *)
LEMMA NothingSent ==
  ASSUME TypeOK, NEW b, out = <<>>, out' = out \o Sent(b),
         state # "DATAFCS" \/ b # 1 \/ one_seq_count # 5
  PROVE  out' = <<>>
<1>1. Sent(b) = <<>>
  BY DEF Sent
<1> QED
  BY <1>1

(* The parts of the transmitter that a bit leaves alone.                   *)
LEMMA Untouched ==
  ASSUME TypeOK, NEW r, tx' = [tx EXCEPT !.rest = r]
  PROVE  /\ tx'.rest = r /\ tx'.frame = tx.frame /\ tx'.ready = tx.ready
         /\ tx'.noise = tx.noise
BY DEF TypeOK

-----------------------------------------------------------------------------
(* One bit, from phase to phase of a frame.                                *)

(* The bits of the training alternate: whatever the first of them means to *)
(* the decoder, after three it counts one with each.                       *)
LEMMA TrainingStep ==
  ASSUME TypeOK, SendBit, NEW p \in Payloads, InTraining(p)
  PROVE  InTraining(p)' \/ InFlag(p)'
<1>1. PICK b \in Bit :
           /\ tx.rest # <<>> /\ b = Head(tx.rest) /\ tx' = [tx EXCEPT !.rest = Tail(tx.rest)]
           /\ lastBit' = b
           /\ state = "TRAINING" => Train(b)
           /\ state = "STARTFLAG" => Flag(b)
           /\ out' = out \o Sent(b)
  BY BitSent
<1>2. PICK first \in Bit, j \in 0 .. TRAINING_BITS :
        /\ tx.rest = From(Training(first), j) \o (FLAG \o Body(p))
        /\ j > 0 => lastBit = Training(first)[j]
        /\ \/ state = "TRAINING" /\ (position > MIN_TRAINING_BITS \/ position >= j - 3)
           \/ state = "STARTFLAG" /\ j = 1 /\ position = IF first = 1 THEN 3 ELSE 1
           \/ state = "STARTFLAG" /\ j = 2 /\ position = 2 /\ first = 0
        /\ out = <<>>
  BY DEF InTraining
<1>3. out' = <<>>
  BY <1>1, <1>2, NothingSent
<1>4. tx'.rest = Tail(tx.rest)
  BY <1>1, Untouched
<1>5. position \in Nat /\ lastBit \in Bit
  BY DEF TypeOK
<1> DEFINE t == Training(first)
           r == FLAG \o Body(p)
<1>6. /\ t \in Seq(Bit) /\ Len(t) = TRAINING_BITS /\ r \in Seq(Bit)
      /\ \A k \in 1 .. TRAINING_BITS : t[k] = (first + k + 1) % 2
  BY TrainingBits, FrameParts
<1>7. CASE j # TRAINING_BITS
  <2>1. b = t[j + 1] /\ tx'.rest = From(t, j + 1) \o r
    <3>1. j \in 0 .. Len(t) /\ j # Len(t)
      BY <1>6, <1>7
    <3>2. tx.rest = From(t, j) \o r
      BY <1>2
    <3> HIDE DEF t, r
    <3>3. Head(From(t, j) \o r) = t[j + 1] /\ Tail(From(t, j) \o r) = From(t, j + 1) \o r
      BY <1>6, <3>1, NextOf
    <3> QED
      BY <1>1, <1>4, <3>2, <3>3
  <2>2. j + 1 \in 0 .. TRAINING_BITS /\ j + 1 \in 1 .. TRAINING_BITS /\ j \in Nat
    BY <1>7, Sizes
  <2>3. b = (first + (j + 1) + 1) % 2 /\ (j > 0 => lastBit = (first + j + 1) % 2)
    <3>1. j > 0 => j \in 1 .. TRAINING_BITS
      BY <1>7, Sizes
    <3> QED
      BY <1>2, <1>6, <2>1, <2>2, <3>1
  <2>4. first \in {0, 1} /\ b \in {0, 1} /\ lastBit \in {0, 1}
    BY <1>5 DEF Bit
  <2> HIDE DEF t, r
  <2>5. \/ /\ state' = "TRAINING"
           /\ position' > MIN_TRAINING_BITS \/ position' >= (j + 1) - 3
        \/ state' = "STARTFLAG" /\ j + 1 = 1 /\ position' = IF first = 1 THEN 3 ELSE 1
        \/ state' = "STARTFLAG" /\ j + 1 = 2 /\ position' = 2 /\ first = 0
    <3>1. CASE state = "TRAINING"
      <4>1. Train(b)
        BY <1>1, <3>1
      <4>2. CASE b # lastBit
        <5>1. /\ state' = "TRAINING"
              /\ position' = IF position > MIN_TRAINING_BITS THEN position ELSE position + 1
          BY <3>1, <4>1, <4>2 DEF Train
        <5>2. position > MIN_TRAINING_BITS \/ position >= j - 3
          BY <1>2, <3>1
        <5> QED
          BY <1>5, <2>2, <5>1, <5>2, Sizes
      <4>3. CASE b = lastBit
        <5>1. j = 0
          BY <2>2, <2>3, <2>4, <4>3
        <5>2. b = first
          BY <2>3, <2>4, <5>1
        <5>3. \/ state' = "STARTFLAG" /\ position' = IF b = 1 THEN 3 ELSE 1
              \/ state' = "TRAINING" /\ position' = 0
          BY <4>1, <4>3 DEF Train, NextState
        <5> QED
          BY <5>1, <5>2, <5>3
      <4> QED
        BY <4>2, <4>3
    <3>2. CASE state = "STARTFLAG" /\ j = 1 /\ position = IF first = 1 THEN 3 ELSE 1
      <4>1. Flag(b) /\ position # 7
        BY <1>1, <3>2
      <4>2. b = 1 - first
        BY <2>3, <2>4, <3>2
      <4>3. CASE first = 0
        <5>1. b = 1 /\ position = 1
          BY <3>2, <4>2, <4>3
        <5>2. position' = position + 1 /\ state' = state
          BY <4>1, <5>1 DEF Flag
        <5> QED
          BY <3>2, <4>3, <5>1, <5>2
      <4>4. CASE first = 1
        <5>1. b = 0
          BY <4>2, <4>4
        <5>2. position' = 0 /\ state' = "TRAINING"
          BY <4>1, <5>1 DEF Flag, NextState
        <5> QED
          BY <3>2, <5>2
      <4> QED
        BY <2>4, <4>3, <4>4
    <3>3. CASE state = "STARTFLAG" /\ j = 2 /\ position = 2 /\ first = 0
      <4>1. Flag(b) /\ position # 7
        BY <1>1, <3>3
      <4>2. b = 0
        BY <2>3, <3>3
      <4>3. position' = 0 /\ state' = "TRAINING"
        BY <4>1, <4>2 DEF Flag, NextState
      <4> QED
        BY <3>3, <4>3
    <3> QED
      BY <1>2, <3>1, <3>2, <3>3
  <2>6. lastBit' = t[j + 1]
    BY <1>1, <2>1
  <2> QED
    BY <1>3, <2>1, <2>2, <2>5, <2>6 DEF InTraining, t, r
<1>8. CASE j = TRAINING_BITS
  <2>1. tx.rest = From(FLAG, 0) \o Body(p)
    <3>1. From(t, j) = <<>>
      BY <1>6, <1>8, FromProperties
    <3>2. <<>> \o r = r
      BY <1>6, ConcatEmptySeq
    <3>3. From(FLAG, 0) = FLAG
      BY FlagBits, FromProperties
    <3> QED
      BY <1>2, <3>1, <3>2, <3>3
  <2>2. b = 0 /\ tx'.rest = From(FLAG, 1) \o Body(p)
    <3> DEFINE body == Body(p)
    <3>1. 0 \in 0 .. Len(FLAG) /\ 0 # Len(FLAG) /\ FLAG[0 + 1] = 0
      BY FlagBits
    <3>2. body \in Seq(Bit)
      BY FrameParts
    <3> HIDE DEF body
    <3>3. /\ Head(From(FLAG, 0) \o body) = FLAG[0 + 1]
          /\ Tail(From(FLAG, 0) \o body) = From(FLAG, 0 + 1) \o body
      BY <3>1, <3>2, FlagBits, NextOf
    <3>4. 0 + 1 = 1
      OBVIOUS
    <3>5. Tail(From(FLAG, 0) \o body) = From(FLAG, 1) \o body
      BY <3>3, <3>4, Zenon
    <3>6. tx.rest = From(FLAG, 0) \o body
      BY <2>1 DEF body
    <3>7. b = 0
      BY <1>1, <3>1, <3>3, <3>6, Zenon
    <3>8. tx'.rest = From(FLAG, 1) \o body
      BY <1>4, <3>5, <3>6, Zenon
    <3> QED
      BY <3>7, <3>8 DEF body
  <2>3. state = "TRAINING" /\ position > MIN_TRAINING_BITS
    BY <1>2, <1>5, <1>8, Sizes
  <2>4. \/ state' = "TRAINING" /\ position' = position
        \/ state' = "STARTFLAG" /\ position' = 1
    BY <1>1, <2>2, <2>3 DEF Train, NextState
  <2>5. 1 \in 1 .. 7 /\ FLAG[1] = 0
    BY FlagBits
  <2>6. \/ state' = "STARTFLAG" /\ position' = 1
        \/ state' = "TRAINING" /\ position' > MIN_TRAINING_BITS /\ 1 =< 2
    BY <2>3, <2>4
  <2>7. InFlag(p)'
    BY <1>1, <1>3, <2>2, <2>5, <2>6 DEF InFlag
  <2> QED
    BY <2>7
<1> QED
  BY <1>7, <1>8

(* The first flag, from its first bit to the last.                         *)
LEMMA FlagStep ==
  ASSUME TypeOK, SendBit, NEW p \in Payloads, InFlag(p)
  PROVE  InFlag(p)' \/ InData(p)'
<1>1. PICK b \in Bit :
           /\ tx.rest # <<>> /\ b = Head(tx.rest) /\ tx' = [tx EXCEPT !.rest = Tail(tx.rest)]
           /\ lastBit' = b
           /\ state = "TRAINING" => Train(b)
           /\ state = "STARTFLAG" => Flag(b)
           /\ out' = out \o Sent(b)
  BY BitSent
<1>2. PICK i \in 1 .. 7 :
        /\ tx.rest = From(FLAG, i) \o Body(p)
        /\ lastBit = FLAG[i]
        /\ \/ state = "STARTFLAG" /\ position = i
           \/ state = "TRAINING" /\ position > MIN_TRAINING_BITS /\ i =< 2
        /\ out = <<>>
  BY DEF InFlag
<1>3. out' = <<>>
  BY <1>1, <1>2, NothingSent
<1>4. tx'.rest = Tail(tx.rest)
  BY <1>1, Untouched
<1>5. b = FLAG[i + 1] /\ tx'.rest = From(FLAG, i + 1) \o Body(p)
  <2> DEFINE body == Body(p)
  <2>1. i \in 0 .. Len(FLAG) /\ i # Len(FLAG)
    BY FlagBits
  <2>2. body \in Seq(Bit)
    BY FrameParts
  <2> HIDE DEF body
  <2>3. /\ Head(From(FLAG, i) \o body) = FLAG[i + 1]
        /\ Tail(From(FLAG, i) \o body) = From(FLAG, i + 1) \o body
    BY <2>1, <2>2, FlagBits, NextOf
  <2> QED
    BY <1>1, <1>2, <1>4, <2>3 DEF body
<1>6. CASE i = 7
  <2>1. b = 0 /\ Flag(b) /\ position = 7
    BY <1>1, <1>2, <1>5, <1>6, FlagBits
  <2>2. state' = "DATAFCS" /\ msg' = <<>> /\ one_seq_count' = 0
    BY <2>1 DEF Flag, NextState
  <2> DEFINE n == Len(Bits(p))
  <2>3. /\ Bits(p) \in Seq(Bit) /\ n \in Nat /\ Body(p) \in Seq(Bit)
        /\ Body(p) = Sending(Bits(p))[n][0] \o FLAG
    BY FrameParts
  <2>4. From(FLAG, i + 1) = <<>>
    <3>1. i + 1 \in 0 .. Len(FLAG) /\ i + 1 = Len(FLAG)
      BY <1>6, FlagBits
    <3> QED
      BY <3>1, FlagBits, FromProperties
  <2>5. tx'.rest = Body(p)
    <3>1. tx'.rest = <<>> \o Body(p)
      BY <1>5, <2>4, Zenon
    <3>2. <<>> \o Body(p) = Body(p)
      BY <2>3, ConcatEmptySeq
    <3> QED
      BY <3>1, <3>2, Zenon
  <2>6. SubSeq(Bits(p), 1, n - n) = <<>>
    <3>1. n - n = 0 /\ 1 \in Int /\ 0 \in Int /\ 0 < 1
      BY <2>3
    <3>2. SubSeq(Bits(p), 1, 0) = <<>>
      BY <3>1, SubSeqEmpty
    <3> QED
      BY <3>1, <3>2
  <2>7. n \in 0 .. n /\ 0 \in 0 .. 4
    BY <2>3
  <2>8. tx'.rest = Sending(Bits(p))[n][one_seq_count'] \o FLAG
    BY <2>2, <2>3, <2>5
  <2>9. msg' = SubSeq(Bits(p), 1, n - n) /\ one_seq_count' \in 0 .. 4
    BY <2>2, <2>6, <2>7
  <2>10. InData(p)'
    BY <1>3, <2>2, <2>7, <2>8, <2>9 DEF InData
  <2> QED
    BY <2>10
<1>7. CASE i # 7
  <2>1. i + 1 \in 1 .. 7 /\ i + 1 \in 2 .. 7
    BY <1>7
  <2>2. b = 1
    BY <1>5, <2>1, FlagBits
  <2>3. CASE state = "STARTFLAG"
    <3>1. Flag(b) /\ position = i
      BY <1>1, <1>2, <2>3
    <3>2. state' = "STARTFLAG" /\ position' = i + 1
      BY <1>7, <2>2, <2>3, <3>1 DEF Flag
    <3>3. InFlag(p)'
      BY <1>1, <1>3, <1>5, <2>1, <3>2 DEF InFlag
    <3> QED
      BY <3>3
  <2>4. CASE state = "TRAINING"
    <3>1. Train(b) /\ position > MIN_TRAINING_BITS /\ i =< 2
      BY <1>1, <1>2, <2>4
    <3>2. CASE i = 1
      <4>1. b # lastBit
        BY <1>2, <2>2, <3>2, FlagBits
      <4>2. state' = "TRAINING" /\ position' = position
        BY <2>4, <3>1, <4>1 DEF Train
      <4>3. state' = "TRAINING" /\ position' > MIN_TRAINING_BITS /\ i + 1 =< 2
        BY <3>1, <3>2, <4>2
      <4>4. InFlag(p)'
        BY <1>1, <1>3, <1>5, <2>1, <4>3 DEF InFlag
      <4> QED
        BY <4>4
    <3>3. CASE i = 2
      <4>1. b = lastBit
        BY <1>2, <2>2, <3>3, FlagBits
      <4>2. state' = "STARTFLAG" /\ position' = 3
        BY <2>2, <3>1, <4>1 DEF Train, NextState
      <4>3. state' = "STARTFLAG" /\ position' = i + 1
        BY <3>3, <4>2
      <4>4. InFlag(p)'
        BY <1>1, <1>3, <1>5, <2>1, <4>3 DEF InFlag
      <4> QED
        BY <4>4
    <3> QED
      BY <3>1, <3>2, <3>3
  <2> QED
    BY <1>2, <2>3, <2>4
<1> QED
  BY <1>6, <1>7

-----------------------------------------------------------------------------
(* What the decoder has stored of a frame.                                 *)

LEMMA Extended ==
  ASSUME NEW S, NEW s \in Seq(S), NEW i \in 0 .. Len(s), i # Len(s)
  PROVE  Append(SubSeq(s, 1, i), s[i + 1]) = SubSeq(s, 1, i + 1)
<1>1. Len(s) \in Nat /\ \A k \in 1 .. Len(s) : s[k] \in S
  BY LenProperties, ElementOfSeq
<1>2. 1 \in 1 .. Len(s) /\ i + 1 \in 1 .. Len(s) /\ (i + 1) - 1 = i /\ i \in Int
  BY <1>1
<1>3. \A k \in 1 .. i : s[k] \in S
  BY <1>1
<1>4. SubSeq(s, 1, i) \in Seq(S)
  BY <1>2, <1>3, SubSeqProperties
<1>5. SubSeq(s, 1, i + 1) = SubSeq(s, 1, (i + 1) - 1) \o <<s[i + 1]>>
  BY <1>2, SubSeqRecursiveSecond
<1>6. s[i + 1] \in S
  BY <1>1, <1>2
<1>7. Append(SubSeq(s, 1, i), s[i + 1]) = SubSeq(s, 1, i) \o <<s[i + 1]>>
  BY <1>4, <1>6, AppendIsConcat
<1> QED
  BY <1>2, <1>5, <1>7

LEMMA PrefixProperties ==
  ASSUME NEW S, NEW s \in Seq(S), NEW i \in 0 .. Len(s)
  PROVE  /\ SubSeq(s, 1, i) \in Seq(S) /\ Len(SubSeq(s, 1, i)) = i
         /\ i # 0 => SubSeq(s, 1, i)[1] = s[1]
<1>1. Len(s) \in Nat /\ \A k \in 1 .. Len(s) : s[k] \in S
  BY LenProperties, ElementOfSeq
<1>2. i \in Nat /\ 1 \in Int /\ i \in Int /\ \A k \in 1 .. i : s[k] \in S
  BY <1>1
<1> DEFINE t == SubSeq(s, 1, i)
<1>3. /\ t \in Seq(S) /\ Len(t) = IF 1 <= i THEN i - 1 + 1 ELSE 0
      /\ \A k \in 1 .. i - 1 + 1 : t[k] = s[1 + k - 1]
  BY <1>2, SubSeqProperties
<1> HIDE DEF t
<1>4. Len(t) = i
  BY <1>2, <1>3
<1>5. ASSUME i # 0
      PROVE  t[1] = s[1]
  <2>1. 1 \in 1 .. i - 1 + 1 /\ 1 + 1 - 1 = 1
    BY <1>2, <1>5
  <2>2. t[1] = s[1 + 1 - 1]
    BY <1>3, <2>1
  <2> QED
    BY <2>1, <2>2
<1> QED
  BY <1>3, <1>4, <1>5 DEF t

(* No frame that is sent is given up for its length: the decoder allows    *)
(* for the bits of the last flag.                                          *)
LEMMA NotCut ==
  ASSUME NEW p \in Payloads, NEW s \in Seq(Bit), Len(s) =< Len(p) + FCS + 6,
         s # <<>> => s[1] = p[1]
  PROVE  ~Overrun(s) /\ ~cannotBeValid(s)
<1>1. /\ p[1] \in DOMAIN MaxLength => MaxLength[p[1]] \in Nat /\ Len(p) =< MaxLength[p[1]]
      /\ Len(p) + FCS + 7 =< MaxBits /\ p \in Seq(Bit)
  BY PayloadProperties
<1>2. Len(s) \in Nat /\ Len(p) \in Nat /\ FCS \in Nat /\ MaxBits \in Nat
  BY <1>1, LenProperties, Sizes
<1>3. ~Overrun(s)
  BY <1>1, <1>2 DEF Overrun
<1>4. ASSUME cannotBeValid(s)
      PROVE  FALSE
  <2>1. s # <<>> /\ s[1] \in DOMAIN MaxLength /\ Len(s) = MaxLength[s[1]] + END
    BY <1>4 DEF cannotBeValid
  <2>2. s[1] = p[1]
    BY <2>1
  <2> DEFINE m == MaxLength[p[1]]
  <2>3. m \in Nat /\ Len(p) =< m /\ Len(s) = m + END
    BY <1>1, <2>1, <2>2
  <2> HIDE DEF m
  <2> QED
    BY <1>2, <2>3 DEF END
<1> QED
  BY <1>3, <1>4

(* A bit that the frame has next is stored.                                *)
LEMMA Continued ==
  ASSUME NEW p \in Payloads, NEW b \in Bit, Data(b), ~(b = 1 /\ one_seq_count = 5),
         Stored(b) \in Seq(Bit), Len(Stored(b)) =< Len(p) + FCS + 6,
         Stored(b) # <<>> => Stored(b)[1] = p[1]
  PROVE  /\ msg' = Stored(b) /\ state' = state
         /\ one_seq_count' = IF b = 1 THEN one_seq_count + 1 ELSE 0
<1>1. Continue(b)
  BY DEF Data
<1> DEFINE s == Stored(b)
<1>2. s \in Seq(Bit) /\ Len(s) =< Len(p) + FCS + 6 /\ (s # <<>> => s[1] = p[1])
  OBVIOUS
<1> HIDE DEF s
<1>3. ~Overrun(s) /\ ~cannotBeValid(s)
  BY <1>2, NotCut
<1> QED
  BY <1>1, <1>3 DEF Continue, s

LEMMA BitsBegin ==
  ASSUME NEW p \in Payloads
  PROVE  Bits(p)[1] = p[1] /\ Len(p) \in Nat \ {0}
<1>1. p \in Seq(Bit) /\ p # <<>> /\ Fcs(p) \in Seq(Bit)
  BY PayloadProperties
<1>2. Len(p) \in Nat \ {0} /\ Len(Fcs(p)) \in Nat
  BY <1>1, EmptySeq, LenProperties
<1>3. \A i \in 1 .. Len(p) + Len(Fcs(p)) :
        (p \o Fcs(p))[i] = IF i <= Len(p) THEN p[i] ELSE Fcs(p)[i - Len(p)]
  BY <1>1, ConcatProperties
<1> QED
  BY <1>2, <1>3 DEF Bits

(* The message between its flags: what was stuffed is taken out again, and *)
(* the rest is stored.                                                     *)
LEMMA DataStep ==
  ASSUME TypeOK, SendBit, NEW p \in Payloads, InData(p)
  PROVE  InData(p)' \/ InEnd(p)'
<1>1. PICK b \in Bit :
           /\ tx.rest # <<>> /\ b = Head(tx.rest) /\ tx' = [tx EXCEPT !.rest = Tail(tx.rest)]
           /\ lastBit' = b
           /\ state = "DATAFCS" => Data(b)
           /\ out' = out \o Sent(b)
  BY BitSent
<1> DEFINE bits == Bits(p)
           N == Len(bits)
           f == Sending(bits)
<1>2. PICK n \in 0 .. N :
        /\ state = "DATAFCS" /\ out = <<>>
        /\ msg = SubSeq(bits, 1, N - n)
        /\ \/ one_seq_count \in 0 .. 4 /\ tx.rest = f[n][one_seq_count] \o FLAG
           \/ one_seq_count = 5 /\ tx.rest = (<<0>> \o f[n][0]) \o FLAG
  BY DEF InData
<1>3. tx'.rest = Tail(tx.rest) /\ Data(b)
  BY <1>1, <1>2, Untouched
<1>4. bits \in Seq(Bit) /\ N \in Nat /\ N = Len(p) + FCS
  BY FrameParts
<1>5. bits[1] = p[1] /\ Len(p) \in Nat \ {0} /\ FCS \in Nat
  BY BitsBegin, Sizes
<1>6. /\ \A k \in 0 .. N, o \in 0 .. 4 : f[k][o] \in Seq(Bit)
      /\ \A k \in 0 .. N : f[k] = Step(f, k, bits)
  BY <1>4, SendingProperties
<1>7. FLAG \in Seq(Bit) /\ <<0>> \in Seq(Bit) /\ <<1>> \in Seq(Bit)
  BY FlagBits DEF Bit
<1> HIDE DEF bits, f
<1>8. N - n \in 0 .. N /\ msg \in Seq(Bit) /\ Len(msg) = N - n /\ (N - n # 0 => msg[1] = p[1])
  <2>1. N - n \in 0 .. N
    BY <1>4
  <2>2. /\ SubSeq(bits, 1, N - n) \in Seq(Bit) /\ Len(SubSeq(bits, 1, N - n)) = N - n
        /\ N - n # 0 => SubSeq(bits, 1, N - n)[1] = bits[1]
    BY <1>4, <2>1, PrefixProperties
  <2> QED
    BY <1>2, <1>5, <2>1, <2>2
(* The bits of the payload, or a zero that was stuffed: what the next step *)
(* of the sending is.                                                      *)
<1>9. ASSUME NEW c \in Bit, NEW u \in Seq(Bit), tx.rest = (<<c>> \o u) \o FLAG
      PROVE  b = c /\ tx'.rest = u \o FLAG
  <2>1. <<c>> \in Seq(Bit) /\ <<c>> # <<>>
    OBVIOUS
  <2>2. u \o FLAG \in Seq(Bit)
    BY <1>7, ConcatProperties
  <2>3. (<<c>> \o u) \o FLAG = <<c>> \o (u \o FLAG)
    <3> DEFINE w == <<c>>
    <3>1. w \in Seq(Bit) /\ FLAG \in Seq(Bit)
      BY <1>7, <2>1
    <3> HIDE DEF w
    <3>2. (w \o u) \o FLAG = w \o (u \o FLAG)
      BY <3>1, BitsAssociative, Zenon
    <3> QED
      BY <3>2 DEF w
  <2> DEFINE v == u \o FLAG
  <2> HIDE DEF v
  <2>4. Head(<<c>> \o v) = Head(<<c>>) /\ Tail(<<c>> \o v) = Tail(<<c>>) \o v
    <3> DEFINE w == <<c>>
    <3>1. w \in Seq(Bit) /\ w # <<>> /\ v \in Seq(Bit)
      BY <2>1, <2>2 DEF v
    <3> HIDE DEF w
    <3>2. Head(w \o v) = Head(w) /\ Tail(w \o v) = Tail(w) \o v
      BY <3>1, FrontTaken, Zenon
    <3> QED
      BY <3>2 DEF w
  <2>5. Head(<<c>>) = c /\ Tail(<<c>>) = <<>>
    OBVIOUS
  <2>6. <<>> \o v = v
    BY <2>2, ConcatEmptySeq DEF v
  <2>7. tx.rest = <<c>> \o v
    BY <1>9, <2>3, Zenon DEF v
  <2>8. b = c
    BY <1>1, <2>4, <2>5, <2>7, Zenon
  <2>9. tx'.rest = v
    BY <1>3, <2>4, <2>5, <2>6, <2>7, Zenon
  <2> QED
    BY <2>8, <2>9 DEF v
<1>10. CASE one_seq_count = 5 /\ tx.rest = (<<0>> \o f[n][0]) \o FLAG
  <2>1. f[n][0] \in Seq(Bit) /\ 0 \in Bit
    BY <1>6 DEF Bit
  <2> DEFINE u == f[n][0]
  <2>2. u \in Seq(Bit) /\ tx.rest = (<<0>> \o u) \o FLAG
    BY <1>10, <2>1
  <2> HIDE DEF u
  <2>3. b = 0 /\ tx'.rest = u \o FLAG
    BY <1>9, <2>1, <2>2
  <2>4. Stored(b) = msg
    BY <1>10, <2>3 DEF Stored
  <2>5. msg' = msg /\ state' = state /\ one_seq_count' = 0
    <3>1. Len(msg) =< Len(p) + FCS + 6 /\ (msg # <<>> => msg[1] = p[1])
      BY <1>4, <1>5, <1>8, EmptySeq
    <3> QED
      BY <1>3, <1>8, <2>3, <2>4, <3>1, Continued
  <2>6. out' = <<>>
    BY <1>1, <1>2, <2>3, NothingSent
  <2>7. tx'.rest = f[n][one_seq_count'] \o FLAG /\ one_seq_count' \in 0 .. 4
    BY <2>3, <2>5 DEF u
  <2>8. state' = "DATAFCS" /\ msg' = SubSeq(bits, 1, N - n)
    BY <1>2, <2>5
  <2>9. InData(p)'
    BY <2>6, <2>7, <2>8 DEF InData, bits, f
  <2> QED
    BY <2>9
<1>11. CASE n # 0 /\ one_seq_count \in 0 .. 4 /\ tx.rest = f[n][one_seq_count] \o FLAG
  <2> DEFINE c == bits[N + 1 - n]
             o == one_seq_count
  <2>1. n - 1 \in 0 .. N /\ N + 1 - n \in 1 .. N /\ o \in 0 .. 4
    BY <1>4, <1>11
  <2>2. c \in Bit
    BY <1>4, <2>1, ElementOfSeq
  <2>3. f[n][o] = IF c = 0 THEN <<0>> \o f[n - 1][0]
                  ELSE IF o = 4 THEN <<1, 0>> \o f[n - 1][0] ELSE <<1>> \o f[n - 1][o + 1]
    <3>1. f[n] = Step(f, n, bits)
      BY <1>6, Zenon
    <3>2. Step(f, n, bits)[o] = IF c = 0 THEN <<0>> \o f[n - 1][0]
                  ELSE IF o = 4 THEN <<1, 0>> \o f[n - 1][0] ELSE <<1>> \o f[n - 1][o + 1]
      <4>1. n # 0
        BY <1>11
      <4> HIDE DEF o
      <4> QED
        BY <2>1, <4>1 DEF Step
    <3> HIDE DEF o
    <3> QED
      BY <3>1, <3>2, Zenon
  <2>4. o # 5 /\ Stored(b) = Append(msg, b)
    BY <2>1 DEF Stored
  <2>5. Append(msg, c) = SubSeq(bits, 1, N - (n - 1))
    <3>1. N - n # N /\ (N - n) + 1 = N + 1 - n /\ (N - n) + 1 = N - (n - 1)
      BY <1>4, <1>11
    <3>2. Append(SubSeq(bits, 1, N - n), bits[(N - n) + 1]) = SubSeq(bits, 1, (N - n) + 1)
      BY <1>4, <1>8, <3>1, Extended
    <3> QED
      BY <1>2, <3>1, <3>2
  <2> HIDE DEF c, o
  <2>6. ASSUME b = c
        PROVE  /\ msg' = SubSeq(bits, 1, N - (n - 1)) /\ state' = "DATAFCS"
               /\ one_seq_count' = IF b = 1 THEN o + 1 ELSE 0
               /\ out' = <<>>
    <3>1. N - (n - 1) \in 0 .. N /\ N - (n - 1) # 0
      BY <1>4, <2>1, <1>11
    <3> DEFINE s == SubSeq(bits, 1, N - (n - 1))
    <3>2. s \in Seq(Bit) /\ Len(s) = N - (n - 1) /\ s[1] = bits[1]
      BY <1>4, <3>1, PrefixProperties
    <3>3. Stored(b) = s
      BY <2>4, <2>5, <2>6
    <3> HIDE DEF s
    <3>4. Len(s) =< Len(p) + FCS + 6 /\ s[1] = p[1]
      BY <1>4, <1>5, <2>1, <3>1, <3>2
    <3>5. one_seq_count # 5
      BY <2>4 DEF o
    <3>6. /\ msg' = s /\ state' = state
          /\ one_seq_count' = IF b = 1 THEN one_seq_count + 1 ELSE 0
      BY <1>3, <3>2, <3>3, <3>4, <3>5, Continued
    <3>7. out' = <<>>
      BY <1>1, <1>2, <3>5, NothingSent
    <3> QED
      BY <1>2, <3>6, <3>7 DEF s, o
  <2>7. CASE c = 0
    <3> DEFINE u == f[n - 1][0]
    <3>1. u \in Seq(Bit) /\ tx.rest = (<<0>> \o u) \o FLAG /\ 0 \in Bit
      BY <1>6, <1>11, <2>1, <2>3, <2>7 DEF Bit, o
    <3> HIDE DEF u
    <3>2. b = 0 /\ tx'.rest = u \o FLAG
      BY <1>9, <3>1
    <3>3. /\ msg' = SubSeq(bits, 1, N - (n - 1)) /\ state' = "DATAFCS"
          /\ one_seq_count' = 0 /\ out' = <<>>
      BY <2>6, <2>7, <3>2
    <3>4. tx'.rest = f[n - 1][one_seq_count'] \o FLAG /\ one_seq_count' \in 0 .. 4
      BY <3>2, <3>3 DEF u
    <3>5. InData(p)'
      BY <2>1, <3>3, <3>4 DEF InData, bits, f
    <3> QED
      BY <3>5
  <2>8. CASE c = 1 /\ o = 4
    <3> DEFINE u == f[n - 1][0]
    <3>1. u \in Seq(Bit) /\ tx.rest = (<<1, 0>> \o u) \o FLAG /\ 0 \in Bit /\ 1 \in Bit
      BY <1>6, <1>11, <2>1, <2>3, <2>8 DEF Bit, o
    <3> HIDE DEF u
    <3> DEFINE v == <<0>> \o u
    <3>2. v \in Seq(Bit)
      BY <1>7, <3>1, ConcatProperties
    <3>3. <<1, 0>> \o u = <<1>> \o v
      <4>1. (<<1>> \o <<0>>) \o u = <<1>> \o (<<0>> \o u)
        BY <1>7, <3>1, BitsAssociative, Zenon
      <4>2. <<1>> \o <<0>> = <<1, 0>>
        <5>1. Append(<<1>>, 0) = <<1>> \o <<0>>
          BY <1>7, <3>1, AppendIsConcat, Zenon
        <5>2. Append(<<1>>, 0) = <<1, 0>>
          <6> DEFINE a == Append(<<1>>, 0)
                     d == <<1, 0>>
          <6>1. /\ a \in Seq(Bit) /\ Len(a) = Len(<<1>>) + 1
                /\ \A i \in 1 .. Len(<<1>>) : a[i] = <<1>>[i]
                /\ a[Len(<<1>>) + 1] = 0
            BY <1>7, <3>1, AppendProperties
          <6>2. Len(<<1>>) = 1 /\ <<1>>[1] = 1
            OBVIOUS
          <6>3. d \in Seq(Bit) /\ Len(d) = 2 /\ d[1] = 1 /\ d[2] = 0
            BY <3>1
          <6> HIDE DEF a, d
          <6>4. Len(a) = 2 /\ a[1] = 1 /\ a[2] = 0
            BY <6>1, <6>2
          <6>5. \A i \in 1 .. Len(a) : a[i] = d[i]
            BY <6>3, <6>4
          <6>6. a = d
            BY <6>1, <6>3, <6>4, <6>5, SeqEqual
          <6> QED
            BY <6>6 DEF a, d
        <5> QED
          BY <5>1, <5>2, Zenon
      <4> QED
        BY <4>1, <4>2
    <3> HIDE DEF v
    <3>4. b = 1 /\ tx'.rest = v \o FLAG
      BY <1>9, <3>1, <3>2, <3>3
    <3>5. /\ msg' = SubSeq(bits, 1, N - (n - 1)) /\ state' = "DATAFCS"
          /\ one_seq_count' = 5 /\ out' = <<>>
      BY <2>6, <2>8, <3>4
    <3>6. tx'.rest = (<<0>> \o f[n - 1][0]) \o FLAG
      BY <3>4 DEF u, v
    <3>7. InData(p)'
      BY <2>1, <3>5, <3>6 DEF InData, bits, f
    <3> QED
      BY <3>7
  <2>9. CASE c = 1 /\ o # 4
    <3> DEFINE u == f[n - 1][o + 1]
    <3>1. o + 1 \in 0 .. 4
      BY <2>1, <2>9 DEF o
    <3>2. u \in Seq(Bit) /\ tx.rest = (<<1>> \o u) \o FLAG /\ 1 \in Bit
      <4>1. u \in Seq(Bit) /\ 1 \in Bit
        BY <1>6, <2>1, <3>1 DEF Bit
      <4>2. f[n][o] = <<1>> \o u
        BY <2>3, <2>9
      <4>3. tx.rest = f[n][o] \o FLAG
        BY <1>11 DEF o
      <4> QED
        BY <4>1, <4>2, <4>3, Zenon
    <3> HIDE DEF u
    <3>3. b = 1 /\ tx'.rest = u \o FLAG
      BY <1>9, <3>2
    <3>4. /\ msg' = SubSeq(bits, 1, N - (n - 1)) /\ state' = "DATAFCS"
          /\ one_seq_count' = o + 1 /\ out' = <<>>
      BY <2>6, <2>9, <3>3
    <3>5. tx'.rest = f[n - 1][one_seq_count'] \o FLAG /\ one_seq_count' \in 0 .. 4
      BY <3>1, <3>3, <3>4 DEF u
    <3>6. InData(p)'
      BY <2>1, <3>4, <3>5 DEF InData, bits, f
    <3> QED
      BY <3>6
  <2> QED
    BY <2>2, <2>7, <2>8, <2>9 DEF Bit
<1>12. CASE n = 0 /\ one_seq_count \in 0 .. 4 /\ tx.rest = f[n][one_seq_count] \o FLAG
  <2>1. f[n][one_seq_count] = <<>>
    <3>1. f[n] = Step(f, n, bits)
      BY <1>6, Zenon
    <3>2. Step(f, n, bits)[one_seq_count] = <<>>
      BY <1>12 DEF Step
    <3> QED
      BY <3>1, <3>2, Zenon
  <2>2. tx.rest = FLAG
    BY <1>7, <1>12, <2>1, ConcatEmptySeq
  <2>3. b = 0 /\ tx'.rest = From(FLAG, 1)
    <3>1. 0 \in 0 .. Len(FLAG) /\ 0 # Len(FLAG) /\ 0 + 1 = 1 /\ FLAG[0 + 1] = 0
      BY FlagBits
    <3>2. From(FLAG, 0) = FLAG
      BY <1>7, <3>1, FromProperties
    <3>3. Head(From(FLAG, 0)) = FLAG[0 + 1] /\ Tail(From(FLAG, 0)) = From(FLAG, 0 + 1)
      BY <1>7, <3>1, FromProperties
    <3>4. b = FLAG[0 + 1] /\ tx'.rest = From(FLAG, 0 + 1)
      BY <1>1, <1>3, <2>2, <3>2, <3>3, Zenon
    <3> QED
      BY <3>1, <3>4, Zenon
  <2>4. msg = bits
    <3>1. N - n = N
      BY <1>4, <1>12
    <3> QED
      BY <1>2, <1>4, <3>1, SubSeqFull
  <2>5. Stored(b) = Append(bits, 0)
    BY <1>12, <2>3, <2>4 DEF Stored
  <2>6. /\ Append(bits, 0) \in Seq(Bit) /\ Len(Append(bits, 0)) = N + 1
        /\ Append(bits, 0)[1] = p[1]
    <3>1. 0 \in Bit /\ 1 \in 1 .. N
      BY <1>4, <1>5 DEF Bit
    <3>2. /\ Append(bits, 0) \in Seq(Bit) /\ Len(Append(bits, 0)) = N + 1
          /\ \A i \in 1 .. N : Append(bits, 0)[i] = bits[i]
      BY <1>4, <3>1, AppendProperties
    <3> QED
      BY <1>5, <3>1, <3>2
  <2> DEFINE s == Append(bits, 0)
  <2>7. s \in Seq(Bit) /\ Len(s) =< Len(p) + FCS + 6 /\ s[1] = p[1] /\ Stored(b) = s
    BY <1>4, <1>5, <2>5, <2>6
  <2> HIDE DEF s
  <2>8. msg' = s /\ state' = state /\ one_seq_count' = 0
    BY <1>3, <2>3, <2>7, Continued
  <2>9. out' = <<>>
    BY <1>1, <1>2, <2>3, NothingSent
  <2>10. s = bits \o SubSeq(FLAG, 1, 1)
    <3>1. SubSeq(FLAG, 1, 1) = <<0>>
      <4>1. 1 \in 0 .. Len(FLAG) /\ FLAG[1] = 0
        BY FlagBits
      <4> DEFINE g == SubSeq(FLAG, 1, 1)
      <4>2. g \in Seq(Bit) /\ Len(g) = 1 /\ g[1] = 0
        BY <1>7, <4>1, PrefixProperties
      <4> HIDE DEF g
      <4>3. Len(<<0>>) = 1 /\ <<0>>[1] = 0
        OBVIOUS
      <4>4. g = <<0>>
        BY <1>7, <4>2, <4>3, SeqEqual
      <4> QED
        BY <4>4 DEF g
    <3> QED
      BY <1>4, <3>1, AppendIsConcat DEF s, Bit
  <2>11. InEnd(p)'
    <3>1. 1 \in 1 .. 8 /\ 1 =< 6 /\ 1 - 1 = 0 /\ FLAG[1] = 0
      BY FlagBits
    <3> QED
      BY <1>1, <1>2, <2>3, <2>8, <2>9, <2>10, <3>1 DEF InEnd, bits
  <2> QED
    BY <2>11
<1> QED
  BY <1>2, <1>10, <1>11, <1>12

(* The last flag: its sixth one completes the message, whose end it does   *)
(* not belong to.                                                          *)
LEMMA Completed ==
  ASSUME NEW p \in Payloads, state = "DATAFCS", one_seq_count = 5,
         msg = Bits(p) \o SubSeq(FLAG, 1, 6)
  PROVE  Sent(1) = <<p>>
<1> DEFINE bits == Bits(p)
           N == Len(bits)
           n == Len(p)
<1>1. /\ bits \in Seq(Bit) /\ N \in Nat /\ N = n + FCS /\ n \in Nat \ {0} /\ FCS \in Nat
  BY FrameParts, BitsBegin, Sizes
<1>2. p \in Seq(Bit) /\ Fcs(p) \in Seq(Bit) /\ Len(Fcs(p)) = FCS /\ bits = p \o Fcs(p)
  BY PayloadProperties DEF Bits
<1> HIDE DEF bits
<1>3. SubSeq(FLAG, 1, 6) \in Seq(Bit) /\ Len(SubSeq(FLAG, 1, 6)) = 6
  <2>1. 6 \in 0 .. Len(FLAG)
    BY FlagBits
  <2> QED
    BY <2>1, FlagBits, PrefixProperties
<1>4. msg = bits \o SubSeq(FLAG, 1, 6)
  BY DEF bits
<1>5. Len(msg) = N + 6
  <2>1. Len(bits \o SubSeq(FLAG, 1, 6)) = N + Len(SubSeq(FLAG, 1, 6))
    BY <1>1, <1>3, ConcatProperties, Zenon
  <2>2. Len(msg) = N + Len(SubSeq(FLAG, 1, 6))
    BY <1>4, <2>1, Zenon
  <2> QED
    BY <1>3, <2>2, Zenon
<1>6. SubSeq(msg, 1, Len(msg) - 6) = bits
  <2>1. Len(msg) - 6 = N /\ 1 \in 1 .. N /\ N \in 1 .. N
    BY <1>1, <1>5
  <2>2. SubSeq(msg, 1, N) = SubSeq(bits, 1, N)
    <3> DEFINE g == SubSeq(FLAG, 1, 6)
    <3>1. g \in Seq(Bit) /\ msg = bits \o g
      BY <1>3, <1>4
    <3> HIDE DEF g
    <3>2. SubSeq(bits \o g, 1, N) = SubSeq(bits, 1, N)
      BY <1>1, <2>1, <3>1, SubSeqOfConcat1, Zenon
    <3> QED
      BY <3>1, <3>2, Zenon
  <2> QED
    BY <1>1, <2>1, <2>2, SubSeqFull
<1>7. SubSeq(bits, 1, N - FCS) = p
  <2>1. N - FCS = n /\ 1 \in 1 .. n /\ n \in 1 .. n
    BY <1>1
  <2>2. SubSeq(p \o Fcs(p), 1, n) = SubSeq(p, 1, n)
    BY <1>2, <2>1, SubSeqOfConcat1
  <2> QED
    BY <1>2, <2>1, <2>2, SubSeqFull
<1>8. SubSeq(bits, n + 1, N) = Fcs(p)
  <2>1. CASE FCS = 0
    <3>1. SubSeq(bits, n + 1, N) = <<>>
      BY <1>1, <2>1, SubSeqEmpty
    <3>2. Fcs(p) = <<>>
      BY <1>2, <2>1, EmptySeq
    <3> QED
      BY <3>1, <3>2
  <2>2. CASE FCS # 0
    <3>1. /\ n + 1 \in Len(p) + 1 .. Len(p) + Len(Fcs(p)) /\ N \in Len(p) + 1 .. Len(p) + Len(Fcs(p))
          /\ (n + 1) - Len(p) = 1 /\ N - Len(p) = Len(Fcs(p))
      BY <1>1, <1>2, <2>2
    <3>2. SubSeq(p \o Fcs(p), n + 1, N) = SubSeq(Fcs(p), (n + 1) - Len(p), N - Len(p))
      BY <1>2, <3>1, SubSeqOfConcat2
    <3> QED
      BY <1>2, <3>1, <3>2, SubSeqFull
  <2> QED
    BY <2>1, <2>2
<1>9. Found(bits)
  <2>1. N - FCS = n /\ n >= 0
    BY <1>1
  <2> QED
    BY <1>7, <1>8, <2>1 DEF Found
<1>10. Len(msg) >= 6
  BY <1>1, <1>5
<1> QED
  BY <1>6, <1>7, <1>9, <1>10 DEF Sent

LEMMA EndStep ==
  ASSUME TypeOK, SendBit, NEW p \in Payloads, InEnd(p)
  PROVE  InEnd(p)'
<1>1. PICK b \in Bit :
           /\ tx.rest # <<>> /\ b = Head(tx.rest) /\ tx' = [tx EXCEPT !.rest = Tail(tx.rest)]
           /\ lastBit' = b
           /\ state = "TRAINING" => Train(b)
           /\ state = "DATAFCS" => Data(b)
           /\ out' = out \o Sent(b)
  BY BitSent
<1>2. PICK i \in 1 .. 8 :
        /\ tx.rest = From(FLAG, i) /\ lastBit = FLAG[i]
        /\ IF i =< 6
           THEN /\ state = "DATAFCS" /\ out = <<>>
                /\ msg = Bits(p) \o SubSeq(FLAG, 1, i) /\ one_seq_count = i - 1
           ELSE state = "TRAINING" /\ out = <<p>>
  BY DEF InEnd
<1>3. tx'.rest = Tail(tx.rest)
  BY <1>1, Untouched
<1>4. i # 8
  <2>1. 8 \in 0 .. Len(FLAG) /\ 8 = Len(FLAG)
    BY FlagBits
  <2>2. From(FLAG, 8) = <<>>
    BY <2>1, FlagBits, FromProperties
  <2> QED
    BY <1>1, <1>2, <2>2
<1>5. b = FLAG[i + 1] /\ tx'.rest = From(FLAG, i + 1) /\ i + 1 \in 1 .. 8
  <2>1. i \in 0 .. Len(FLAG) /\ i # Len(FLAG) /\ i + 1 \in 1 .. 8
    BY <1>4, FlagBits
  <2>2. Head(From(FLAG, i)) = FLAG[i + 1] /\ Tail(From(FLAG, i)) = From(FLAG, i + 1)
    BY <2>1, FlagBits, FromProperties
  <2> QED
    BY <1>1, <1>2, <1>3, <2>1, <2>2
<1>6. CASE i < 6
  <2>1. b = 1 /\ i - 1 # 5 /\ i + 1 =< 6 /\ (i + 1) - 1 = (i - 1) + 1
    <3>1. i + 1 \in 2 .. 7
      BY <1>6
    <3> QED
      BY <1>5, <1>6, <3>1, FlagBits
  <2>2. /\ Bits(p) \in Seq(Bit) /\ Len(Bits(p)) = Len(p) + FCS /\ Bits(p)[1] = p[1]
        /\ Len(p) \in Nat \ {0} /\ FCS \in Nat
    BY FrameParts, BitsBegin, Sizes
  <2>3. Data(b) /\ one_seq_count = i - 1 /\ msg = Bits(p) \o SubSeq(FLAG, 1, i) /\ out = <<>>
    <3>1. i =< 6
      BY <1>6
    <3>2. /\ state = "DATAFCS" /\ out = <<>>
          /\ msg = Bits(p) \o SubSeq(FLAG, 1, i) /\ one_seq_count = i - 1
      BY <1>2, <3>1, Zenon
    <3> QED
      BY <1>1, <3>2, Zenon
  <2> DEFINE g == SubSeq(FLAG, 1, i)
             h == SubSeq(FLAG, 1, i + 1)
             bits == Bits(p)
  <2>4. /\ g \in Seq(Bit) /\ h \in Seq(Bit) /\ Len(h) = i + 1
        /\ Append(g, b) = h
    <3>1. i \in 0 .. Len(FLAG) /\ i + 1 \in 0 .. Len(FLAG) /\ i # Len(FLAG)
      BY <1>4, FlagBits
    <3>2. g \in Seq(Bit) /\ h \in Seq(Bit) /\ Len(h) = i + 1
      BY <3>1, FlagBits, PrefixProperties
    <3>3. Append(g, FLAG[i + 1]) = h
      BY <3>1, FlagBits, Extended
    <3> QED
      BY <1>5, <3>2, <3>3
  <2> HIDE DEF g, h, bits
  <2>5. bits \in Seq(Bit) /\ msg = bits \o g
    BY <2>2, <2>3 DEF bits, g
  <2>6. Append(msg, b) = bits \o h
    <3>1. bits \o g \in Seq(Bit) /\ <<b>> \in Seq(Bit)
      BY <2>4, <2>5, ConcatProperties
    <3>2. Append(bits \o g, b) = (bits \o g) \o <<b>>
      BY <3>1, AppendIsConcat
    <3>3. (bits \o g) \o <<b>> = bits \o (g \o <<b>>)
      <4>1. bits \in Seq(Bit) /\ g \in Seq(Bit) /\ <<b>> \in Seq(Bit)
        BY <2>4, <2>5, <3>1, Zenon
      <4> QED
        BY <4>1, BitsAssociative, Zenon
    <3>4. Append(g, b) = g \o <<b>>
      BY <2>4, AppendIsConcat
    <3> QED
      BY <2>4, <2>5, <3>2, <3>3, <3>4
  <2> DEFINE s == bits \o h
  <2>7. s \in Seq(Bit) /\ Len(s) =< Len(p) + FCS + 6 /\ s[1] = p[1]
    <3>1. /\ s \in Seq(Bit) /\ Len(s) = Len(bits) + Len(h)
          /\ \A k \in 1 .. Len(bits) + Len(h) :
               s[k] = IF k <= Len(bits) THEN bits[k] ELSE h[k - Len(bits)]
      BY <2>4, <2>5, ConcatProperties
    <3> HIDE DEF s
    <3>2. Len(bits) = Len(p) + FCS /\ bits[1] = p[1]
      BY <2>2 DEF bits
    <3>3. 1 \in 1 .. Len(bits) + Len(h) /\ 1 <= Len(bits)
      BY <2>2, <2>4, <3>2
    <3> QED
      BY <1>6, <2>2, <2>4, <3>1, <3>2, <3>3
  <2>8. Stored(b) = s
    BY <2>1, <2>6 DEF Stored
  <2> HIDE DEF s
  <2>9. one_seq_count # 5
    BY <2>1, <2>3
  <2>10. /\ msg' = s /\ state' = state
         /\ one_seq_count' = IF b = 1 THEN one_seq_count + 1 ELSE 0
    BY <2>3, <2>7, <2>8, <2>9, Continued
  <2>11. out' = <<>>
    BY <1>1, <2>3, <2>9, NothingSent
  <2>12. state' = "DATAFCS" /\ one_seq_count' = (i + 1) - 1
    BY <1>2, <1>6, <2>1, <2>3, <2>10
  <2>13. msg' = Bits(p) \o SubSeq(FLAG, 1, i + 1)
    BY <2>10 DEF s, bits, h
  <2> QED
    BY <1>1, <1>5, <2>1, <2>11, <2>12, <2>13 DEF InEnd
<1>7. CASE i = 6
  <2>1. b = 1 /\ one_seq_count = 5
    <3>1. i + 1 \in 2 .. 7
      BY <1>7
    <3> QED
      BY <1>2, <1>5, <1>7, <3>1, FlagBits
  <2>2. state = "DATAFCS" /\ out = <<>> /\ msg = Bits(p) \o SubSeq(FLAG, 1, 6) /\ Data(b)
    <3>1. i =< 6
      BY <1>7
    <3>2. state = "DATAFCS" /\ out = <<>> /\ msg = Bits(p) \o SubSeq(FLAG, 1, i)
      BY <1>2, <3>1, Zenon
    <3> QED
      BY <1>1, <1>7, <3>2, Zenon
  <2>3. state' = "TRAINING"
    BY <2>1, <2>2 DEF Data, NextState
  <2>4. Sent(1) = <<p>>
    BY <2>1, <2>2, Completed
  <2>5. out' = <<>> \o <<p>>
    BY <1>1, <2>1, <2>2, <2>4
  <2>6. out' = <<p>>
    BY <2>5
  <2>7. ~(i + 1 =< 6)
    BY <1>7
  <2> QED
    BY <1>1, <1>5, <2>3, <2>6, <2>7 DEF InEnd
<1>8. CASE i = 7
  <2>1. b = 0 /\ lastBit = 1
    <3>1. FLAG[7 + 1] = 0 /\ FLAG[7] = 1
      BY FlagBits
    <3> QED
      BY <1>2, <1>5, <1>8, <3>1
  <2>2. state = "TRAINING" /\ out = <<p>> /\ Train(b)
    BY <1>1, <1>2, <1>8
  <2>3. state' = "TRAINING"
    BY <2>1, <2>2 DEF Train
  <2>4. Sent(b) = <<>>
    BY <2>1 DEF Sent
  <2>5. out' = <<p>>
    <3>1. <<p>> \in Seq(Payloads)
      OBVIOUS
    <3>2. <<p>> \o <<>> = <<p>>
      BY <3>1, ConcatEmptySeq
    <3> QED
      BY <1>1, <2>2, <2>4, <3>2, Zenon
  <2>6. ~(i + 1 =< 6)
    BY <1>8
  <2> QED
    BY <1>1, <1>5, <2>3, <2>5, <2>6 DEF InEnd
<1> QED
  BY <1>4, <1>6, <1>7, <1>8

-----------------------------------------------------------------------------
(* Types.                                                                  *)

LEMMA RunTyped ==
  ASSUME TypeOK, NEW s \in BOOLEAN, Run(s)
  PROVE  /\ state' \in States /\ position' \in Nat /\ one_seq_count' \in 0 .. 5
         /\ prev' \in BOOLEAN /\ lastBit' \in Bit /\ msg' \in Seq(Bit)
<1> DEFINE b == IF s = prev THEN 1 ELSE 0
<1>1. b \in Bit
  BY DEF Bit
<1>2. /\ state \in States /\ position \in Nat /\ one_seq_count \in 0 .. 5
      /\ msg \in Seq(Bit)
  BY DEF TypeOK
<1>3. prev' = s /\ lastBit' = b
  BY DEF Run
<1>4. CASE state = "TRAINING"
  <2>1. Train(b)
    BY <1>4 DEF Run
  <2> HIDE DEF b
  <2>2. /\ state' \in States /\ msg' \in {msg, <<>>} /\ one_seq_count' \in {one_seq_count, 0}
        /\ position' \in {position, position + 1, 0, 1, 3}
    BY <1>4, <2>1 DEF Train, NextState, States
  <2>3. msg' \in Seq(Bit)
    BY <1>2, <2>2, EmptySeq
  <2>4. position' \in Nat /\ one_seq_count' \in 0 .. 5
    BY <1>2, <2>2
  <2>5. prev' \in BOOLEAN /\ lastBit' \in Bit
    BY <1>1, <1>3, Zenon DEF b
  <2> QED
    BY <2>2, <2>3, <2>4, <2>5, Zenon
<1>5. CASE state = "STARTFLAG"
  <2>1. Flag(b)
    BY <1>5 DEF Run
  <2> HIDE DEF b
  <2>2. /\ state' \in States /\ msg' \in {msg, <<>>} /\ one_seq_count' \in {one_seq_count, 0}
        /\ position' \in {position + 1, 0}
    BY <1>5, <2>1 DEF Flag, NextState, States
  <2>3. msg' \in Seq(Bit)
    BY <1>2, <2>2, EmptySeq
  <2>4. position' \in Nat /\ one_seq_count' \in 0 .. 5
    BY <1>2, <2>2
  <2>5. prev' \in BOOLEAN /\ lastBit' \in Bit
    BY <1>1, <1>3, Zenon DEF b
  <2> QED
    BY <2>2, <2>3, <2>4, <2>5, Zenon
<1>6. CASE state = "DATAFCS"
  <2>1. Data(b)
    BY <1>6 DEF Run
  <2> HIDE DEF b
  <2>2. Stored(b) \in Seq(Bit) /\ Len(Stored(b)) \in Nat
    <3>1. Stored(b) \in {msg, Append(msg, b)}
      BY DEF Stored
    <3>2. Stored(b) \in Seq(Bit)
      BY <1>1, <1>2, <3>1, AppendProperties
    <3> QED
      BY <3>2, LenProperties
  <2>3. CASE state' = "TRAINING" /\ position' = 0 /\ one_seq_count' = 0 /\ msg' = <<>>
    BY <1>1, <1>3, <2>3 DEF States
  <2>4. CASE /\ msg' = Stored(b) /\ position' = Len(Stored(b)) /\ state' = state
             /\ one_seq_count' = IF b = 1 THEN one_seq_count + 1 ELSE 0
             /\ ~(b = 1 /\ one_seq_count = 5)
    BY <1>1, <1>2, <1>3, <2>2, <2>4
  <2> QED
    BY <2>1, <2>3, <2>4 DEF Data, Continue, NextState
<1> QED
  BY <1>2, <1>4, <1>5, <1>6 DEF States

LEMMA SentTyped ==
  ASSUME TypeOK, NEW b
  PROVE  Sent(b) \in Seq(Seq(Bit))
<1>1. msg \in Seq(Bit) /\ Len(msg) \in Nat /\ FCS \in Nat
  BY LenProperties, Sizes DEF TypeOK
<1> DEFINE bits == SubSeq(msg, 1, Len(msg) - 6)
           data == SubSeq(bits, 1, Len(bits) - FCS)
<1>2. bits \in Seq(Bit)
  <2>1. \A i \in 1 .. Len(msg) - 6 : msg[i] \in Bit
    BY <1>1, ElementOfSeq
  <2>2. 1 \in Int /\ Len(msg) - 6 \in Int
    BY <1>1
  <2> QED
    BY <2>1, <2>2, SubSeqProperties
<1>3. Sent(b) = <<data>> \/ Sent(b) = <<>>
  BY DEF Sent
<1> HIDE DEF bits
<1>4. data \in Seq(Bit)
  <2>1. Len(bits) \in Nat
    BY <1>2, LenProperties
  <2>2. \A i \in 1 .. Len(bits) - FCS : bits[i] \in Bit
    BY <1>1, <1>2, <2>1, ElementOfSeq
  <2>3. 1 \in Int /\ Len(bits) - FCS \in Int
    BY <1>1, <2>1
  <2> QED
    BY <2>2, <2>3, SubSeqProperties
<1> HIDE DEF data
<1>5. <<data>> \in Seq(Seq(Bit)) /\ <<>> \in Seq(Seq(Bit))
  <2> DEFINE S == Seq(Bit)
  <2>1. data \in S
    BY <1>4
  <2> HIDE DEF S
  <2>2. <<data>> \in Seq(S) /\ <<>> \in Seq(S)
    BY <2>1
  <2> QED
    BY <2>2 DEF S
<1> QED
  BY <1>3, <1>5, Zenon

LEMMA TypeStep == TypeOK /\ [Next]_vars => TypeOK'
<1> SUFFICES ASSUME TypeOK, [Next]_vars
             PROVE  TypeOK'
  OBVIOUS
<1>1. /\ tx.rest \in Seq(Bit) /\ tx.frame \in Payloads \cup {NoFrame}
      /\ tx.noise \in 0 .. MaxNoise /\ tx.ready \in BOOLEAN
      /\ tx = [rest |-> tx.rest, frame |-> tx.frame, noise |-> tx.noise, ready |-> tx.ready]
      /\ prev \in BOOLEAN /\ out \in Seq(Seq(Bit)) /\ MaxNoise \in Nat
  BY Sizes DEF TypeOK
<1>2. <<>> \in Seq(Seq(Bit)) /\ <<>> \in Seq(Bit)
  OBVIOUS
<1>3. CASE Noise
  <2>1. PICK b \in Bit : Run(IF b = 1 THEN prev ELSE ~prev)
    BY <1>3 DEF Noise
  <2>2. (IF b = 1 THEN prev ELSE ~prev) \in BOOLEAN
    BY <1>1
  <2>3. /\ state' \in States /\ position' \in Nat /\ one_seq_count' \in 0 .. 5
        /\ prev' \in BOOLEAN /\ lastBit' \in Bit /\ msg' \in Seq(Bit)
    BY <2>1, <2>2, RunTyped
  <2>4. tx.rest = <<>> /\ tx.noise < MaxNoise
        /\ tx' = [tx EXCEPT !.noise = tx.noise + 1, !.frame = NoFrame, !.ready = FALSE]
        /\ out' = <<>>
    BY <1>3 DEF Noise
  <2>5. tx.noise + 1 \in 0 .. MaxNoise
    BY <1>1, <2>4
  <2>6. tx' \in [rest : Seq(Bit), frame : Payloads \cup {NoFrame}, noise : 0 .. MaxNoise,
                 ready : BOOLEAN]
    BY <1>1, <2>4, <2>5
  <2> QED
    BY <1>2, <2>3, <2>4, <2>6 DEF TypeOK
<1>4. CASE Begin
  <2>1. PICK p \in Payloads, first \in Bit :
          tx' = [rest |-> Frame(p, first), frame |-> p, noise |-> 0, ready |-> state = "TRAINING"]
    BY <1>4 DEF Begin
  <2>2. Frame(p, first) \in Seq(Bit)
    BY FrameParts
  <2>3. out' = <<>> /\ UNCHANGED decoder
    BY <1>4 DEF Begin
  <2>4. 0 \in 0 .. MaxNoise /\ (state = "TRAINING") \in BOOLEAN
    BY <1>1
  <2> DEFINE f == Frame(p, first)
             r == state = "TRAINING"
  <2>5. tx' = [rest |-> f, frame |-> p, noise |-> 0, ready |-> r]
    BY <2>1
  <2> HIDE DEF f, r
  <2>6. tx' \in [rest : Seq(Bit), frame : Payloads \cup {NoFrame}, noise : 0 .. MaxNoise,
                 ready : BOOLEAN]
    BY <2>2, <2>4, <2>5 DEF f, r
  <2> QED
    BY <1>2, <2>3, <2>6 DEF TypeOK, decoder
<1>5. CASE SendBit
  <2>1. PICK b \in Bit :
          /\ tx.rest # <<>> /\ tx' = [tx EXCEPT !.rest = Tail(tx.rest)]
          /\ out' = out \o Sent(b)
          /\ Run(IF b = 1 THEN prev ELSE ~prev)
    BY <1>5, BitSent
  <2>2. (IF b = 1 THEN prev ELSE ~prev) \in BOOLEAN
    BY <1>1
  <2>3. /\ state' \in States /\ position' \in Nat /\ one_seq_count' \in 0 .. 5
        /\ prev' \in BOOLEAN /\ lastBit' \in Bit /\ msg' \in Seq(Bit)
    BY <2>1, <2>2, RunTyped
  <2>4. Tail(tx.rest) \in Seq(Bit)
    BY <1>1, <2>1, HeadTailProperties
  <2>5. tx' \in [rest : Seq(Bit), frame : Payloads \cup {NoFrame}, noise : 0 .. MaxNoise,
                 ready : BOOLEAN]
    BY <1>1, <2>1, <2>4
  <2>6. out' \in Seq(Seq(Bit))
    BY <1>1, <2>1, SentTyped, ConcatProperties
  <2> QED
    BY <2>3, <2>5, <2>6 DEF TypeOK
<1>6. CASE Fade
  <2>1. tx' = [tx EXCEPT !.rest = <<>>, !.frame = NoFrame, !.ready = FALSE]
        /\ UNCHANGED <<decoder, out>>
    BY <1>6 DEF Fade
  <2>2. tx' \in [rest : Seq(Bit), frame : Payloads \cup {NoFrame}, noise : 0 .. MaxNoise,
                 ready : BOOLEAN]
    BY <1>1, <1>2, <2>1
  <2> QED
    BY <2>1, <2>2 DEF TypeOK, decoder
<1>7. CASE UNCHANGED vars
  BY <1>7 DEF vars, decoder, TypeOK
<1> QED
  BY <1>3, <1>4, <1>5, <1>6, <1>7 DEF Next

-----------------------------------------------------------------------------
(* The theorems.                                                           *)

LEMMA OnAirStep == IInv /\ [Next]_vars => OnAir'
<1> SUFFICES ASSUME TypeOK, OnAir, [Next]_vars
             PROVE  OnAir'
  BY DEF IInv
<1>1. CASE Noise
  <2>1. tx'.ready = FALSE
    BY <1>1 DEF Noise, TypeOK
  <2> QED
    BY <2>1 DEF OnAir
<1>2. CASE Begin
  <2>1. PICK p \in Payloads, first \in Bit :
          tx' = [rest |-> Frame(p, first), frame |-> p, noise |-> 0, ready |-> state = "TRAINING"]
    BY <1>2 DEF Begin
  <2>2. out' = <<>> /\ state' = state /\ position' = position
    BY <1>2 DEF Begin, decoder
  <2>3. tx'.rest = Frame(p, first) /\ tx'.frame = p /\ (tx'.ready => state = "TRAINING")
    BY <2>1
  <2>4. ASSUME tx'.ready
        PROVE  InTraining(p)'
    <3> DEFINE t == Training(first)
               r == FLAG \o Body(p)
    <3>1. t \in Seq(Bit) /\ 0 \in 0 .. Len(t)
      BY TrainingBits, LenProperties
    <3>2. From(t, 0) = t
      BY <3>1, FromProperties
    <3>3. Frame(p, first) = t \o r
      BY FrameParts
    <3>4. tx'.rest = From(t, 0) \o r
      BY <2>3, <3>2, <3>3
    <3>5. state' = "TRAINING" /\ position' >= 0 - 3 /\ 0 \in 0 .. TRAINING_BITS /\ ~(0 > 0)
      BY <2>2, <2>3, <2>4, Sizes DEF TypeOK
    <3> QED
      BY <2>2, <3>4, <3>5 DEF InTraining
  <2> QED
    BY <2>3, <2>4 DEF OnAir
<1>3. CASE SendBit
  <2>1. tx'.ready = tx.ready /\ tx'.frame = tx.frame
    BY <1>3, Untouched DEF SendBit
  <2> SUFFICES ASSUME tx.ready
               PROVE  \E p \in Payloads :
                        /\ tx'.frame = p
                        /\ InTraining(p)' \/ InFlag(p)' \/ InData(p)' \/ InEnd(p)'
    BY <2>1 DEF OnAir
  <2>2. PICK p \in Payloads :
          /\ tx.frame = p
          /\ InTraining(p) \/ InFlag(p) \/ InData(p) \/ InEnd(p)
    BY DEF OnAir
  <2>3. InTraining(p)' \/ InFlag(p)' \/ InData(p)' \/ InEnd(p)'
    BY <1>3, <2>2, TrainingStep, FlagStep, DataStep, EndStep
  <2> QED
    BY <2>1, <2>2, <2>3
<1>4. CASE Fade
  <2>1. tx'.ready = FALSE
    BY <1>4 DEF Fade, TypeOK
  <2> QED
    BY <2>1 DEF OnAir
<1>5. CASE UNCHANGED vars
  <2>1. /\ tx' = tx /\ state' = state /\ position' = position /\ out' = out /\ msg' = msg
        /\ lastBit' = lastBit /\ one_seq_count' = one_seq_count
    BY <1>5 DEF vars, decoder
  <2> QED
    <3>1. ASSUME NEW p \in Payloads
          PROVE  /\ InTraining(p) => InTraining(p)'
                 /\ InFlag(p) => InFlag(p)'
                 /\ InData(p) => InData(p)'
                 /\ InEnd(p) => InEnd(p)'
      <4>1. InTraining(p) => InTraining(p)'
        BY <2>1 DEF InTraining
      <4>2. InFlag(p) => InFlag(p)'
        BY <2>1 DEF InFlag
      <4>3. InData(p) => InData(p)'
        BY <2>1 DEF InData
      <4>4. InEnd(p) => InEnd(p)'
        BY <2>1 DEF InEnd
      <4> QED
        BY <4>1, <4>2, <4>3, <4>4
    <3> QED
      BY <2>1, <3>1 DEF OnAir
<1> QED
  BY <1>1, <1>2, <1>3, <1>4, <1>5 DEF Next

LEMMA Invariance == Spec => []IInv
<1>1. Init => IInv
  <2> SUFFICES ASSUME Init
               PROVE  IInv
    OBVIOUS
  <2>1. MaxNoise \in Nat /\ <<>> \in Seq(Bit) /\ <<>> \in Seq(Seq(Bit))
    BY Sizes
  <2>2. tx \in [rest : Seq(Bit), frame : Payloads \cup {NoFrame}, noise : 0 .. MaxNoise,
                ready : BOOLEAN]
    BY <2>1 DEF Init
  <2>3. TypeOK
    <3>1. /\ state \in States /\ position \in Nat /\ one_seq_count \in 0 .. 5
          /\ prev \in BOOLEAN /\ lastBit \in Bit
      <4>1. state = "TRAINING" /\ position = 0 /\ one_seq_count = 0 /\ prev = FALSE /\ lastBit = 0
        BY Zenon DEF Init
      <4>2. prev \in BOOLEAN
        BY <4>1, Zenon
      <4> QED
        BY <4>1, <4>2 DEF States, Bit
    <3>2. msg \in Seq(Bit) /\ out \in Seq(Seq(Bit))
      BY <2>1, Zenon DEF Init
    <3> QED
      BY <2>2, <3>1, <3>2, Zenon DEF TypeOK
  <2>4. tx.ready = FALSE
    BY DEF Init
  <2> QED
    BY <2>3, <2>4 DEF IInv, OnAir
<1>2. IInv /\ [Next]_vars => IInv'
  BY TypeStep, OnAirStep DEF IInv
<1> QED
  BY <1>1, <1>2, PTL DEF Spec

(* What the decoder and the transmitter hold is of its type: among others, *)
(* Run() never counts more than five ones in a row.                        *)
THEOREM TypeCorrect == Spec => []TypeOK
<1>1. IInv => TypeOK
  BY DEF IInv
<1> QED
  BY <1>1, Invariance, PTL

(* Whatever noise came before, and however many bits Run() has to take out *)
(* again, a frame that begins while the decoder looks for training is sent *)
(* on once and unchanged, and is not given up for its length.              *)
THEOREM FramesAreReceived == Spec => []FrameReceived
<1>1. IInv => FrameReceived
  <2> SUFFICES ASSUME IInv, Ended, tx.ready
               PROVE  out = <<tx.frame>> /\ state = "TRAINING"
    BY DEF FrameReceived
  <2>1. tx.rest = <<>>
    BY DEF Ended
  <2>2. PICK p \in Payloads :
          /\ tx.frame = p
          /\ InTraining(p) \/ InFlag(p) \/ InData(p) \/ InEnd(p)
    BY DEF IInv, OnAir
  <2>3. /\ Body(p) \in Seq(Bit) /\ FLAG \o Body(p) \in Seq(Bit) /\ FLAG \in Seq(Bit)
        /\ Bits(p) \in Seq(Bit)
    BY FrameParts, FlagBits
  <2>4. ASSUME NEW s \in Seq(Bit), NEW t \in Seq(Bit), t # <<>>
        PROVE  s \o t # <<>>
    <3>1. CASE s = <<>>
      BY <2>4, <3>1, ConcatEmptySeq, Zenon
    <3>2. CASE s # <<>>
      BY <3>2, FrontTaken, Zenon
    <3> QED
      BY <3>1, <3>2
  <2>5. FLAG # <<>>
    BY DEF FLAG
  <2>6. FLAG \o Body(p) # <<>> /\ Body(p) # <<>>
    <3>1. FLAG \o Body(p) # <<>>
      BY <2>3, <2>5, FrontTaken, Zenon
    <3> DEFINE n == Len(Bits(p))
    <3>2. n \in 0 .. n /\ 0 \in 0 .. 4 /\ Body(p) = Sending(Bits(p))[n][0] \o FLAG
      BY FrameParts
    <3>3. Sending(Bits(p))[n][0] \in Seq(Bit)
      BY <2>3, <3>2, SendingProperties
    <3> QED
      BY <2>3, <2>4, <2>5, <3>1, <3>2, <3>3
  <2>7. ~InTraining(p)
    <3> SUFFICES ASSUME InTraining(p)
                 PROVE  FALSE
      OBVIOUS
    <3>1. PICK first \in Bit, j \in 0 .. TRAINING_BITS :
            tx.rest = From(Training(first), j) \o (FLAG \o Body(p))
      BY DEF InTraining
    <3>2. From(Training(first), j) \in Seq(Bit)
      BY TrainingBits, FromProperties
    <3> QED
      BY <2>1, <2>3, <2>4, <2>6, <3>1, <3>2, Zenon
  <2>8. ~InFlag(p)
    <3> SUFFICES ASSUME InFlag(p)
                 PROVE  FALSE
      OBVIOUS
    <3>1. PICK i \in 1 .. 7 : tx.rest = From(FLAG, i) \o Body(p)
      BY DEF InFlag
    <3>2. i \in 0 .. Len(FLAG)
      BY FlagBits
    <3>3. From(FLAG, i) \in Seq(Bit)
      BY <2>3, <3>2, FromProperties
    <3> QED
      BY <2>1, <2>3, <2>4, <2>6, <3>1, <3>3, Zenon
  <2>9. ~InData(p)
    <3> SUFFICES ASSUME InData(p)
                 PROVE  FALSE
      OBVIOUS
    <3>1. PICK n \in 0 .. Len(Bits(p)) :
            \/ one_seq_count \in 0 .. 4 /\ tx.rest = Sending(Bits(p))[n][one_seq_count] \o FLAG
            \/ one_seq_count = 5 /\ tx.rest = (<<0>> \o Sending(Bits(p))[n][0]) \o FLAG
      BY DEF InData
    <3>2. \A o \in 0 .. 4 : Sending(Bits(p))[n][o] \in Seq(Bit)
      BY <2>3, SendingProperties
    <3>3. <<0>> \o Sending(Bits(p))[n][0] \in Seq(Bit)
      <4>1. <<0>> \in Seq(Bit) /\ Sending(Bits(p))[n][0] \in Seq(Bit)
        BY <3>2 DEF Bit
      <4> QED
        BY <4>1, ConcatProperties
    <3> QED
      BY <2>1, <2>3, <2>4, <2>5, <3>1, <3>2, <3>3, Zenon
  <2>10. PICK i \in 1 .. 8 :
           /\ tx.rest = From(FLAG, i)
           /\ IF i =< 6 THEN state = "DATAFCS" /\ out = <<>>
                        ELSE state = "TRAINING" /\ out = <<p>>
    <3>1. InEnd(p)
      BY <2>2, <2>7, <2>8, <2>9
    <3> QED
      BY <3>1 DEF InEnd
  <2>11. i = 8
    <3>1. i \in 0 .. Len(FLAG) /\ (i # 8 => i # Len(FLAG))
      BY FlagBits
    <3> QED
      BY <2>1, <2>3, <2>10, <3>1, FromProperties
  <2> QED
    BY <2>2, <2>10, <2>11
<1> QED
  BY <1>1, Invariance, PTL

=============================================================================
