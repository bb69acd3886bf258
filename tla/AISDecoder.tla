----------------------------- MODULE AISDecoder -----------------------------
(***************************************************************************)
(* Marine/AIS.h: the bit decoder, one state machine per channel, fed with  *)
(* the sign of one sample per bit.  The transmitter is the environment:    *)
(* noise of any bits, then a frame as ITU-R M.1371 has it -- training,     *)
(* flag, the payload with its check bits, stuffed, flag -- then noise      *)
(* again.  A payload is a short sequence of bits whose first bit is its    *)
(* type; the check bits are an operator, of which only the width matters.  *)
(***************************************************************************)
EXTENDS Integers, Sequences, SequencesExt

CONSTANTS
  MIN_TRAINING_BITS,
  MaxBits,          \* MAX_AIS_FRAME_LENGTH
  Fcs(_), FCS,      \* the check bits of a payload, and how many they are (16)
  MaxLength,        \* the longest payload of the types that have one
  Payloads,         \* the payloads sent
  TRAINING_BITS,    \* what a transmitter sends (24)
  MaxNoise          \* bound: bits of noise in a row

Bit == {0, 1}
END == FCS + 8

ASSUME DecoderSizes ==
  /\ MaxBits \in Nat \ {0} /\ MIN_TRAINING_BITS \in Nat /\ FCS \in Nat /\ MaxNoise \in Nat
  /\ Payloads \subseteq Seq(Bit) \ {<<>>}
  /\ TRAINING_BITS \in Nat /\ TRAINING_BITS >= MIN_TRAINING_BITS + 4
  /\ \A t \in DOMAIN MaxLength : MaxLength[t] \in Nat
  /\ \A p \in Payloads : p[1] \in DOMAIN MaxLength => Len(p) =< MaxLength[p[1]]
  /\ \A p \in Payloads : Fcs(p) \in Seq(Bit) /\ Len(Fcs(p)) = FCS
  /\ \A p \in Payloads : Len(p) + FCS + 7 =< MaxBits

VARIABLES
  state, position, one_seq_count,
  prev,       \* the last sample's sign: the level of the line
  lastBit,
  msg,        \* the bits stored, up to position
  out,        \* the payloads sent on since the frame began
  tx          \* the transmitter: the bits still to send, the frame, what came before

decoder == <<state, position, one_seq_count, prev, lastBit, msg>>
vars == <<decoder, out, tx>>

States == {"TRAINING", "STARTFLAG", "DATAFCS"}
NoFrame == <<>>

TypeOK ==
  /\ state \in States /\ position \in Nat /\ one_seq_count \in 0 .. 5
  /\ prev \in BOOLEAN /\ lastBit \in Bit
  /\ msg \in Seq(Bit) /\ out \in Seq(Seq(Bit))
  /\ tx \in [rest : Seq(Bit), frame : Payloads \cup {NoFrame}, noise : 0 .. MaxNoise,
             ready : BOOLEAN]

Init ==
  /\ state = "TRAINING" /\ position = 0 /\ one_seq_count = 0
  /\ prev = FALSE /\ lastBit = 0 /\ msg = <<>> /\ out = <<>>
  /\ tx = [rest |-> <<>>, frame |-> NoFrame, noise |-> 0, ready |-> FALSE]

-----------------------------------------------------------------------------
(* The decoder.                                                            *)

NextState(s, pos) ==
  /\ state' = s /\ position' = pos /\ one_seq_count' = 0
  /\ msg' = <<>>    \* cleared on entering DATAFCS, not looked at before

(* The changes of bits are counted as far as it matters.                   *)
Train(b) ==
  IF b # lastBit
  THEN /\ position' = IF position > MIN_TRAINING_BITS THEN position ELSE position + 1
       /\ UNCHANGED <<state, one_seq_count, msg>>
  ELSE IF position > MIN_TRAINING_BITS
                     THEN NextState("STARTFLAG", IF b = 1 THEN 3 ELSE 1)
                     ELSE NextState("TRAINING", 0)

Flag(b) ==
  IF position = 7
  THEN IF b = 0 THEN NextState("DATAFCS", 0) ELSE NextState("TRAINING", 0)
  ELSE IF b = 1 THEN position' = position + 1 /\ UNCHANGED <<state, one_seq_count, msg>>
                ELSE NextState("TRAINING", 0)

(* processData(): the check bits are right.  An empty payload is valid.    *)
Found(bits) ==
  LET n == Len(bits) - FCS
  IN  n >= 0 /\ SubSeq(bits, n + 1, Len(bits)) = Fcs(SubSeq(bits, 1, n))

(* cannotBeValid(): longer than any message of its type.                   *)
cannotBeValid(bits) ==
  /\ bits # <<>> /\ bits[1] \in DOMAIN MaxLength
  /\ Len(bits) = MaxLength[bits[1]] + END

(* Mutant: stuffing is kept.                                               *)
Stored_Stuffed(b) == Append(msg, b)

(* The bit is stored, or taken out again as stuffing; position is the      *)
(* number of bits stored.                                                  *)
Stored(b) ==
  IF b = 0 /\ one_seq_count = 5 THEN msg ELSE Append(msg, b)

(* Mutant: the length is not looked at.                                    *)
Overrun_Never(bits) == FALSE
Overrun(bits) == Len(bits) = MaxBits

Continue(b) ==
  IF Overrun(Stored(b)) \/ cannotBeValid(Stored(b))
  THEN NextState("TRAINING", 0)
  ELSE /\ msg' = Stored(b) /\ position' = Len(Stored(b))
       /\ one_seq_count' = IF b = 1 THEN one_seq_count + 1 ELSE 0
       /\ UNCHANGED state

Data(b) ==
  IF b = 1 /\ one_seq_count = 5 THEN NextState("TRAINING", 0) ELSE Continue(b)

(* What this bit completes: the data before the 7 bits of the flag.        *)
Sent(b) ==
  LET bits == SubSeq(msg, 1, Len(msg) - 6)
  IN  IF state = "DATAFCS" /\ b = 1 /\ one_seq_count = 5 /\ Len(msg) >= 6 /\ Found(bits)
      THEN <<SubSeq(bits, 1, Len(bits) - FCS)>>
      ELSE <<>>

(* Run(): one sample, decoded from NRZI.                                   *)
Run(sample) ==
  LET b == IF sample = prev THEN 1 ELSE 0
  IN  /\ prev' = sample /\ lastBit' = b
      /\ CASE state = "TRAINING" -> Train(b)
           [] state = "STARTFLAG" -> Flag(b)
           [] state = "DATAFCS" -> Data(b)

-----------------------------------------------------------------------------
(* The transmitter.                                                        *)

(* A zero after every five ones: what is sent for the last n bits, when so *)
(* many ones went before them.                                             *)
Stuffed(bits) ==
  LET last[n \in 0 .. Len(bits)] ==
        [ones \in 0 .. 4 |->
           IF n = 0 THEN <<>>
           ELSE IF bits[Len(bits) + 1 - n] = 0 THEN <<0>> \o last[n - 1][0]
           ELSE IF ones = 4 THEN <<1, 0>> \o last[n - 1][0]
           ELSE <<1>> \o last[n - 1][ones + 1]]
  IN  last[Len(bits)][0]

FLAG == <<0, 1, 1, 1, 1, 1, 1, 0>>

(* A frame whose training begins with the given bit.                       *)
Frame(p, first) ==
  [i \in 1 .. TRAINING_BITS |-> (first + i + 1) % 2] \o FLAG \o Stuffed(p \o Fcs(p)) \o FLAG

Receives(b) ==
  /\ Run(IF b = 1 THEN prev ELSE ~prev)
  /\ out' = out \o Sent(b)

Noise ==
  /\ tx.rest = <<>> /\ tx.noise < MaxNoise
  /\ \E b \in Bit : Run(IF b = 1 THEN prev ELSE ~prev)
  /\ tx' = [tx EXCEPT !.noise = @ + 1, !.frame = NoFrame, !.ready = FALSE]
  /\ out' = <<>>

Begin ==
  /\ tx.rest = <<>>
  /\ \E p \in Payloads, first \in Bit :
       tx' = [rest |-> Frame(p, first), frame |-> p, noise |-> 0, ready |-> state = "TRAINING"]
  /\ out' = <<>>
  /\ UNCHANGED decoder

SendBit ==
  /\ tx.rest # <<>>
  /\ Receives(Head(tx.rest))
  /\ tx' = [tx EXCEPT !.rest = Tail(@)]

(* The signal is lost in the middle of a frame.                            *)
Fade ==
  /\ tx.rest # <<>>
  /\ tx' = [tx EXCEPT !.rest = <<>>, !.frame = NoFrame, !.ready = FALSE]
  /\ UNCHANGED <<decoder, out>>

Next == Noise \/ Begin \/ SendBit \/ Fade

Spec == Init /\ [][Next]_vars

-----------------------------------------------------------------------------
(* Properties.                                                             *)

Ended == tx.frame # NoFrame /\ tx.rest = <<>>

(* Whatever noise came before, a frame that begins while the decoder looks *)
(* for training is sent on, once and as it was, however many bits had to   *)
(* be stuffed, and the decoder is ready for the next one at its last bit.  *)
FrameReceived == Ended /\ tx.ready => out = <<tx.frame>> /\ state = "TRAINING"

(* No bit is stored beyond the message, however long the flag stays away:  *)
(* a type without a length of its own is only stopped by MaxBits.          *)
InBounds == Len(msg) < MaxBits
=============================================================================
