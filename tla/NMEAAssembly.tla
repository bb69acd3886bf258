--------------------------- MODULE NMEAAssembly ---------------------------
(***************************************************************************)
(* How the NMEA decoder puts AIS messages of several sentences together    *)
(* (Marine/NMEA.cpp).  One decoder reads what any number of stations send, *)
(* over lines that lose, repeat, reorder and interleave sentences.  The    *)
(* sentences that wait for their successors are in one queue; a sentence   *)
(* finds its predecessors by a key made of a few header fields.            *)
(*                                                                         *)
(* A sentence is a part of one of the messages sent (Message gives their   *)
(* headers), with a correct checksum or not.  Times are ages: how long ago *)
(* a sentence came in, saturating once it is older than any test asks.     *)
(* The decoder is single-threaded: an action is one sentence.              *)
(*                                                                         *)
(* Left out: lines with a one-sentence message, which do not touch the     *)
(* queue, and the framing of lines.                                        *)
(***************************************************************************)
EXTENDS Integers, Sequences, SequencesExt

CONSTANTS Message,     \* [name -> header]: talker, channel, group, id, count
          MaxNumber,   \* 9 in the code: counts and numbers are one digit
          MaxQueue,    \* 64 in the code
          MaxAge,      \* seconds a part may wait, 3 in the code
          MayBeDamaged \* the messages whose sentences may have a bad checksum

ASSUME Headers ==
    /\ MaxQueue \in Nat /\ MaxAge \in Nat /\ MaxNumber \in 2..MaxQueue
    /\ \A m \in DOMAIN Message :
         /\ DOMAIN Message[m] = {"talker", "channel", "group", "id", "count"}
         /\ Message[m].count \in 2..MaxNumber

Names == DOMAIN Message

VARIABLES
    queue,           \* the sentences that wait
    reading,         \* whether the sentences come from a JSON array
    tag_error,       \* tag.error, which a line starts with FALSE
    sent,            \* the parts of the message sent in the last step, or <<>>
    sent_error,      \* the error flag it was sent with
    cfg_crc_check,   \* whether sentences with a bad checksum are dropped
    tainted,         \* history: a sentence of that array was damaged
    watched          \* history: the undisturbed progress of one message

vars == <<queue, reading, tag_error, sent, sent_error, cfg_crc_check, tainted, watched>>

\* match_key is 32 bits of which clean() compares the upper 24.  A group of a
\* tag block replaces the talker, and leaves out the count.
Upper(h) == IF h.group # 0 THEN <<"group", h.group, h.channel>>
                             ELSE <<h.talker, h.channel>>
Lower(h) == IF h.group # 0 THEN <<h.id>> ELSE <<h.count, h.id>>
MatchKey(h) == <<Upper(h), Lower(h)>>

\* The sentences of a JSON array come without tag blocks.
Ungrouped(m) == [Message[m] EXCEPT !.group = 0]

\* Part n of message m, under the header h, `age` seconds after it came in.
\* No check relates the number to the count: it may be larger.
Part(h, m, n, bad, age) ==
    [key |-> MatchKey(h), count |-> h.count, number |-> n,
     message_error |-> bad, msg |-> m, age |-> age]

AIVDM(h, m, n, bad) == Part(h, m, n, bad, 0)

\* The elements of q at the positions in S, in order.
Selected(q, S) ==
    LET upto[n \in 0..Len(q)] ==
          IF n = 0 THEN <<>>
          ELSE IF n \in S THEN Append(upto[n - 1], q[n]) ELSE upto[n - 1]
    IN  upto[Len(q)]

Positions(q, k) == {i \in DOMAIN q : q[i].key = k}

\* Looks from the newest sentence back.
search(k) ==
    LET S == Positions(queue, k)
    IN  IF S = {} THEN 0 ELSE queue[Max(S)].number

Fresh(q, ref) == {i \in DOMAIN q : q[i].key[1] # ref.key[1] /\ q[i].age <= MaxAge}

clean(q, ref) == Selected(q, Fresh(q, ref))

Intact(parts) ==
    \A i \in DOMAIN parts : parts[i].msg = parts[1].msg /\ ~parts[i].message_error

-----------------------------------------------------------------------------
(* assembleAIS(): a sentence is dropped, waits, or completes a message.    *)

Successor(a) == a.number = search(a.key) + 1

(* Mutant: a first part does not end what is left of an older message.    *)
Continued_KeepsOld(a) ==
    IF Successor(a) \/ a.number = 1 THEN queue ELSE clean(queue, a)

\* The queue when the sentence does not continue the message it is of.
Continued(a) == IF Successor(a) THEN queue ELSE clean(queue, a)

Pushed(a) ==
    LET q == Continued(a)
    IN  Append(IF Len(q) >= MaxQueue THEN Tail(q) ELSE q, a)

NothingSent == sent' = <<>> /\ sent_error' = FALSE

Drop(a, error) ==
    /\ ~Successor(a) /\ a.number # 1
    /\ queue' = clean(queue, a)
    /\ tag_error' = error
    /\ NothingSent

Wait(a, error) ==
    /\ Successor(a) \/ a.number = 1
    /\ a.number # a.count
    /\ queue' = Pushed(a)
    /\ tag_error' = error
    /\ NothingSent

(* Mutant: the parts found are not counted.                               *)
Complete_Uncounted(a, error) ==
    /\ Successor(a)
    /\ a.number = a.count
    /\ \E parts \in {Selected(Pushed(a), Positions(Pushed(a), a.key))},
          valid \in BOOLEAN :
          /\ Intact(parts) => valid
          /\ tag_error' = (error \/ \E i \in DOMAIN parts : parts[i].message_error)
          /\ IF valid
               THEN sent' = parts /\ sent_error' = tag_error'
               ELSE NothingSent
    /\ queue' = clean(Pushed(a), a)

\* validate() looks at type and length, which parts of different messages may
\* happen to satisfy, and damaged ones too.
Complete(a, error) ==
    /\ Successor(a)
    /\ a.number = a.count
    /\ \E parts \in {Selected(Pushed(a), Positions(Pushed(a), a.key))},
          valid \in BOOLEAN :
          /\ Intact(parts) => valid
          /\ tag_error' = (error \/ \E i \in DOMAIN parts : parts[i].message_error)
          /\ IF Len(parts) = a.count /\ valid
               THEN sent' = parts /\ sent_error' = tag_error'
               ELSE NothingSent
    /\ queue' = clean(Pushed(a), a)

\* processAIS(): the checksum, then assembleAIS().
Dropped(a) == a.message_error /\ cfg_crc_check

processAIS(a, error) ==
    IF Dropped(a)
      THEN UNCHANGED queue /\ tag_error' = error /\ NothingSent
      ELSE Drop(a, error) \/ Wait(a, error) \/ Complete(a, error)

-----------------------------------------------------------------------------
(* The history `watched` follows one message whose parts come in order and *)
(* undamaged.                                                              *)

Unwatched == [parts |-> 0]

Finished == watched # Unwatched /\ watched.parts = Message[watched.msg].count

\* A sentence of the same talker and channel, or of the same group, disturbs
\* it; so do so many others that the queue overflows.
Followed(a) ==
    IF watched = Unwatched \/ Finished THEN Unwatched
    ELSE IF watched.pushed + 1 = MaxQueue THEN Unwatched
    ELSE IF /\ a.key = watched.key /\ a.msg = watched.msg
            /\ a.number = watched.parts + 1 /\ ~a.message_error
      THEN [watched EXCEPT !.parts = @ + 1, !.pushed = @ + 1]
    ELSE IF a.key[1] = watched.key[1] THEN Unwatched
    ELSE [watched EXCEPT !.pushed = @ + 1]

Begun(a) ==
    IF a.number = 1 /\ ~a.message_error
      THEN {[msg |-> a.msg, key |-> a.key, parts |-> 1, pushed |-> 0, age |-> 0]}
      ELSE {}

Watch(a) ==
    watched' \in IF Dropped(a) THEN {IF Finished THEN Unwatched ELSE watched}
                 ELSE {Followed(a)} \cup Begun(a)

-----------------------------------------------------------------------------
Init ==
    /\ queue = <<>> /\ reading = FALSE
    /\ tag_error = FALSE
    /\ sent = <<>> /\ sent_error = FALSE
    /\ cfg_crc_check \in BOOLEAN
    /\ tainted = FALSE /\ watched = Unwatched

NotReading == reading' = FALSE /\ tainted' = FALSE

(* Mutant: no tag.clear().                                                *)
Line_NotCleared(m, n, bad) ==
    /\ bad => m \in MayBeDamaged
    /\ \E a \in {AIVDM(Message[m], m, n, bad)} : processAIS(a, tag_error) /\ Watch(a)
    /\ NotReading
    /\ UNCHANGED cfg_crc_check

\* A line with one sentence, with or without a tag block; tag.clear() first.
Line(m, n, bad) ==
    /\ bad => m \in MayBeDamaged
    /\ \E a \in {AIVDM(Message[m], m, n, bad)} : processAIS(a, FALSE) /\ Watch(a)
    /\ NotReading
    /\ UNCHANGED cfg_crc_check

\* processJSONsentence() forgets what waits and begins to read an array, which
\* ends when something else is read.
JSONObject ==
    /\ queue' = <<>>
    /\ tag_error' = FALSE
    /\ NothingSent
    /\ reading' = TRUE /\ tainted' = FALSE
    /\ watched' = Unwatched
    /\ UNCHANGED cfg_crc_check

\* The array may hold any sentences.  Nothing clears the flag between them.
JSONSentence(m, n, bad) ==
    /\ reading
    /\ bad => m \in MayBeDamaged
    /\ \E a \in {AIVDM(Ungrouped(m), m, n, bad)} : processAIS(a, tag_error) /\ Watch(a)
    /\ tainted' = (tainted \/ bad)
    /\ UNCHANGED <<reading, cfg_crc_check>>

\* A one-sentence message of the array goes out at once and overwrites the flag.
JSONSingle(bad) ==
    /\ reading /\ ~(bad /\ cfg_crc_check)
    /\ tag_error' = bad /\ tainted' = (tainted \/ bad)
    /\ watched' = IF Finished THEN Unwatched ELSE watched
    /\ NothingSent
    /\ UNCHANGED <<queue, reading, cfg_crc_check>>

\* rxtime_cache moves on to the next second.
Older(age) == IF age > MaxAge THEN age ELSE age + 1

Tick ==
    /\ queue' = [i \in DOMAIN queue |-> [queue[i] EXCEPT !.age = Older(@)]]
    /\ watched' = IF watched = Unwatched \/ Finished \/ watched.age = MaxAge THEN Unwatched
                  ELSE [watched EXCEPT !.age = @ + 1]
    /\ NothingSent
    /\ NotReading
    /\ UNCHANGED <<tag_error, cfg_crc_check>>

Next ==
    \/ \E m \in Names, n \in 1..MaxNumber, bad \in BOOLEAN :
          Line(m, n, bad) \/ JSONSentence(m, n, bad)
    \/ JSONObject
    \/ \E bad \in BOOLEAN : JSONSingle(bad)
    \/ Tick

Spec == Init /\ [][Next]_vars

-----------------------------------------------------------------------------
Parts ==
    UNION {{Part(h, m, n, bad, age) :
               h \in {Message[m], Ungrouped(m)}, n \in 1..MaxNumber,
               bad \in BOOLEAN, age \in 0..MaxAge + 1} : m \in Names}

\* The queue stays within its limit and holds parts of messages, of none the
\* last part: that one completes its message or is dropped (NMEA.cpp:91).
TypeOK ==
    /\ Len(queue) <= MaxQueue
    /\ \A i \in DOMAIN queue : queue[i] \in Parts
    /\ \A i \in DOMAIN queue : queue[i].number # queue[i].count
    /\ tag_error \in BOOLEAN /\ sent_error \in BOOLEAN
    /\ reading \in BOOLEAN /\ tainted \in BOOLEAN

\* A message whose parts arrive undamaged and in order, within MaxAge seconds, goes out,
\* whatever the queue held before and whatever comes in between, as long as
\* that is of another talker or channel or group, no JSON object, and not so
\* much that it fills the queue (clean() and the limit of 64 in assembleAIS).
UndisturbedSent ==
    Finished => /\ Len(sent) = Message[watched.msg].count
                /\ \A i \in DOMAIN sent : sent[i].msg = watched.msg /\ sent[i].number = i

\* A message is flagged as damaged if one of its own sentences had a bad
\* checksum, and only then: the flag survives the wait for the other parts, and
\* does not leak into the message of another line.  From one JSON array with
\* several messages it does (NMEA.cpp:111, 627), so there only an array that had
\* a damaged sentence may flag a message that has none.
ErrorExact ==
    LET damaged == \E i \in DOMAIN sent : sent[i].message_error
    IN  /\ damaged => sent_error
        /\ sent_error => damaged \/ tainted

\* The refinement: what is held of a key is what the queue has of it, from the
\* first part on; if the first was evicted, what remains is of no use.
Bare(e) == [key |-> e.key, count |-> e.count, number |-> e.number, msg |-> e.msg]

Sentences == {Bare(p) : p \in Parts}

Keys == {p.key : p \in Parts}

BareAll(parts) == [i \in DOMAIN parts |-> Bare(parts[i])]

Run(k) ==
    LET run == Selected(queue, Positions(queue, k))
    IN  IF run # <<>> /\ run[1].number = 1 THEN BareAll(run) ELSE <<>>

Promise == INSTANCE Reassembly
             WITH Sentence <- Sentences,
                  held <- [k \in Keys |-> Run(k)],
                  sent <- BareAll(sent)

\* The decoder implements Reassembly: a message that goes out is a gapless run
\* of sentences with one key since the last first one, and none of them is
\* used again (assembleAIS, search, clean).
ImplementsReassembly == Promise!Spec
=============================================================================
