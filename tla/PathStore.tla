------------------------------ MODULE PathStore -----------------------------
(***************************************************************************)
(* Tracking/PathStore.h: the tracks of all ships in a fixed number of      *)
(* blocks of points.  Points form one list per ship, circular through the  *)
(* ship's anchor; blocks form three lists, the tiers: RT (recent, full     *)
(* resolution), HIST (thinned) and FREE.  When blocks run out the store    *)
(* compacts the oldest RT block into HIST, and when that does not help it  *)
(* overwrites the oldest HIST block.  All calls are under DB::mtx, so a    *)
(* call is one step; what is hard is what happens inside one.              *)
(*                                                                         *)
(* A point's position, course and speed only decide whether a report is    *)
(* significant(), which is left open.                                      *)
(***************************************************************************)
EXTENDS Integers, Sequences, SequencesExt

CONSTANTS nships, block_cap, BLOCK_SIZE,
          HORIZON, GRANULARITY, DWELL_GAP, DWELL_MAX,
          MaxTime,     \* bound: the last second
          Late         \* bound: ships whose reports may come a second late

ASSUME StoreSizes ==
  /\ nships \in Nat \ {0} /\ BLOCK_SIZE \in Nat \ {0}
  /\ block_cap \in Nat /\ block_cap >= 2          \* setup() sees to it
  /\ HORIZON \in Nat /\ GRANULARITY \in Nat /\ DWELL_GAP \in Nat
  /\ DWELL_MAX \in Nat \ {0} /\ MaxTime \in Nat /\ Late \subseteq Nat

Ship == 0 .. (nships - 1)
Block == 0 .. (block_cap - 1)
Tier == {"RT", "HIST", "FREE"}

(* References: a point's block and slot in one number, or a ship's anchor  *)
(* (SHIP_BIT).                                                             *)
NIL == -1
SHIP_BIT == block_cap * BLOCK_SIZE
Ref(b, i) == b * BLOCK_SIZE + i
blockOf(r) == r \div BLOCK_SIZE
slotOf(r) == r % BLOCK_SIZE
Anchor(s) == SHIP_BIT + s
isPoint(r) == r < SHIP_BIT
PointRef == 0 .. (SHIP_BIT - 1)
AnyRef == 0 .. (SHIP_BIT + nships - 1)

Blank == [time |-> 0, dur |-> 0, prev |-> NIL, next |-> NIL]

Store == [pts     : [PointRef -> [time : 0 .. MaxTime, dur : 0 .. (DWELL_MAX - 1),
                                  prev : AnyRef \cup {NIL}, next : AnyRef \cup {NIL}]],
          blocks  : [Block -> [prev : Block \cup {-1}, next : Block \cup {-1},
                               count : 0 .. BLOCK_SIZE, live : 0 .. BLOCK_SIZE]],
          size    : 0 .. block_cap,                         \* blocks.size()
          anchors : [Ship -> [head : AnyRef, tail : AnyRef]],
          lists   : [Tier -> [head : Block \cup {-1}, tail : Block \cup {-1}]]]

-----------------------------------------------------------------------------
(* Lists of points and of blocks.                                          *)

setNext(s, r, v) == IF isPoint(r) THEN [s EXCEPT !.pts[r].next = v]
                                  ELSE [s EXCEPT !.anchors[r - SHIP_BIT].head = v]
setPrev(s, r, v) == IF isPoint(r) THEN [s EXCEPT !.pts[r].prev = v]
                                  ELSE [s EXCEPT !.anchors[r - SHIP_BIT].tail = v]

(* A dead slot has no prev; its time is all that is still read of it, so   *)
(* the rest is blanked to keep the number of states down.                  *)
unlink(s, r) ==
  LET p == s.pts[r]
      spliced == setPrev(setNext(s, p.prev, p.next), p.next, p.prev)
  IN  [spliced EXCEPT !.pts[r] = [Blank EXCEPT !.time = p.time],
                      !.blocks[blockOf(r)].live = @ - 1]

pushBlockHead(s, t, b) ==
  LET h == s.lists[t].head
      own  == [s EXCEPT !.blocks[b].prev = -1, !.blocks[b].next = h]
      back == IF h # -1 THEN [own EXCEPT !.blocks[h].prev = b] ELSE own
  IN  [back EXCEPT !.lists[t].head = b, !.lists[t].tail = IF @ = -1 THEN b ELSE @]

detachBlock(s, t, b) ==
  LET p == s.blocks[b].prev
      n == s.blocks[b].next
      fwd  == IF p # -1 THEN [s EXCEPT !.blocks[p].next = n] ELSE [s EXCEPT !.lists[t].head = n]
      back == IF n # -1 THEN [fwd EXCEPT !.blocks[n].prev = p] ELSE [fwd EXCEPT !.lists[t].tail = p]
  IN  [back EXCEPT !.blocks[b].prev = -1, !.blocks[b].next = -1]

(* count = live = 0; the slots are blanked too: they are not looked at     *)
(* again before they are written.                                          *)
emptied(s, b) ==
  [s EXCEPT !.blocks[b].count = 0, !.blocks[b].live = 0,
            !.pts = [r \in PointRef |-> IF blockOf(r) = b THEN Blank ELSE @[r]]]

(* The next slot of a block, and point p written into it.                  *)
Slot(s, b) == Ref(b, s.blocks[b].count)

written(s, b, p) ==
  [s EXCEPT !.blocks[b].count = @ + 1, !.blocks[b].live = @ + 1, !.pts[Slot(s, b)] = p]

(* f applied to the slots in use of block b, first to last.                *)
EachSlot(f(_, _), s, b) ==
  LET after[k \in 0 .. s.blocks[b].count] ==
        IF k = 0 THEN s ELSE f(after[k - 1], Ref(b, k - 1))
  IN  after[s.blocks[b].count]

Got(s, b) == [store |-> s, block |-> b]

popFreeBlock(s) ==
  LET b == s.lists["FREE"].head
  IN  IF b # -1 THEN Got(detachBlock(s, "FREE", b), b)
      ELSE IF s.size < block_cap THEN Got([s EXCEPT !.size = @ + 1], s.size)
      ELSE Got(s, -1)

(* Mutant: the points of the block are forgotten but stay linked.          *)
evictBlock_PointsLinked(s, b) == emptied(detachBlock(s, "HIST", b), b)

dropPoint(s, r) == IF s.pts[r].prev # NIL THEN unlink(s, r) ELSE s

evictBlock(s, b) == emptied(detachBlock(EachSlot(dropPoint, s, b), "HIST", b), b)

-----------------------------------------------------------------------------
(* Compaction.                                                             *)

(* A new first HIST block: a free one, else the oldest HIST block.         *)
OpenHistory(s, free, last) ==
  IF free.block # -1 THEN Got(pushBlockHead(free.store, "HIST", free.block), free.block)
  ELSE IF last # -1 THEN Got(pushBlockHead(evictBlock(s, last), "HIST", last), last)
  ELSE Got(s, -1)

HistoryBlock(s) ==
  LET h == s.lists["HIST"].head
  IN  IF h # -1 /\ s.blocks[h].count < BLOCK_SIZE THEN Got(s, h)
      ELSE OpenHistory(s, popFreeBlock(s), s.lists["HIST"].tail)

(* Point p, which was at r, goes into d's block.                           *)
MovedTo(d, r, p) ==
  IF d.block = -1 THEN unlink(d.store, r)
  ELSE LET nr == Slot(d.store, d.block)
       IN  setPrev(setNext(written(d.store, d.block, p), p.prev, nr), p.next, nr)

(* Making room may resplice the point's neighbours: it is read after.      *)
moveToHistory(s, r) ==
  LET move(d) == MovedTo(d, r, d.store.pts[r])
  IN  move(HistoryBlock(s))

(* Kept: the newest and the oldest point of a ship and one per             *)
(* GRANULARITY.                                                            *)
keeps(s, p) == \/ ~isPoint(p.next) \/ ~isPoint(p.prev)
               \/ p.time - s.pts[p.prev].time >= GRANULARITY

compactPoint(s, r) ==
  IF s.pts[r].prev = NIL THEN s
  ELSE IF keeps(s, s.pts[r]) THEN moveToHistory(s, r) ELSE unlink(s, r)

compactBlock(s, b) ==
  pushBlockHead(emptied(detachBlock(EachSlot(compactPoint, s, b), "RT", b), b), "FREE", b)

newestTime(s, b) == s.pts[Ref(b, s.blocks[b].count - 1)].time

SeveralRT(s) == s.lists["RT"].tail # s.lists["RT"].head

compactOneExpired(s, now) ==
  IF SeveralRT(s) /\ newestTime(s, s.lists["RT"].tail) + HORIZON < now
  THEN compactBlock(s, s.lists["RT"].tail) ELSE s

compactExpired(s, now) == compactOneExpired(compactOneExpired(s, now), now)

compactOldest(s) == IF SeveralRT(s) THEN compactBlock(s, s.lists["RT"].tail) ELSE s

(* Once more if that made no history.                                      *)
compactAgain(s, first) ==
  IF SeveralRT(s) /\ first.lists["HIST"].head = -1 THEN compactOldest(first) ELSE first

ElseOldestHistory(s, free) ==
  LET last == s.lists["HIST"].tail
  IN  IF free.block = -1 /\ last # -1 THEN Got(evictBlock(s, last), last) ELSE free

(* A free block; else compact the oldest RT block, twice if HIST is still  *)
(* empty; else overwrite the oldest HIST block.                            *)
allocRTBlock(s) ==
  LET take(t) == ElseOldestHistory(t, popFreeBlock(t))
  IN  IF popFreeBlock(s).block # -1 THEN popFreeBlock(s)
      ELSE take(compactAgain(s, compactOldest(s)))

-----------------------------------------------------------------------------
VARIABLES
  store,
  clock        \* the time of the latest report

vars == <<store, clock>>

(* setup()                                                                 *)
Init ==
  /\ store = [pts |-> [r \in PointRef |-> Blank],
              blocks |-> [b \in Block |-> [prev |-> -1, next |-> -1, count |-> 0, live |-> 0]],
              size |-> 0,
              anchors |-> [s \in Ship |-> [head |-> Anchor(s), tail |-> Anchor(s)]],
              lists |-> [t \in Tier |-> [head |-> -1, tail |-> -1]]]
  /\ clock = 0

Newest(ship) == store.pts[store.anchors[ship].tail]
HasPoints(s, ship) == isPoint(s.anchors[ship].tail)
End(p) == p.time + p.dur

(* Time does not run backwards within a track.                             *)
Clamped(ship, t) ==
  IF HasPoints(store, ship) /\ t < End(Newest(ship)) THEN End(Newest(ship)) ELSE t

CanExtend(ship, t) ==
  /\ HasPoints(store, ship)
  /\ t - End(Newest(ship)) =< DWELL_GAP
  /\ t - Newest(ship).time < DWELL_MAX

(* add(), a ship that has not moved.                                       *)
extend(ship, now) ==
  LET t == Clamped(ship, now)
  IN  /\ CanExtend(ship, t)
      /\ store' = [store EXCEPT !.pts[store.anchors[ship].tail].dur = t - Newest(ship).time]

(* The RT block the point goes into, -1 when there is none.                *)
RTBlock(t) ==
  LET h == store.lists["RT"].head
      first(a) == IF a.block = -1 THEN a ELSE Got(pushBlockHead(a.store, "RT", a.block), a.block)
  IN  IF h # -1 /\ store.blocks[h].count < BLOCK_SIZE THEN Got(store, h)
      ELSE first(allocRTBlock(compactExpired(store, t)))

Placed(s, b, ship, t) ==
  LET tl == s.anchors[ship].tail
      p  == [time |-> t, dur |-> 0, prev |-> tl, next |-> Anchor(ship)]
  IN  setPrev(setNext(written(s, b, p), tl, Slot(s, b)), Anchor(ship), Slot(s, b))

(* Mutant: the track's newest point is looked up before room is made.      *)
append_StaleTail(ship, now) ==
  LET t  == Clamped(ship, now)
      tl == store.anchors[ship].tail
      g  == RTBlock(t)
      r  == Slot(g.store, g.block)
      p  == [time |-> t, dur |-> 0, prev |-> tl, next |-> Anchor(ship)]
  IN  store' = setPrev(setNext(written(g.store, g.block, p), tl, r), Anchor(ship), r)

(* add(), any other report.                                                *)
append(ship, now) ==
  \E t \in {Clamped(ship, now)} : \E g \in {RTBlock(t)} :
    store' = IF g.block = -1 THEN g.store ELSE Placed(g.store, g.block, ship, t)

(* wipe(): unlinks the head until the anchor refers to itself.             *)
dropHead(s, ship) ==
  IF isPoint(s.anchors[ship].head) THEN unlink(s, s.anchors[ship].head) ELSE s

Wiped(s, ship) ==
  LET after[k \in 0 .. SHIP_BIT] == IF k = 0 THEN s ELSE dropHead(after[k - 1], ship)
  IN  after[SHIP_BIT]

wipe(ship) ==
  /\ HasPoints(store, ship)
  /\ store' = Wiped(store, ship)
  /\ UNCHANGED clock

(* Reports come from several receivers, not always in order.               *)
Reports(ship) ==
  {now \in 0 .. MaxTime : now \in clock .. clock + 1 \/ (ship \in Late /\ now = clock - 1)}

Add(ship) == \E now \in Reports(ship) :
  /\ extend(ship, now) \/ append(ship, now)
  /\ clock' = IF now > clock THEN now ELSE clock

Next == \E ship \in Ship : Add(ship) \/ wipe(ship)

Spec == Init /\ [][Next]_vars

-----------------------------------------------------------------------------
(* Properties.                                                             *)

TypeOK == store \in Store /\ clock \in 0 .. MaxTime

(* The chain that begins with x, up to its first link outside the links of *)
(* next, cut off after n links in case it never comes there.               *)
Chain(x, next, n) ==
  LET from[k \in 0 .. n] ==
        [y \in Int |-> IF y \notin DOMAIN next \/ k = 0 THEN <<>>
                       ELSE <<y>> \o from[k - 1][next[y]]]
  IN  from[n][x]

BlocksOf(t) == Chain(store.lists[t].head, [b \in Block |-> store.blocks[b].next], block_cap + 1)
PointsOf(s, ship) ==
  Chain(s.anchors[ship].head, [r \in PointRef |-> s.pts[r].next], SHIP_BIT + 1)

(* Every block that exists is in exactly one tier, whose list is           *)
(* consistent both ways; a block in use is not empty.                      *)
TiersSound ==
  /\ \A t \in Tier :
       LET bs == BlocksOf(t)
       IN  /\ store.lists[t].tail = IF bs = <<>> THEN -1 ELSE Last(bs)
           /\ \A i \in DOMAIN bs :
                /\ store.blocks[bs[i]].prev = IF i = 1 THEN -1 ELSE bs[i - 1]
                /\ t # "FREE" => store.blocks[bs[i]].count > 0
  /\ LET all == BlocksOf("RT") \o BlocksOf("HIST") \o BlocksOf("FREE")
     IN  Len(all) = store.size /\ ToSet(all) = 0 .. (store.size - 1)

LivePoint(r) == slotOf(r) < store.blocks[blockOf(r)].count /\ store.pts[r].prev # NIL

(* Every live point is on the chain of exactly one ship, and every chain   *)
(* is consistent both ways and ordered in time.                            *)
ChainsSound ==
  LET points == [ship \in Ship |-> PointsOf(store, ship)]
      live   == {r \in PointRef : LivePoint(r)}
  IN  /\ live = UNION {ToSet(points[ship]) : ship \in Ship}
      /\ \A ship \in Ship :
           LET ps == points[ship]
           IN  /\ Anchor(ship) = IF ps = <<>> THEN store.anchors[ship].head
                                             ELSE store.pts[Last(ps)].next
               /\ store.anchors[ship].tail = IF ps = <<>> THEN Anchor(ship) ELSE Last(ps)
               /\ \A i \in DOMAIN ps :
                    /\ store.pts[ps[i]].prev = IF i = 1 THEN Anchor(ship) ELSE ps[i - 1]
                    /\ i > 1 => store.pts[ps[i]].time >= End(store.pts[ps[i - 1]])
      /\ \A b \in Block :
           store.blocks[b].live = Cardinality({r \in live : blockOf(r) = b})

(* What check() looks for (PathStore.h:405-484) is never there: evictions  *)
(* and moves in the middle of a compaction leave no broken tier and no     *)
(* broken track, whatever block they hit.                                  *)
CheckClean == TypeOK /\ TiersSound /\ ChainsSound

(* The store implements the tracks: whatever is compacted and overwritten, *)
(* a track is what was reported, thinned, and a report is never refused.   *)
Span(p) == [time |-> p.time, end |-> End(p)]

TracksIn(s) ==
  [ship \in Ship |-> LET ps == PointsOf(s, ship)
                     IN  [i \in DOMAIN ps |-> Span(s.pts[ps[i]])]]

T == INSTANCE Tracks WITH track <- TracksIn(store)

RefinesTracks == T!Spec

(* The comment in compactBlock (PathStore.h:236-237): "a ship's newest     *)
(* point always survives, its dwell may still be extending".  Overwriting  *)
(* the oldest history may drop it, but while there is no history yet there *)
(* is only compaction.                                                     *)
NewestSurvives ==
  [][(\E ship \in Ship : Add(ship)) /\ store.lists["HIST"].head = -1
       => \A s \in Ship : HasPoints(store, s) => HasPoints(store', s)]_vars
=============================================================================
