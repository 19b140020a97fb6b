--------------------------- MODULE EvidenceProofs ---------------------------
(***************************************************************************)
(* The evidence pipeline for any number of changes, segment lengths,       *)
(* lifetimes and faults: the context map stays live; where every call is   *)
(* answered before the server stops, the chain stays one line and delivery *)
(* leaves no hole; and where a failed append leaves no stump either, an    *)
(* intent is on disk before its device is touched.                         *)
(*                                                                         *)
(* The argument: BaseInv types the state and ties the flush mutex to the   *)
(* claim.  QuietInv says what a process leaves behind.  LinkInv and        *)
(* OrderInv speak of all segments anywhere (Known) and of the one queue    *)
(* that claim, shutdown and recorder form (Queue); to them every action is *)
(* one of seven shapes (Idles, Closes, Writes, Lands, Ends, StartUp,       *)
(* Rebuild), and each is treated once.                                     *)
(***************************************************************************)
EXTENDS Evidence, FiniteSetTheorems, SequenceTheorems, TLAPS

Ids == Nat \X Nat
Heads == {Root} \cup Ids
SegRecord == [line : {"segment"}, id : Ids, prev : Heads, intents : SUBSET Changes]
Lines == SegRecord \cup {Torn, Garbage}
Phases == {"new", "proposed", "approved", "rejected", "touched", "ended"}
Modes == {"down", "replay", "up", "stopping", "dropping", "closing", "closed", "flushing"}
RecRecord ==
    [cur : Nat, intents : SUBSET Changes, prev : Heads, next : Nat, closed : Seq(SegRecord),
     ctx : SUBSET Changes, order : Seq(Changes)]
PassRecord ==
    [by : {"none", "start", "drain", "flush"}, todo : SUBSET SegRecord, at : Nat,
     sending : BOOLEAN, error : BOOLEAN]

EvTypeOK ==
    /\ phase \in [Changes -> Phases]
    /\ call \in [Changes -> {"idle", "flush", "spool"}]
    /\ claim \in [Changes -> Seq(SegRecord)]
    /\ flushing \in Changes \cup {NoOne}
    /\ rec \in RecRecord
    /\ mode \in Modes
    /\ run \in Nat
    /\ residue \in Seq(SegRecord)
    /\ pass \in PassRecord
    /\ outbox \in Seq(Lines)
    /\ rows \in Seq(SegRecord)
    /\ flying \subseteq SegRecord

\* The order holds the tracked changes, each once.
Tracks(ctx, order) ==
    /\ order \in Seq(Changes) /\ Range(order) = ctx
    /\ \A i, j \in 1..Len(order) : order[i] = order[j] => i = j
    /\ IsFiniteSet(ctx) /\ Len(order) = Cardinality(ctx)

\* The flush mutex and the claim go together, an empty segment holds no intent,
\* and a change is tracked until its rejection or its receipt was recorded.
HoldInv ==
    /\ \A ch \in Changes : call[ch] = "spool" <=> flushing = ch
    /\ \A ch \in Changes : claim[ch] # <<>> <=> call[ch] = "spool"
    /\ rec.next > 0
    /\ rec.cur = 0 => rec.intents = {}
    /\ Tracks(rec.ctx, rec.order) /\ Cardinality(rec.ctx) <= MaxTracked
    /\ \A ch \in rec.ctx : phase[ch] \in {"proposed", "approved"}
                             \/ (phase[ch] = "touched" /\ call[ch] = "idle")

\* The recorder exists.
Live == mode \notin {"down", "replay"}

\* No call is under way before the server is up, and the replay that a start
\* goes on from has read the whole outbox.
StartInv ==
    /\ ~Live => \A ch \in Changes : call[ch] = "idle"
    /\ pass.by = "start" => mode = "replay" /\ (~pass.error => Loadable(outbox))

BaseInv == EvTypeOK /\ HoldInv /\ StartInv

\* Where every call is answered before the server stops: nothing of a process
\* outlives it, and no call is under way once it stops.
QuietInv ==
    /\ Quiesced
    /\ mode # "up" => \A ch \in Changes : call[ch] = "idle"
    /\ residue # <<>> => mode \in {"closing", "closed"}
    /\ mode \notin {"up", "stopping", "dropping"} => rec.closed = <<>>
    /\ ~Live => rec = NoRecorder /\ drain.at = "none" /\ pass.by \in {"none", "start"}
    /\ mode = "down" => pass.todo = {}

\* What was closed and is not on disk yet, oldest first.
Claimed == IF flushing = NoOne THEN <<>> ELSE claim[flushing]
Queue == Claimed \o residue \o rec.closed

Before(x, y) == x[1] < y[1] \/ (x[1] = y[1] /\ x[2] < y[2])
NextId == <<run, rec.next - 1>>

Known == Spooled \cup Range(Queue) \cup Range(rows)

\* Ids name segments, a segment comes after the one it continues, and no two
\* continue the same one; the open segment comes after them all, and nothing
\* continues what it will continue.
LinkInv ==
    /\ \A s, t \in Known : s.id = t.id \/ s.prev = t.prev => s = t
    /\ \A s \in Known : s.prev = Root \/ Before(s.prev, s.id)
    /\ \A s \in Known : s.id[1] <= run
    /\ Live => /\ \A s \in Known : Before(s.id, NextId)
               /\ rec.prev = Root \/ Before(rec.prev, NextId)
               /\ \A s \in Known : s.prev # rec.prev

\* The queue is in order and comes after what is on disk, whose last line is
\* its newest; what the receiver holds is on disk or older than all that is.
OrderInv ==
    /\ \A i, j \in 1..Len(Queue) : i < j => Before(Queue[i].id, Queue[j].id)
    /\ \A s \in Spooled : \A q \in Range(Queue) : s = q \/ Before(s.id, q.id)
    /\ \A s \in Range(Queue) : s.id[1] = run
    /\ outbox # <<>> /\ Last(outbox).line = "segment" =>
          \A s \in Spooled : s = Last(outbox) \/ Before(s.id, Last(outbox).id)
    /\ \A r \in Range(rows) \ Spooled : \A s \in Spooled : r.id[1] < s.id[1]
    /\ Live => \A r \in Range(rows) \ Spooled : r.id[1] < run
    /\ rows # <<>> => \E r \in Range(rows) : \A t \in Range(rows) : t = r \/ Before(t.id, r.id)
    /\ flying \subseteq Spooled /\ pass.todo \subseteq Spooled

ChainInv == BaseInv /\ QuietInv /\ LinkInv /\ OrderInv /\ ProductionOrder

\* A segment waits for, or flies after, everything older of its run.
WaitInv ==
    /\ \A s \in pass.todo : \A t \in Spooled :
          SameRun(t.id, s.id) /\ t.id[2] < s.id[2] => t \in pass.todo \/ t.id \in Landed
    /\ \A s \in flying : \A t \in Spooled :
          SameRun(t.id, s.id) /\ t.id[2] < s.id[2] => t.id \in Landed

DeliveryInv == ChainInv /\ WaitInv /\ DeliveryIsOrdered

\* The intent of a call that was not answered yet is in the open segment, in the
\* queue or on disk; of the call that flushes, no later than its claim.
IntentInv ==
    /\ Loadable(outbox)
    /\ \A ch \in Changes : call[ch] # "idle" => phase[ch] \in {"approved", "touched"}
    /\ \A ch \in Changes : phase[ch] = "approved" /\ call[ch] = "flush" =>
          ch \in rec.intents \/ \E s \in Spooled \cup Range(Queue) : ch \in s.intents
    /\ \A ch \in Changes : phase[ch] = "approved" /\ call[ch] = "spool" =>
          \E s \in Spooled \cup Range(claim[ch]) : ch \in s.intents
----------------------------------------------------------------------------
(* Sequences *)

LEMMA RangeIndex ==
    ASSUME NEW S, NEW s \in Seq(S)
    PROVE  /\ \A x : x \in Range(s) <=> \E i \in 1..Len(s) : s[i] = x
           /\ Range(s) \subseteq S
           /\ \A i \in 1..Len(s) : s[i] \in Range(s) /\ s[i] \in S
<1>1. DOMAIN s = 1..Len(s)
    OBVIOUS
<1>2. \A x : x \in Range(s) <=> \E i \in 1..Len(s) : s[i] = x
    BY <1>1, Zenon DEF Range
<1>3. \A i \in 1..Len(s) : s[i] \in S
    OBVIOUS
<1>. QED
    BY <1>2, <1>3, Zenon

LEMMA RangeEmpty == Range(<<>>) = {}
BY DEF Range

LEMMA ConcatIndex ==
    ASSUME NEW S, NEW s \in Seq(S), NEW t \in Seq(S)
    PROVE  /\ s \o t \in Seq(S)
           /\ Len(s \o t) = Len(s) + Len(t)
           /\ \A i \in 1..Len(s) : (s \o t)[i] = s[i]
           /\ \A i \in 1..Len(t) : (s \o t)[Len(s) + i] = t[i]
OBVIOUS

LEMMA AppendIndex ==
    ASSUME NEW S, NEW s \in Seq(S), NEW x \in S
    PROVE  /\ Append(s, x) \in Seq(S) /\ Append(s, x) # <<>>
           /\ Len(Append(s, x)) = Len(s) + 1
           /\ \A i \in 1..Len(s) : Append(s, x)[i] = s[i]
           /\ Append(s, x)[Len(s) + 1] = x
           /\ Last(Append(s, x)) = x
           /\ Append(s, x) = s \o <<x>>
<1>1. Append(s, x) \in Seq(S) /\ Len(Append(s, x)) = Len(s) + 1 /\ Append(s, x)[Len(s) + 1] = x
      /\ \A i \in 1..Len(s) : Append(s, x)[i] = s[i]
    OBVIOUS
<1>2. Append(s, x) # <<>> /\ Last(Append(s, x)) = x
    BY <1>1 DEF Last
<1>3. Append(s, x) = s \o <<x>>
    BY AppendIsConcat
<1>. QED
    BY <1>1, <1>2, <1>3

LEMMA RangeAppend ==
    ASSUME NEW S, NEW s \in Seq(S), NEW x \in S
    PROVE  Range(Append(s, x)) = Range(s) \cup {x}
<1>1. <<x>> \in Seq(S) /\ Len(<<x>>) = 1 /\ <<x>>[1] = x
    OBVIOUS
<1>2. Range(<<x>>) = {x}
    <2>1. \A y : y \in Range(<<x>>) <=> \E i \in 1..Len(<<x>>) : <<x>>[i] = y
        BY <1>1, RangeIndex
    <2>2. \A i \in 1..Len(<<x>>) : i = 1
        BY <1>1
    <2>3. 1 \in 1..Len(<<x>>)
        BY <1>1
    <2>. QED
        BY <1>1, <2>1, <2>2, <2>3, Zenon
<1>3. Append(s, x) = s \o <<x>>
    BY AppendIsConcat
<1>4. Range(s \o <<x>>) = Range(s) \cup Range(<<x>>)
    BY <1>1, RangeConcatenation, Zenon
<1>. QED
    BY <1>2, <1>3, <1>4

LEMMA TailIndex ==
    ASSUME NEW S, NEW s \in Seq(S), s # <<>>
    PROVE  /\ Head(s) \in S /\ Head(s) = s[1] /\ Tail(s) \in Seq(S)
           /\ Len(s) > 0 /\ Len(Tail(s)) = Len(s) - 1
           /\ \A i \in 1..Len(Tail(s)) : Tail(s)[i] = s[i + 1]
OBVIOUS

LEMMA RangeTail ==
    ASSUME NEW S, NEW s \in Seq(S), s # <<>>
    PROVE  Range(s) = {Head(s)} \cup Range(Tail(s))
<1>1. /\ Head(s) = s[1] /\ Tail(s) \in Seq(S) /\ Len(s) > 0 /\ Len(Tail(s)) = Len(s) - 1
      /\ \A i \in 1..Len(Tail(s)) : Tail(s)[i] = s[i + 1]
    BY TailIndex
<1>2. Len(s) \in Nat
    OBVIOUS
<1>3. ASSUME NEW x \in Range(s) PROVE x \in {Head(s)} \cup Range(Tail(s))
    <2>1. PICK i \in 1..Len(s) : s[i] = x
        BY <1>3, RangeIndex
    <2>2. CASE i = 1
        BY <1>1, <2>1, <2>2
    <2>3. CASE i # 1
        <3>1. i - 1 \in 1..Len(Tail(s)) /\ Tail(s)[i - 1] = x
            BY <1>1, <1>2, <2>1, <2>3
        <3>. QED
            BY <1>1, <3>1, RangeIndex
    <2>. QED
        BY <2>2, <2>3
<1>4. Head(s) \in Range(s)
    BY <1>1, <1>2, RangeIndex
<1>5. ASSUME NEW x \in Range(Tail(s)) PROVE x \in Range(s)
    <2>1. PICK i \in 1..Len(Tail(s)) : Tail(s)[i] = x
        BY <1>1, <1>5, RangeIndex, ZenonT(60)
    <2>2. i + 1 \in 1..Len(s) /\ s[i + 1] = x
        BY <1>1, <1>2, <2>1
    <2>. QED
        BY <2>2, RangeIndex
<1>. QED
    BY <1>3, <1>4, <1>5

LEMMA ConcatHead ==
    ASSUME NEW S, NEW s \in Seq(S), NEW t \in Seq(S), s # <<>>
    PROVE  s \o t # <<>> /\ Head(s \o t) = Head(s) /\ Tail(s \o t) = Tail(s) \o t
<1>1. s \o t \in Seq(S) /\ Len(s \o t) = Len(s) + Len(t) /\ (s \o t)[1] = s[1] /\ Len(s) > 0
    BY TailIndex, ConcatIndex
<1>2. s \o t # <<>>
    BY <1>1
<1>3. Head(s \o t) = Head(s)
    BY <1>1, <1>2, TailIndex
<1>4. Tail(s \o t) \in Seq(S) /\ Tail(s) \in Seq(S) /\ Tail(s) \o t \in Seq(S)
    BY <1>1, <1>2, TailIndex, ConcatIndex
<1>5. Len(Tail(s \o t)) = Len(Tail(s) \o t)
    BY <1>1, <1>2, <1>4, TailIndex, ConcatIndex
<1>6. ASSUME NEW i \in 1..Len(Tail(s \o t)) PROVE Tail(s \o t)[i] = (Tail(s) \o t)[i]
    <2>1. Tail(s \o t)[i] = (s \o t)[i + 1] /\ i \in Nat /\ Len(s) \in Nat /\ Len(t) \in Nat
        BY <1>1, <1>2, TailIndex
    <2>2. Len(Tail(s)) = Len(s) - 1 /\ Len(Tail(s \o t)) = Len(s) + Len(t) - 1
        BY <1>1, <1>2, TailIndex
    <2>3. CASE i <= Len(s) - 1
        <3>1. i \in 1..Len(Tail(s)) /\ i + 1 \in 1..Len(s)
            BY <2>1, <2>2, <2>3
        <3>2. (Tail(s) \o t)[i] = Tail(s)[i] /\ (s \o t)[i + 1] = s[i + 1] /\ Tail(s)[i] = s[i + 1]
            BY <1>4, <3>1, TailIndex, ConcatIndex
        <3>. QED
            BY <2>1, <3>2
    <2>4. CASE ~(i <= Len(s) - 1)
        <3>1. PICK j \in 1..Len(t) : j = i + 1 - Len(s)
            <4>1. i + 1 - Len(s) \in 1..Len(t)
                BY <2>1, <2>2, <2>4
            <4>. QED
                BY <4>1, Zenon
        <3>2. (Tail(s) \o t)[Len(Tail(s)) + j] = t[j] /\ (s \o t)[Len(s) + j] = t[j]
            BY <1>4, <3>1, ConcatIndex
        <3>3. Len(Tail(s)) + j = i /\ Len(s) + j = i + 1
            BY <2>1, <2>2, <3>1
        <3>. QED
            BY <2>1, <3>2, <3>3
    <2>. QED
        BY <2>3, <2>4
<1>7. Tail(s \o t) = Tail(s) \o t
    BY <1>4, <1>5, <1>6, SeqEqual
<1>. QED
    BY <1>2, <1>3, <1>7

----------------------------------------------------------------------------
(* Segments and the recorder *)

LEMMA Kinds ==
    /\ Torn.line = "torn" /\ Garbage.line = "garbage"
    /\ \A s \in SegRecord : s.line = "segment" /\ s.id \in Ids /\ s.prev \in Heads /\ s.intents \subseteq Changes
    /\ \A l \in Lines : l.line = "segment" <=> l \in SegRecord
<1>1. Torn.line = "torn" /\ Garbage.line = "garbage"
    BY DEF Torn, Garbage
<1>2. \A s \in SegRecord : s.line = "segment" /\ s.id \in Ids /\ s.prev \in Heads /\ s.intents \subseteq Changes
    BY DEF SegRecord
<1>. QED
    BY <1>1, <1>2 DEF Lines

LEMMA SegmentFields ==
    ASSUME NEW id \in Ids, NEW prev \in Heads, NEW intents \in SUBSET Changes
    PROVE  /\ Segment(id, prev, intents) \in SegRecord
           /\ Segment(id, prev, intents).id = id
           /\ Segment(id, prev, intents).prev = prev
           /\ Segment(id, prev, intents).intents = intents
BY DEF Segment, SegRecord

\* The segment a roll closes.
Opened(r) == Segment(<<run, r.next - 1>>, r.prev, r.intents)

LEMMA OpenedFields ==
    ASSUME NEW r \in RecRecord, run \in Nat, r.next > 0
    PROVE  /\ Opened(r) \in SegRecord /\ Opened(r).id = <<run, r.next - 1>> /\ <<run, r.next - 1>> \in Ids
           /\ Opened(r).prev = r.prev /\ Opened(r).intents = r.intents
<1>1. r.next \in Nat /\ r.prev \in Heads /\ r.intents \in SUBSET Changes
    BY DEF RecRecord
<1>2. r.next - 1 \in Nat
    BY <1>1
<1>3. <<run, r.next - 1>> \in Ids
    BY <1>2 DEF Ids
<1>. QED
    BY <1>1, <1>3, SegmentFields DEF Opened

LEMMA RolledEffect ==
    ASSUME NEW r \in RecRecord, run \in Nat, r.next > 0, r.cur # 0
    PROVE  /\ Rolled(r) \in RecRecord /\ RolledOff(r) = <<Opened(r)>>
           /\ Rolled(r).closed = r.closed /\ Rolled(r).ctx = r.ctx /\ Rolled(r).order = r.order
           /\ Rolled(r).cur = 0 /\ Rolled(r).intents = {}
           /\ Rolled(r).prev = Opened(r).id /\ Rolled(r).next = r.next + 1
<1>1. RolledOff(r) = <<Opened(r)>>
    BY Zenon DEF RolledOff, Opened
<1>2. PICK id \in Heads : id = <<run, r.next - 1>> /\ id = Opened(r).id
    BY OpenedFields, Zenon DEF Heads
<1>3. PICK next \in Nat : next = r.next + 1
    BY DEF RecRecord
<1>4. Rolled(r) = [r EXCEPT !.cur = 0, !.intents = {}, !.prev = id, !.next = next]
    BY <1>2, <1>3 DEF Rolled, RecRecord
<1>5. Rolled(r) \in RecRecord
    <2>1. {} \in SUBSET Changes /\ 0 \in Nat
        OBVIOUS
    <2>. QED
        BY <1>4, <2>1, Zenon DEF RecRecord
<1>6. /\ Rolled(r).closed = r.closed /\ Rolled(r).ctx = r.ctx /\ Rolled(r).order = r.order
      /\ Rolled(r).cur = 0 /\ Rolled(r).intents = {}
      /\ Rolled(r).prev = id /\ Rolled(r).next = next
    BY <1>4 DEF RecRecord
<1>. QED
    BY <1>1, <1>2, <1>3, <1>5, <1>6

LEMMA EmptyRoll == \A r : r.cur = 0 => Rolled(r) = r /\ RolledOff(r) = <<>>
BY DEF Rolled, RolledOff

\* a is r after one more record, the open segment closed or not.
Extended(r, a, I) ==
    /\ a \in RecRecord /\ a.next > 0 /\ (a.cur = 0 => a.intents = {})
    /\ \/ a.closed = r.closed /\ a.prev = r.prev /\ a.next = r.next /\ a.intents = r.intents \cup I
       \/ \E n \in SegRecord :
             /\ a.closed = Append(r.closed, n) /\ a.prev = n.id /\ a.next = r.next + 1
             /\ n.id = <<run, r.next - 1>> /\ n.prev = r.prev /\ n.intents = r.intents \cup I

\* append either fills the open segment further or closes it.
LEMMA AppendedEffect ==
    ASSUME NEW r \in RecRecord, run \in Nat, r.next > 0, NEW I \in SUBSET Changes, NEW a, a = Appended(r, I)
    PROVE  Extended(r, a, I) /\ a.ctx = r.ctx /\ a.order = r.order
<1>1. PICK cur \in Nat : cur = r.cur + 1 /\ cur # 0
    BY DEF RecRecord
<1>2. PICK intents \in SUBSET Changes : intents = r.intents \cup I
    <2>1. r.intents \cup I \in SUBSET Changes
        BY DEF RecRecord
    <2>. QED
        BY <2>1, Zenon
<1>3. PICK g : g = [r EXCEPT !.cur = cur, !.intents = intents]
    OBVIOUS
<1>4. g = Grown(r, I)
    BY <1>1, <1>2, <1>3 DEF Grown, RecRecord
<1>5. g \in RecRecord
    BY <1>3 DEF RecRecord
<1>6. /\ g.cur = cur /\ g.intents = intents /\ g.prev = r.prev /\ g.next = r.next
      /\ g.closed = r.closed /\ g.ctx = r.ctx /\ g.order = r.order
    BY <1>3 DEF RecRecord
<1>7. r.next \in Nat /\ r.closed \in Seq(SegRecord)
    BY DEF RecRecord
<1>8. CASE ~(g.cur >= RecordsPerSegment)
    <2>1. a = g
        BY <1>4, <1>8 DEF Appended
    <2>. QED
        BY <1>1, <1>2, <1>5, <1>6, <2>1 DEF Extended
<1>9. CASE g.cur >= RecordsPerSegment
    <2>1. a = [Rolled(g) EXCEPT !.closed = @ \o RolledOff(g)]
        BY <1>4, <1>9 DEF Appended
    <2>2. PICK n \in SegRecord :
              n = Opened(g) /\ n.id = <<run, r.next - 1>> /\ n.prev = r.prev /\ n.intents = intents
        BY <1>5, <1>6, OpenedFields
    <2>3. PICK q \in RecRecord :
              /\ q = Rolled(g) /\ RolledOff(g) = <<n>> /\ q.closed = r.closed /\ q.ctx = r.ctx /\ q.order = r.order
              /\ q.cur = 0 /\ q.intents = {} /\ q.prev = n.id /\ q.next = r.next + 1
        BY <1>1, <1>5, <1>6, <2>2, RolledEffect
    <2>4. PICK closed \in Seq(SegRecord) : closed = r.closed \o <<n>> /\ closed = Append(r.closed, n)
        <3>1. Append(r.closed, n) \in Seq(SegRecord) /\ Append(r.closed, n) = r.closed \o <<n>>
            BY <1>7, <2>2, AppendIndex
        <3>. QED
            BY <3>1, Zenon
    <2>5. a = [q EXCEPT !.closed = closed]
        BY <2>1, <2>3, <2>4 DEF RecRecord
    <2>6. a \in RecRecord
        BY <2>5 DEF RecRecord
    <2>7. /\ a.closed = closed /\ a.ctx = q.ctx /\ a.order = q.order /\ a.cur = 0 /\ a.intents = {}
          /\ a.prev = q.prev /\ a.next = q.next
        BY <2>3, <2>5 DEF RecRecord
    <2>8. a.next > 0
        BY <1>7, <2>3, <2>7
    <2>. QED
        BY <1>2, <2>2, <2>3, <2>4, <2>6, <2>7, <2>8 DEF Extended
<1>. QED
    BY <1>8, <1>9

----------------------------------------------------------------------------
(* The context map and its order *)

LEMMA TrackOne ==
    ASSUME NEW ctx \in SUBSET Changes, NEW order, Tracks(ctx, order), NEW ch \in Changes \ ctx
    PROVE  Tracks(ctx \cup {ch}, Append(order, ch)) /\ Cardinality(ctx \cup {ch}) = Cardinality(ctx) + 1
<1>1. order \in Seq(Changes) /\ Len(order) \in Nat
    BY DEF Tracks
<1>2. /\ Append(order, ch) \in Seq(Changes) /\ Len(Append(order, ch)) = Len(order) + 1
      /\ \A i \in 1..Len(order) : Append(order, ch)[i] = order[i]
      /\ Append(order, ch)[Len(order) + 1] = ch
    BY <1>1, AppendIndex
<1>3. Range(Append(order, ch)) = ctx \cup {ch}
    BY <1>1, RangeAppend DEF Tracks
<1>4. \A i \in 1..Len(order) : order[i] \in ctx
    BY <1>1, RangeIndex DEF Tracks
<1>5. ASSUME NEW i \in 1..(Len(order) + 1), NEW j \in 1..(Len(order) + 1), Append(order, ch)[i] = Append(order, ch)[j]
      PROVE  i = j
    <2>1. CASE i \in 1..Len(order) /\ j \in 1..Len(order)
        BY <1>2, <1>5, <2>1 DEF Tracks
    <2>2. CASE i = Len(order) + 1 /\ j \in 1..Len(order)
        BY <1>2, <1>4, <1>5, <2>2
    <2>3. CASE i \in 1..Len(order) /\ j = Len(order) + 1
        BY <1>2, <1>4, <1>5, <2>3
    <2>. QED
        BY <1>1, <2>1, <2>2, <2>3
<1>6. IsFiniteSet(ctx \cup {ch}) /\ Cardinality(ctx \cup {ch}) = Cardinality(ctx) + 1
    BY FS_AddElement DEF Tracks
<1>7. Len(Append(order, ch)) = Cardinality(ctx \cup {ch})
    BY <1>2, <1>6 DEF Tracks
<1>. QED
    BY <1>2, <1>3, <1>5, <1>6, <1>7 DEF Tracks

LEMMA DropOldest ==
    ASSUME NEW ctx \in SUBSET Changes, NEW order, Tracks(ctx, order), order # <<>>
    PROVE  /\ Tracks(ctx \ {Head(order)}, Tail(order)) /\ Head(order) \in ctx
           /\ Cardinality(ctx \ {Head(order)}) = Cardinality(ctx) - 1
<1>1. order \in Seq(Changes) /\ Len(order) \in Nat
    BY DEF Tracks
<1>2. /\ Head(order) = order[1] /\ Tail(order) \in Seq(Changes) /\ Len(order) > 0
      /\ Len(Tail(order)) = Len(order) - 1 /\ \A i \in 1..Len(Tail(order)) : Tail(order)[i] = order[i + 1]
    BY <1>1, TailIndex
<1>3. ctx = {Head(order)} \cup Range(Tail(order))
    BY <1>1, RangeTail DEF Tracks
<1>4. Head(order) \notin Range(Tail(order))
    <2> SUFFICES ASSUME Head(order) \in Range(Tail(order)) PROVE FALSE
        OBVIOUS
    <2>0. \A x : x \in Range(Tail(order)) <=> \E i \in 1..Len(Tail(order)) : Tail(order)[i] = x
        BY <1>2, RangeIndex, Zenon
    <2>1. PICK i \in 1..Len(Tail(order)) : Tail(order)[i] = order[1]
        BY <1>2, <2>0
    <2>2. order[i + 1] = order[1] /\ i + 1 \in 1..Len(order) /\ 1 \in 1..Len(order) /\ i + 1 # 1
        BY <1>1, <1>2, <2>1
    <2>. QED
        BY <2>2 DEF Tracks
<1>5. Range(Tail(order)) = ctx \ {Head(order)} /\ Head(order) \in ctx
    BY <1>3, <1>4
<1>6. \A i, j \in 1..Len(Tail(order)) : Tail(order)[i] = Tail(order)[j] => i = j
    <2> SUFFICES ASSUME NEW i \in 1..Len(Tail(order)), NEW j \in 1..Len(Tail(order)), Tail(order)[i] = Tail(order)[j]
                 PROVE  i = j
        OBVIOUS
    <2>1. order[i + 1] = order[j + 1] /\ i + 1 \in 1..Len(order) /\ j + 1 \in 1..Len(order)
        BY <1>1, <1>2
    <2>2. i + 1 = j + 1
        BY <2>1 DEF Tracks
    <2>. QED
        BY <2>2
<1>7. IsFiniteSet(ctx \ {Head(order)}) /\ Cardinality(ctx \ {Head(order)}) = Cardinality(ctx) - 1
    BY <1>5, FS_RemoveElement DEF Tracks
<1>8. Len(Tail(order)) = Cardinality(ctx \ {Head(order)})
    BY <1>2, <1>7 DEF Tracks
<1>. QED
    BY <1>2, <1>5, <1>6, <1>7, <1>8 DEF Tracks

LEMMA DropOne ==
    ASSUME NEW ctx \in SUBSET Changes, NEW order, Tracks(ctx, order), NEW ch \in ctx
    PROVE  Tracks(ctx \ {ch}, Without(order, ch)) /\ Cardinality(ctx \ {ch}) = Cardinality(ctx) - 1
<1>1. order \in Seq(Changes) /\ Len(order) \in Nat
    BY DEF Tracks
<1>2. \E i \in 1..Len(order) : order[i] = ch
    BY <1>1, RangeIndex DEF Tracks
<1>3. PICK k \in 1..Len(order) : k = CHOOSE i \in 1..Len(order) : order[i] = ch
    BY <1>2, Zenon
<1>4. order[k] = ch
    BY <1>2, <1>3, Zenon
<1> DEFINE left == SubSeq(order, 1, k - 1)
           right == SubSeq(order, k + 1, Len(order))
           rest == left \o right
<1>5. Without(order, ch) = rest
    BY <1>3 DEF Without
<1>6. left \in Seq(Changes) /\ Len(left) = k - 1 /\ \A i \in 1..(k - 1) : left[i] = order[i]
    BY <1>1
<1>7. right \in Seq(Changes) /\ Len(right) = Len(order) - k /\ \A i \in 1..(Len(order) - k) : right[i] = order[k + i]
    BY <1>1
<1> HIDE DEF left, right
<1>8. /\ rest \in Seq(Changes) /\ Len(rest) = Len(left) + Len(right)
      /\ \A i \in 1..Len(left) : rest[i] = left[i]
      /\ \A j \in 1..Len(right) : rest[Len(left) + j] = right[j]
    <2>1. left \in Seq(Changes) /\ right \in Seq(Changes)
        BY <1>6, <1>7
    <2>2. rest \in Seq(Changes) /\ Len(rest) = Len(left) + Len(right)
        BY <2>1, ConcatIndex
    <2>3. \A i \in 1..Len(left) : rest[i] = left[i]
        BY <2>1, ConcatIndex
    <2>4. \A j \in 1..Len(right) : rest[Len(left) + j] = right[j]
        BY <2>1, ConcatIndex
    <2>. QED
        BY <2>2, <2>3, <2>4
<1> HIDE DEF rest
<1>9. Len(rest) = Len(order) - 1
    BY <1>1, <1>6, <1>7, <1>8
<1>10. ASSUME NEW i \in 1..Len(rest)
       PROVE  LET j == IF i < k THEN i ELSE i + 1 IN j \in 1..Len(order) /\ j # k /\ rest[i] = order[j]
    <2>1. CASE i < k
        <3>1. i \in 1..(k - 1) /\ i \in 1..Len(order)
            BY <1>1, <1>9, <2>1
        <3>. QED
            BY <1>6, <1>8, <2>1, <3>1
    <2>2. CASE ~(i < k)
        <3>1. PICK m \in 1..(Len(order) - k) : m = i + 1 - k
            <4>1. i + 1 - k \in 1..(Len(order) - k)
                BY <1>1, <1>9, <2>2
            <4>. QED
                BY <4>1, Zenon
        <3>2. rest[(k - 1) + m] = right[m] /\ right[m] = order[k + m]
            BY <1>6, <1>7, <1>8, <3>1
        <3>3. (k - 1) + m = i /\ k + m = i + 1 /\ i + 1 \in 1..Len(order) /\ i + 1 # k
            BY <1>1, <1>9, <2>2, <3>1
        <3>. QED
            BY <2>2, <3>2, <3>3
    <2>. QED
        BY <2>1, <2>2
<1>11. \A i, j \in 1..Len(rest) : rest[i] = rest[j] => i = j
    <2> SUFFICES ASSUME NEW i \in 1..Len(rest), NEW j \in 1..Len(rest), rest[i] = rest[j] PROVE i = j
        OBVIOUS
    <2>1. PICK x \in 1..Len(order) : x = (IF i < k THEN i ELSE i + 1) /\ rest[i] = order[x]
        BY <1>10
    <2>2. PICK y \in 1..Len(order) : y = (IF j < k THEN j ELSE j + 1) /\ rest[j] = order[y]
        BY <1>10
    <2>3. x = y
        BY <2>1, <2>2 DEF Tracks
    <2>. QED
        BY <1>1, <2>1, <2>2, <2>3
<1>12. Range(rest) = ctx \ {ch}
    <2>1. ASSUME NEW x \in Range(rest) PROVE x \in ctx \ {ch}
        <3>1. PICK i \in 1..Len(rest) : rest[i] = x
            BY <1>8, <2>1, RangeIndex
        <3>2. PICK j \in 1..Len(order) : j # k /\ x = order[j]
            BY <1>10, <3>1
        <3>. QED
            BY <1>1, <1>4, <3>2, RangeIndex DEF Tracks
    <2>2. ASSUME NEW x \in ctx, x # ch PROVE x \in Range(rest)
        <3>1. PICK j \in 1..Len(order) : order[j] = x
            BY <1>1, <2>2, RangeIndex DEF Tracks
        <3>2. j # k
            BY <1>4, <2>2, <3>1
        <3>3. PICK i \in 1..Len(rest) : j = IF i < k THEN i ELSE i + 1
            <4>1. CASE j < k
                <5>1. j \in 1..Len(rest)
                    BY <1>1, <1>9, <4>1
                <5>. QED
                    BY <4>1, <5>1
            <4>2. CASE ~(j < k)
                <5>1. j - 1 \in 1..Len(rest) /\ ~(j - 1 < k) /\ (j - 1) + 1 = j
                    BY <1>1, <1>9, <3>2, <4>2
                <5>. QED
                    BY <5>1
            <4>. QED
                BY <4>1, <4>2
        <3>4. rest[i] = x
            BY <1>10, <3>1, <3>3
        <3>. QED
            BY <1>8, <3>4, RangeIndex
    <2>. QED
        BY <2>1, <2>2
<1>13. IsFiniteSet(ctx \ {ch}) /\ Cardinality(ctx \ {ch}) = Cardinality(ctx) - 1
    BY FS_RemoveElement DEF Tracks
<1>14. Len(rest) = Cardinality(ctx \ {ch})
    BY <1>9, <1>13 DEF Tracks
<1>. QED
    BY <1>5, <1>8, <1>11, <1>12, <1>13, <1>14 DEF Tracks

LEMMA RememberedEffect ==
    ASSUME NEW r \in RecRecord, Tracks(r.ctx, r.order), Cardinality(r.ctx) <= MaxTracked, NEW ch \in Changes,
           NEW m, m = Remembered(r, ch)
    PROVE  /\ m \in RecRecord /\ Tracks(m.ctx, m.order) /\ Cardinality(m.ctx) <= MaxTracked
           /\ m.ctx \subseteq r.ctx \cup {ch}
           /\ m.cur = r.cur /\ m.intents = r.intents /\ m.prev = r.prev /\ m.next = r.next /\ m.closed = r.closed
<1>1. CASE ch \in r.ctx
    BY <1>1 DEF Remembered
<1>2. CASE ch \notin r.ctx
    <2>1. r.ctx \in SUBSET Changes /\ Cardinality(r.ctx) \in Nat /\ MaxTracked \in Nat /\ MaxTracked > 0
        BY FS_CardinalityType, BoundsAssumption DEF RecRecord, Tracks, BoundsAssumption
    <2>2. PICK c \in SUBSET Changes, o \in Seq(Changes) :
              /\ Tracks(c, o) /\ c \subseteq r.ctx /\ Cardinality(c) + 1 <= MaxTracked
              /\ m = [r EXCEPT !.ctx = c \cup {ch}, !.order = Append(o, ch)]
        <3>1. CASE Cardinality(r.ctx) >= MaxTracked
            <4>1. r.order # <<>>
                BY <2>1, <3>1 DEF Tracks
            <4>2. /\ Tracks(r.ctx \ {Head(r.order)}, Tail(r.order))
                  /\ Cardinality(r.ctx \ {Head(r.order)}) = Cardinality(r.ctx) - 1
                BY <2>1, <4>1, DropOldest
            <4>3. m = [r EXCEPT !.ctx = (r.ctx \ {Head(r.order)}) \cup {ch}, !.order = Append(Tail(r.order), ch)]
                BY <1>2, <3>1 DEF Remembered, RecRecord
            <4>4. Cardinality(r.ctx \ {Head(r.order)}) + 1 <= MaxTracked
                BY <2>1, <4>2
            <4>5. Tail(r.order) \in Seq(Changes)
                BY <4>2 DEF Tracks
            <4>. QED
                BY <2>1, <4>2, <4>3, <4>4, <4>5, Zenon
        <3>2. CASE ~(Cardinality(r.ctx) >= MaxTracked)
            <4>1. m = [r EXCEPT !.ctx = r.ctx \cup {ch}, !.order = Append(r.order, ch)]
                BY <1>2, <3>2 DEF Remembered, RecRecord
            <4>2. Cardinality(r.ctx) + 1 <= MaxTracked
                BY <2>1, <3>2
            <4>3. r.order \in Seq(Changes)
                BY DEF Tracks
            <4>. QED
                BY <2>1, <4>1, <4>2, <4>3, Zenon
        <3>. QED
            BY <3>1, <3>2
    <2>3. ch \in Changes \ c
        BY <1>2, <2>2
    <2>4. PICK c2 \in SUBSET Changes, o2 \in Seq(Changes) :
              /\ c2 = c \cup {ch} /\ o2 = Append(o, ch) /\ Tracks(c2, o2) /\ Cardinality(c2) = Cardinality(c) + 1
        <3>1. Tracks(c \cup {ch}, Append(o, ch)) /\ Cardinality(c \cup {ch}) = Cardinality(c) + 1
            BY <2>2, <2>3, TrackOne
        <3>2. c \cup {ch} \in SUBSET Changes
            OBVIOUS
        <3>3. Append(o, ch) \in Seq(Changes)
            BY <3>1 DEF Tracks
        <3>. QED
            BY <3>1, <3>2, <3>3, Zenon
    <2>5. o2 \in Seq(Changes) /\ m = [r EXCEPT !.ctx = c2, !.order = o2]
        BY <2>2, <2>4 DEF Tracks
    <2>6. m \in RecRecord
        BY <2>5, Zenon DEF RecRecord
    <2>7. /\ m.ctx = c2 /\ m.order = o2 /\ m.cur = r.cur /\ m.intents = r.intents
          /\ m.prev = r.prev /\ m.next = r.next /\ m.closed = r.closed
        BY <2>5 DEF RecRecord
    <2>. QED
        BY <2>2, <2>4, <2>6, <2>7
<1>. QED
    BY <1>1, <1>2

LEMMA ForgottenEffect ==
    ASSUME NEW r \in RecRecord, Tracks(r.ctx, r.order), Cardinality(r.ctx) <= MaxTracked, NEW ch \in Changes,
           NEW m, m = Forgotten(r, ch)
    PROVE  /\ m \in RecRecord /\ Tracks(m.ctx, m.order) /\ Cardinality(m.ctx) <= MaxTracked
           /\ m.ctx = r.ctx \ {ch}
           /\ m.cur = r.cur /\ m.intents = r.intents /\ m.prev = r.prev /\ m.next = r.next /\ m.closed = r.closed
<1>1. CASE ch \notin r.ctx
    <2>1. m = r
        BY <1>1 DEF Forgotten
    <2>2. r.ctx \ {ch} = r.ctx
        BY <1>1
    <2>. QED
        BY <2>1, <2>2
<1>2. CASE ch \in r.ctx
    <2>1. r.ctx \in SUBSET Changes /\ Cardinality(r.ctx) \in Nat /\ MaxTracked \in Nat
        BY FS_CardinalityType, BoundsAssumption DEF RecRecord, Tracks, BoundsAssumption
    <2>2. PICK c \in SUBSET Changes, o \in Seq(Changes) :
              /\ c = r.ctx \ {ch} /\ o = Without(r.order, ch) /\ Tracks(c, o) /\ Cardinality(c) = Cardinality(r.ctx) - 1
        BY <1>2, <2>1, DropOne DEF Tracks
    <2>3. o \in Seq(Changes) /\ m = [r EXCEPT !.ctx = c, !.order = o]
        BY <1>2, <2>2 DEF Forgotten, Tracks, RecRecord
    <2>4. m \in RecRecord
        BY <2>3, Zenon DEF RecRecord
    <2>5. /\ m.ctx = c /\ m.order = o /\ m.cur = r.cur /\ m.intents = r.intents
          /\ m.prev = r.prev /\ m.next = r.next /\ m.closed = r.closed
        BY <2>3 DEF RecRecord
    <2>. QED
        BY <2>1, <2>2, <2>4, <2>5
<1>. QED
    BY <1>1, <1>2

----------------------------------------------------------------------------
(* Types, the flush mutex and the context map: the calls of the recorder *)

\* A change the recorder may track.
MayTrack(p, c) == p \in {"proposed", "approved"} \/ (p = "touched" /\ c = "idle")

LEMMA RecordedBase ==
    ASSUME BaseInv, Serving, rec' \in RecRecord, rec'.next > 0, rec'.cur = 0 => rec'.intents = {},
           Tracks(rec'.ctx, rec'.order), Cardinality(rec'.ctx) <= MaxTracked,
           phase' \in [Changes -> Phases], call' \in [Changes -> {"idle", "flush", "spool"}],
           \A d \in Changes : call'[d] = "spool" <=> call[d] = "spool",
           \A d \in rec'.ctx : MayTrack(phase'[d], call'[d]),
           UNCHANGED <<claim, flushing, lifeVars, passVars, fileVars, netVars>>
    PROVE  BaseInv'
<1>1. EvTypeOK'
    BY DEF BaseInv, EvTypeOK, lifeVars, passVars, fileVars, netVars
<1>2. HoldInv'
    <2>1. Tracks(rec.ctx, rec.order)'
        BY DEF Tracks
    <2>2. \A ch \in rec'.ctx : phase'[ch] \in {"proposed", "approved"}
                              \/ (phase'[ch] = "touched" /\ call'[ch] = "idle")
        BY Zenon DEF MayTrack
    <2>3. /\ \A ch \in Changes : call'[ch] = "spool" <=> flushing' = ch
          /\ \A ch \in Changes : claim'[ch] # <<>> <=> call'[ch] = "spool"
        BY DEF BaseInv, HoldInv
    <2>. QED
        BY <2>1, <2>2, <2>3 DEF HoldInv
<1>3. StartInv'
    BY DEF BaseInv, StartInv, Serving, Live, lifeVars, passVars, fileVars
<1>. QED
    BY <1>1, <1>2, <1>3 DEF BaseInv

LEMMA ProposalEffect ==
    ASSUME BaseInv, NEW ch \in Changes, Proposal(ch)
    PROVE  /\ BaseInv' /\ Extended(rec, rec', {}) /\ Serving
           /\ UNCHANGED <<call, claim, flushing, lifeVars, passVars, fileVars, netVars>>
           /\ \A d \in Changes : phase'[d] = "approved" => phase[d] = "approved"
           /\ \A d \in Changes : phase'[d] = "touched" => phase[d] = "touched"
<1>1. PICK m : m = Remembered(rec, ch)
    OBVIOUS
<1>2. /\ m \in RecRecord /\ Tracks(m.ctx, m.order) /\ Cardinality(m.ctx) <= MaxTracked
      /\ m.ctx \subseteq rec.ctx \cup {ch}
      /\ m.cur = rec.cur /\ m.intents = rec.intents /\ m.prev = rec.prev /\ m.next = rec.next /\ m.closed = rec.closed
    BY <1>1, RememberedEffect DEF BaseInv, EvTypeOK, HoldInv
<1>3. /\ rec' = Appended(m, {}) /\ phase' = [phase EXCEPT ![ch] = "proposed"] /\ Serving /\ phase[ch] = "new"
      /\ UNCHANGED <<call, claim, flushing, lifeVars, passVars, fileVars, netVars, faults>>
    BY <1>1 DEF Proposal
<1>4. run \in Nat /\ m.next > 0 /\ {} \in SUBSET Changes
    BY <1>2 DEF BaseInv, EvTypeOK, HoldInv
<1>5. PICK a : a = rec'
    OBVIOUS
<1>6. Extended(m, a, {}) /\ a.ctx = m.ctx /\ a.order = m.order
    BY <1>2, <1>3, <1>4, <1>5, AppendedEffect
<1>7. Extended(rec, a, {})
    BY <1>2, <1>6 DEF Extended
<1>8. phase \in [Changes -> Phases] /\ \A d \in Changes : phase'[d] = IF d = ch THEN "proposed" ELSE phase[d]
    BY <1>3 DEF BaseInv, EvTypeOK
<1>9. phase' \in [Changes -> Phases] /\ call' \in [Changes -> {"idle", "flush", "spool"}]
    BY <1>3 DEF BaseInv, EvTypeOK, Phases
<1>10. \A d \in a.ctx : MayTrack(phase'[d], call'[d])
    <2>1. a.ctx \subseteq Changes
        BY <1>2, <1>6 DEF RecRecord
    <2>. QED
        BY <1>2, <1>3, <1>6, <1>8, <2>1 DEF BaseInv, HoldInv, MayTrack
<1>11. BaseInv'
    BY <1>2, <1>3, <1>5, <1>6, <1>9, <1>10, RecordedBase DEF Extended
<1>. QED
    BY <1>3, <1>5, <1>7, <1>8, <1>11

LEMMA ApprovalEffect ==
    ASSUME BaseInv, NEW ch \in Changes, NEW verdict \in {"approved", "rejected"}, Approval(ch, verdict)
    PROVE  /\ BaseInv' /\ Extended(rec, rec', {}) /\ Serving /\ phase[ch] = "proposed"
           /\ UNCHANGED <<call, claim, flushing, lifeVars, passVars, fileVars, netVars>>
           /\ phase' = [phase EXCEPT ![ch] = verdict]
<1>1. PICK a : a = Appended(rec, {})
    OBVIOUS
<1>2. rec \in RecRecord /\ run \in Nat /\ rec.next > 0 /\ {} \in SUBSET Changes
    BY DEF BaseInv, EvTypeOK, HoldInv
<1>3. Extended(rec, a, {}) /\ a.ctx = rec.ctx /\ a.order = rec.order
    BY <1>1, <1>2, AppendedEffect
<1>4. /\ rec' = (IF verdict = "approved" THEN a ELSE Forgotten(a, ch))
      /\ phase' = [phase EXCEPT ![ch] = verdict] /\ Serving /\ phase[ch] = "proposed"
      /\ UNCHANGED <<call, claim, flushing, lifeVars, passVars, fileVars, netVars, faults>>
    BY <1>1 DEF Approval
<1>5. PICK r : r = rec'
    OBVIOUS
<1>6. /\ r \in RecRecord /\ Tracks(r.ctx, r.order) /\ Cardinality(r.ctx) <= MaxTracked
      /\ r.ctx \subseteq rec.ctx /\ (ch \in r.ctx => verdict = "approved")
      /\ r.cur = a.cur /\ r.intents = a.intents /\ r.prev = a.prev /\ r.next = a.next /\ r.closed = a.closed
    <2>1. CASE verdict = "approved"
        BY <1>3, <1>4, <1>5, <2>1 DEF BaseInv, HoldInv, Extended
    <2>2. CASE verdict # "approved"
        <3>1. a \in RecRecord /\ Tracks(a.ctx, a.order) /\ Cardinality(a.ctx) <= MaxTracked
            BY <1>3 DEF BaseInv, HoldInv, Extended
        <3>2. r = Forgotten(a, ch)
            BY <1>4, <1>5, <2>2
        <3>3. /\ r \in RecRecord /\ Tracks(r.ctx, r.order) /\ Cardinality(r.ctx) <= MaxTracked
              /\ r.ctx = a.ctx \ {ch}
              /\ r.cur = a.cur /\ r.intents = a.intents /\ r.prev = a.prev /\ r.next = a.next /\ r.closed = a.closed
            BY <3>1, <3>2, ForgottenEffect
        <3>. QED
            BY <1>3, <3>3
    <2>. QED
        BY <2>1, <2>2
<1>7. Extended(rec, r, {})
    BY <1>3, <1>6 DEF Extended
<1>8. phase \in [Changes -> Phases] /\ \A d \in Changes : phase'[d] = IF d = ch THEN verdict ELSE phase[d]
    BY <1>4 DEF BaseInv, EvTypeOK
<1>9. phase' \in [Changes -> Phases] /\ call' \in [Changes -> {"idle", "flush", "spool"}]
    BY <1>4 DEF BaseInv, EvTypeOK, Phases
<1>10. \A d \in r.ctx : MayTrack(phase'[d], call'[d])
    <2>1. r.ctx \subseteq Changes
        BY <1>6 DEF RecRecord
    <2>. QED
        BY <1>4, <1>6, <1>8, <2>1 DEF BaseInv, HoldInv, MayTrack
<1>11. BaseInv'
    BY <1>4, <1>5, <1>6, <1>7, <1>9, <1>10, RecordedBase DEF Extended
<1>. QED
    BY <1>4, <1>5, <1>7, <1>11

LEMMA ApplyIntentEffect ==
    ASSUME BaseInv, NEW ch \in Changes, ApplyIntent(ch)
    PROVE  /\ BaseInv' /\ Extended(rec, rec', {ch}) /\ Serving /\ call[ch] = "idle" /\ phase[ch] = "approved"
           /\ UNCHANGED <<phase, claim, flushing, lifeVars, passVars, fileVars, netVars>>
           /\ call' = [call EXCEPT ![ch] = "flush"]
<1>1. PICK a : a = rec'
    OBVIOUS
<1>2. rec \in RecRecord /\ run \in Nat /\ rec.next > 0 /\ {ch} \in SUBSET Changes
    BY DEF BaseInv, EvTypeOK, HoldInv
<1>3. /\ a = Appended(rec, {ch}) /\ call' = [call EXCEPT ![ch] = "flush"]
      /\ Serving /\ phase[ch] = "approved" /\ call[ch] = "idle"
      /\ UNCHANGED <<phase, claim, flushing, lifeVars, passVars, fileVars, netVars, faults>>
    BY <1>1 DEF ApplyIntent
<1>4. Extended(rec, a, {ch}) /\ a.ctx = rec.ctx /\ a.order = rec.order
    BY <1>2, <1>3, AppendedEffect
<1>5. call \in [Changes -> {"idle", "flush", "spool"}] /\ \A d \in Changes : call'[d] = IF d = ch THEN "flush" ELSE call[d]
    BY <1>3 DEF BaseInv, EvTypeOK
<1>6. phase' \in [Changes -> Phases] /\ call' \in [Changes -> {"idle", "flush", "spool"}]
    BY <1>3 DEF BaseInv, EvTypeOK
<1>7. \A d \in a.ctx : MayTrack(phase'[d], call'[d])
    <2>1. a.ctx \subseteq Changes
        BY <1>2, <1>4 DEF RecRecord
    <2>. QED
        BY <1>3, <1>4, <1>5, <2>1 DEF BaseInv, HoldInv, MayTrack
<1>8. \A d \in Changes : call'[d] = "spool" <=> call[d] = "spool"
    BY <1>3, <1>5
<1>9. Tracks(a.ctx, a.order) /\ Cardinality(a.ctx) <= MaxTracked
    BY <1>4 DEF BaseInv, HoldInv
<1>10. BaseInv'
    BY <1>1, <1>3, <1>4, <1>6, <1>7, <1>8, <1>9, RecordedBase DEF Extended
<1>. QED
    BY <1>1, <1>3, <1>4, <1>10

LEMMA ResultReceiptEffect ==
    ASSUME BaseInv, NEW ch \in Changes, ResultReceipt(ch)
    PROVE  /\ BaseInv' /\ Extended(rec, rec', {}) /\ Serving /\ call[ch] = "idle" /\ phase[ch] = "touched"
           /\ UNCHANGED <<phase, claim, flushing, lifeVars, passVars, fileVars, netVars>>
           /\ call' = [call EXCEPT ![ch] = "flush"]
<1>1. PICK a : a = Appended(rec, {})
    OBVIOUS
<1>2. rec \in RecRecord /\ run \in Nat /\ rec.next > 0 /\ {} \in SUBSET Changes
    BY DEF BaseInv, EvTypeOK, HoldInv
<1>3. Extended(rec, a, {}) /\ a.ctx = rec.ctx /\ a.order = rec.order
    BY <1>1, <1>2, AppendedEffect
<1>4. PICK r : r = rec'
    OBVIOUS
<1>5. /\ r = Forgotten(a, ch) /\ call' = [call EXCEPT ![ch] = "flush"]
      /\ Serving /\ phase[ch] = "touched" /\ call[ch] = "idle"
      /\ UNCHANGED <<phase, claim, flushing, lifeVars, passVars, fileVars, netVars, faults>>
    BY <1>1, <1>4 DEF ResultReceipt
<1>6. /\ r \in RecRecord /\ Tracks(r.ctx, r.order) /\ Cardinality(r.ctx) <= MaxTracked
      /\ r.ctx = rec.ctx \ {ch}
      /\ r.cur = a.cur /\ r.intents = a.intents /\ r.prev = a.prev /\ r.next = a.next /\ r.closed = a.closed
    <2>1. a \in RecRecord /\ Tracks(a.ctx, a.order) /\ Cardinality(a.ctx) <= MaxTracked
        BY <1>3 DEF BaseInv, HoldInv, Extended
    <2>. QED
        BY <1>3, <1>5, <2>1, ForgottenEffect
<1>7. Extended(rec, r, {})
    BY <1>3, <1>6 DEF Extended
<1>8. call \in [Changes -> {"idle", "flush", "spool"}] /\ \A d \in Changes : call'[d] = IF d = ch THEN "flush" ELSE call[d]
    BY <1>5 DEF BaseInv, EvTypeOK
<1>9. phase' \in [Changes -> Phases] /\ call' \in [Changes -> {"idle", "flush", "spool"}]
    BY <1>5 DEF BaseInv, EvTypeOK
<1>10. \A d \in r.ctx : MayTrack(phase'[d], call'[d])
    <2>1. r.ctx \subseteq Changes
        BY <1>6 DEF RecRecord
    <2>. QED
        BY <1>5, <1>6, <1>8, <2>1 DEF BaseInv, HoldInv, MayTrack
<1>11. \A d \in Changes : call'[d] = "spool" <=> call[d] = "spool"
    BY <1>5, <1>8
<1>12. BaseInv'
    BY <1>4, <1>5, <1>6, <1>7, <1>9, <1>10, <1>11, RecordedBase DEF Extended
<1>. QED
    BY <1>4, <1>5, <1>7, <1>12

----------------------------------------------------------------------------
(* The outbox file *)

Segs(lines) == {s \in Range(lines) : s.line = "segment"}

LEMMA SpooledIsSegs == Spooled = Segs(outbox)
BY DEF Spooled, Segs

LEMMA SegsType ==
    ASSUME NEW lines \in Seq(Lines)
    PROVE  /\ Segs(lines) \subseteq SegRecord /\ Segs(lines) \subseteq Range(lines)
           /\ Loadable(lines) => Range(lines) = Segs(lines)
<1>1. Range(lines) \subseteq Lines
    BY RangeIndex, Zenon
<1>2. Segs(lines) \subseteq SegRecord /\ Segs(lines) \subseteq Range(lines)
    BY <1>1, Kinds DEF Segs
<1>3. Loadable(lines) => \A x \in Range(lines) : x.line = "segment"
    <2>1. \A x : x \in Range(lines) => \E i \in 1..Len(lines) : lines[i] = x
        BY RangeIndex, Zenon
    <2>. QED
        BY <2>1, Zenon DEF Loadable
<1>. QED
    BY <1>2, <1>3 DEF Segs

LEMMA SegsOfAppend ==
    ASSUME NEW lines \in Seq(Lines), NEW l \in Lines
    PROVE  /\ Segs(Append(lines, l)) = IF l \in SegRecord THEN Segs(lines) \cup {l} ELSE Segs(lines)
           /\ Loadable(Append(lines, l)) <=> Loadable(lines) /\ l \in SegRecord
<1>1. Range(Append(lines, l)) = Range(lines) \cup {l}
    BY RangeAppend
<1>2. l.line = "segment" <=> l \in SegRecord
    BY Kinds
<1>3. /\ Len(Append(lines, l)) = Len(lines) + 1 /\ Append(lines, l)[Len(lines) + 1] = l /\ Len(lines) \in Nat
      /\ \A i \in 1..Len(lines) : Append(lines, l)[i] = lines[i]
    BY AppendIndex
<1>4. Loadable(Append(lines, l)) <=> Loadable(lines) /\ l \in SegRecord
    <2>1. ASSUME Loadable(Append(lines, l)) PROVE Loadable(lines) /\ l \in SegRecord
        BY <1>2, <1>3, <2>1 DEF Loadable
    <2>2. ASSUME Loadable(lines), l \in SegRecord PROVE Loadable(Append(lines, l))
        <3> SUFFICES ASSUME NEW i \in 1..(Len(lines) + 1) PROVE Append(lines, l)[i].line = "segment"
            BY <1>3 DEF Loadable
        <3>1. CASE i = Len(lines) + 1
            BY <1>2, <1>3, <2>2, <3>1
        <3>2. CASE i # Len(lines) + 1
            <4>1. i \in 1..Len(lines)
                BY <1>3, <3>2
            <4>. QED
                BY <1>3, <2>2, <4>1 DEF Loadable
        <3>. QED
            BY <3>1, <3>2
    <2>. QED
        BY <2>1, <2>2
<1>. QED
    BY <1>1, <1>2, <1>4 DEF Segs

LEMMA PrefixIndex ==
    ASSUME NEW S, NEW s \in Seq(S), NEW n \in Nat, n <= Len(s)
    PROVE  /\ SubSeq(s, 1, n) \in Seq(S) /\ Len(SubSeq(s, 1, n)) = n
           /\ \A i \in 1..n : SubSeq(s, 1, n)[i] = s[i]
<1>1. \A i \in 1..n : s[i] \in S
    OBVIOUS
<1>2. SubSeq(s, 1, n) \in Seq(S)
    BY <1>1, SubSeqProperties
<1>3. Len(SubSeq(s, 1, n)) = n
    BY <1>1, SubSeqProperties
<1>4. ASSUME NEW i \in 1..n PROVE SubSeq(s, 1, n)[i] = s[i]
    BY <1>1, SubSeqProperties
<1>. QED
    BY <1>2, <1>3, <1>4

\* What an append to the file makes of it: one line more, or a stump welded.
LEMMA WriteEffect ==
    ASSUME NEW lines \in Seq(Lines), NEW l \in Lines, NEW w, w = Write(lines, l)
    PROVE  /\ w \in Seq(Lines) /\ w # <<>>
           /\ Segs(lines) \subseteq Segs(w)
           /\ w = Append(lines, l) \/ (Segs(w) = Segs(lines) /\ Last(w) = Garbage /\ ~Loadable(w) /\ ~Loadable(lines))
<1>1. CASE lines # <<>> /\ Last(lines).line = "torn"
    <2> DEFINE front == Front(lines)
    <2>1. w = Append(front, Garbage)
        BY <1>1 DEF Write
    <2>2. Len(lines) \in Nat /\ Len(lines) > 0 /\ Last(lines) = lines[Len(lines)] /\ Last(lines) \in Lines
        BY <1>1 DEF Last
    <2>3. front \in Seq(Lines) /\ Len(front) = Len(lines) - 1 /\ \A i \in 1..(Len(lines) - 1) : front[i] = lines[i]
        <3>1. front = SubSeq(lines, 1, Len(lines) - 1)
            BY Zenon DEF Front
        <3>2. PICK n \in Nat : n = Len(lines) - 1 /\ n <= Len(lines)
            <4>1. PICK m \in Nat : m = Len(lines) /\ m > 0
                BY <2>2, Zenon
            <4>2. m - 1 \in Nat /\ m - 1 <= m
                BY <4>1
            <4>. QED
                BY <4>1, <4>2, Zenon
        <3>3. /\ SubSeq(lines, 1, n) \in Seq(Lines) /\ Len(SubSeq(lines, 1, n)) = n
              /\ \A i \in 1..n : SubSeq(lines, 1, n)[i] = lines[i]
            BY <3>2, PrefixIndex, Zenon
        <3>. QED
            BY <3>1, <3>2, <3>3
    <2> HIDE DEF front
    <2>4. Last(lines) \notin SegRecord /\ Garbage \in Lines /\ Garbage \notin SegRecord
        BY <1>1, <2>2, Kinds DEF Lines
    <2>5. lines = Append(front, Last(lines))
        <3>1. /\ Append(front, Last(lines)) \in Seq(Lines) /\ Len(Append(front, Last(lines))) = Len(front) + 1
              /\ Append(front, Last(lines))[Len(front) + 1] = Last(lines)
              /\ \A i \in 1..Len(front) : Append(front, Last(lines))[i] = front[i]
            BY <2>2, <2>3, AppendIndex
        <3>2. Len(Append(front, Last(lines))) = Len(lines)
            BY <2>2, <2>3, <3>1
        <3>3. ASSUME NEW i \in 1..Len(lines) PROVE lines[i] = Append(front, Last(lines))[i]
            <4>1. CASE i = Len(lines)
                BY <2>2, <2>3, <3>1, <4>1
            <4>2. CASE i # Len(lines)
                <5>1. i \in 1..Len(front) /\ i \in 1..(Len(lines) - 1)
                    BY <2>2, <2>3, <4>2
                <5>. QED
                    BY <2>3, <3>1, <5>1
            <4>. QED
                BY <4>1, <4>2
        <3>. QED
            BY <3>1, <3>2, <3>3, SeqEqual
    <2>6. Segs(lines) = Segs(front) /\ ~Loadable(lines)
        <3>1. /\ Segs(Append(front, Last(lines))) = Segs(front)
              /\ ~Loadable(Append(front, Last(lines)))
            BY <2>2, <2>3, <2>4, SegsOfAppend
        <3>. QED
            BY <2>5, <3>1
    <2>7. Segs(w) = Segs(front) /\ ~Loadable(w)
        BY <2>1, <2>3, <2>4, SegsOfAppend
    <2>8. w \in Seq(Lines) /\ w # <<>> /\ Last(w) = Garbage
        <3>1. front \in Seq(Lines) /\ Garbage \in Lines
            BY <2>3, <2>4
        <3>2. Append(front, Garbage) \in Seq(Lines) /\ Append(front, Garbage) # <<>> /\ Last(Append(front, Garbage)) = Garbage
            BY <3>1, AppendIndex, ZenonT(60)
        <3>. QED
            BY <2>1, <3>2, Zenon
    <2>. QED
        BY <2>6, <2>7, <2>8
<1>2. CASE ~(lines # <<>> /\ Last(lines).line = "torn")
    <2>1. w = Append(lines, l)
        BY <1>2 DEF Write
    <2>2. w \in Seq(Lines) /\ w # <<>>
        BY <2>1, AppendIndex
    <2>. QED
        BY <2>1, <2>2, SegsOfAppend
<1>. QED
    BY <1>1, <1>2

LEMMA SpoolEffect ==
    ASSUME NEW s \in SegRecord, outbox \in Seq(Lines), SpoolSucceeds(s) \/ SpoolFails(s)
    PROVE  /\ outbox' \in Seq(Lines) /\ ledger' \subseteq ledger
           /\ \/ outbox' = outbox
              \/ outbox' = Write(outbox, s)
              \/ "outbox" \in TornFiles /\ outbox' = Write(outbox, Torn)
<1>1. s \in Lines /\ Torn \in Lines
    BY DEF Lines
<1>2. /\ ledger' \subseteq ledger
      /\ \/ outbox' = outbox
         \/ outbox' = Write(outbox, s)
         \/ "outbox" \in TornFiles /\ outbox' = Write(outbox, Torn)
    BY DEF SpoolSucceeds, SpoolFails, MarkOk, MarkFails
<1>3. Write(outbox, s) \in Seq(Lines) /\ Write(outbox, Torn) \in Seq(Lines)
    BY <1>1, WriteEffect
<1>. QED
    BY <1>2, <1>3

----------------------------------------------------------------------------
(* Types, the flush mutex and the context map: the flush *)

LEMMA ReturnedBase ==
    ASSUME BaseInv, NEW ch \in Changes, NEW ok \in BOOLEAN, Returns(ch, ok), call[ch] # "idle", flushing \in {NoOne, ch},
           claim' = [claim EXCEPT ![ch] = <<>>], outbox' \in Seq(Lines),
           rec' \in RecRecord, rec'.next > 0, rec'.cur = 0 => rec'.intents = {}, rec'.ctx = rec.ctx, rec'.order = rec.order,
           UNCHANGED <<lifeVars, passVars, netVars>>
    PROVE  BaseInv'
<1>1. /\ flushing' = NoOne /\ call' = [call EXCEPT ![ch] = "idle"]
      /\ phase' = [phase EXCEPT ![ch] = Answered(ch, ok)]
    BY DEF Returns
<1>2. Answered(ch, ok) \in {"ended", "touched", "approved"} /\ (Answered(ch, ok) = "ended" => phase[ch] = "touched")
    BY DEF Answered
<1>3. EvTypeOK
    BY DEF BaseInv
<1>4. <<>> \in Seq(SegRecord) /\ NoOne \notin Changes
    BY NoOneAssumption
<1>5. /\ \A d \in Changes : call'[d] = IF d = ch THEN "idle" ELSE call[d]
      /\ \A d \in Changes : claim'[d] = IF d = ch THEN <<>> ELSE claim[d]
      /\ \A d \in Changes : phase'[d] = IF d = ch THEN Answered(ch, ok) ELSE phase[d]
    BY <1>1, <1>3 DEF EvTypeOK
<1>6. EvTypeOK'
    <2>1. phase' \in [Changes -> Phases]
        BY <1>1, <1>2, <1>3 DEF EvTypeOK, Phases
    <2>2. call' \in [Changes -> {"idle", "flush", "spool"}] /\ claim' \in [Changes -> Seq(SegRecord)]
        BY <1>1, <1>3, <1>4 DEF EvTypeOK
    <2>. QED
        BY <1>1, <1>3, <2>1, <2>2 DEF EvTypeOK, lifeVars, passVars, netVars
<1>7. HoldInv'
    <2>1. /\ \A d \in Changes : call'[d] = "spool" <=> flushing' = d
          /\ \A d \in Changes : claim'[d] # <<>> <=> call'[d] = "spool"
        BY <1>1, <1>4, <1>5 DEF BaseInv, HoldInv
    <2>2. Tracks(rec.ctx, rec.order)' /\ Cardinality(rec'.ctx) <= MaxTracked
        BY DEF BaseInv, HoldInv, Tracks
    <2>3. \A d \in rec'.ctx : phase'[d] \in {"proposed", "approved"}
                              \/ (phase'[d] = "touched" /\ call'[d] = "idle")
        <3>1. rec.ctx \subseteq Changes
            BY <1>3 DEF EvTypeOK, RecRecord
        <3>. QED
            BY <1>2, <1>5, <3>1 DEF BaseInv, HoldInv
    <2>. QED
        BY <2>1, <2>2, <2>3 DEF HoldInv
<1>8. StartInv'
    BY DEF BaseInv, StartInv, Live, lifeVars, passVars
<1>. QED
    BY <1>6, <1>7, <1>8 DEF BaseInv

LEMMA HoldingBase ==
    ASSUME BaseInv, NEW ch \in Changes, call[ch] # "idle", flushing \in {NoOne, ch},
           flushing' = ch, call' = [call EXCEPT ![ch] = "spool"], phase' = phase,
           NEW X \in Seq(SegRecord), X # <<>>, claim' = [claim EXCEPT ![ch] = X], outbox' \in Seq(Lines),
           rec' \in RecRecord, rec'.next > 0, rec'.cur = 0 => rec'.intents = {}, rec'.ctx = rec.ctx, rec'.order = rec.order,
           UNCHANGED <<lifeVars, passVars, netVars>>
    PROVE  BaseInv'
<1>1. EvTypeOK
    BY DEF BaseInv
<1>2. NoOne \notin Changes
    BY NoOneAssumption
<1>3. /\ \A d \in Changes : call'[d] = IF d = ch THEN "spool" ELSE call[d]
      /\ \A d \in Changes : claim'[d] = IF d = ch THEN X ELSE claim[d]
    BY <1>1 DEF EvTypeOK
<1>4. EvTypeOK'
    <2>1. call' \in [Changes -> {"idle", "flush", "spool"}] /\ claim' \in [Changes -> Seq(SegRecord)]
        BY <1>1 DEF EvTypeOK
    <2>. QED
        BY <1>1, <2>1 DEF EvTypeOK, lifeVars, passVars, netVars
<1>5. HoldInv'
    <2>1. /\ \A d \in Changes : call'[d] = "spool" <=> flushing' = d
          /\ \A d \in Changes : claim'[d] # <<>> <=> call'[d] = "spool"
        BY <1>2, <1>3 DEF BaseInv, HoldInv
    <2>2. Tracks(rec.ctx, rec.order)' /\ Cardinality(rec'.ctx) <= MaxTracked
        BY DEF BaseInv, HoldInv, Tracks
    <2>3. \A d \in rec'.ctx : phase'[d] \in {"proposed", "approved"}
                              \/ (phase'[d] = "touched" /\ call'[d] = "idle")
        <3>1. rec.ctx \subseteq Changes
            BY <1>1 DEF EvTypeOK, RecRecord
        <3>. QED
            BY <1>3, <3>1 DEF BaseInv, HoldInv
    <2>. QED
        BY <2>1, <2>2, <2>3 DEF HoldInv
<1>6. StartInv'
    BY DEF BaseInv, StartInv, Live, lifeVars, passVars
<1>. QED
    BY <1>4, <1>5, <1>6 DEF BaseInv

\* X is all that r held, and a what is left of it.
Taken(r, a, X) ==
    /\ a.closed = <<>>
    /\ \/ X = r.closed /\ a.prev = r.prev /\ a.next = r.next /\ r.intents = {} /\ a.intents = {}
       \/ \E n \in SegRecord :
             /\ X = Append(r.closed, n) /\ a.prev = n.id /\ a.next = r.next + 1 /\ a.intents = {}
             /\ n.id = <<run, r.next - 1>> /\ n.prev = r.prev /\ n.intents = r.intents

\* The call that flushes either is answered or holds the mutex and its claim.
Answers(ch, ok, X) ==
    /\ claim' = [claim EXCEPT ![ch] = X]
    /\ \/ X = <<>> /\ Returns(ch, ok)
       \/ X # <<>> /\ flushing' = ch /\ call' = [call EXCEPT ![ch] = "spool"] /\ phase' = phase

LEMMA RolledTaken ==
    ASSUME NEW r \in RecRecord, run \in Nat, r.next > 0, r.cur = 0 => r.intents = {},
           NEW a, a = [Rolled(r) EXCEPT !.closed = <<>>]
    PROVE  /\ r.closed \o RolledOff(r) \in Seq(SegRecord)
           /\ a \in RecRecord /\ a.next > 0 /\ a.cur = 0 /\ a.ctx = r.ctx /\ a.order = r.order
           /\ Taken(r, a, r.closed \o RolledOff(r))
<1>1. r.closed \in Seq(SegRecord) /\ r.next \in Nat /\ <<>> \in Seq(SegRecord)
    BY DEF RecRecord
<1>2. CASE r.cur = 0
    <2>1. a = [r EXCEPT !.closed = <<>>] /\ RolledOff(r) = <<>>
        BY <1>2, EmptyRoll
    <2>2. r.closed \o <<>> = r.closed
        BY <1>1, ConcatEmptySeq
    <2>3. a \in RecRecord
        BY <1>1, <2>1, Zenon DEF RecRecord
    <2>4. /\ a.closed = <<>> /\ a.prev = r.prev /\ a.next = r.next /\ a.intents = r.intents
          /\ a.cur = 0 /\ a.ctx = r.ctx /\ a.order = r.order
        BY <1>2, <2>1 DEF RecRecord
    <2>. QED
        BY <1>1, <1>2, <2>1, <2>2, <2>3, <2>4 DEF Taken
<1>3. CASE r.cur # 0
    <2>1. PICK n \in SegRecord : n = Opened(r) /\ n.id = <<run, r.next - 1>> /\ n.prev = r.prev /\ n.intents = r.intents
        BY OpenedFields
    <2>2. PICK q \in RecRecord :
              /\ q = Rolled(r) /\ RolledOff(r) = <<n>> /\ q.ctx = r.ctx /\ q.order = r.order
              /\ q.cur = 0 /\ q.intents = {} /\ q.prev = n.id /\ q.next = r.next + 1
        BY <1>3, <2>1, RolledEffect
    <2>3. a = [q EXCEPT !.closed = <<>>]
        BY <2>2
    <2>4. a \in RecRecord
        BY <1>1, <2>3, Zenon DEF RecRecord
    <2>5. /\ a.closed = <<>> /\ a.prev = q.prev /\ a.next = q.next /\ a.intents = q.intents
          /\ a.cur = q.cur /\ a.ctx = q.ctx /\ a.order = q.order
        BY <2>3 DEF RecRecord
    <2>6. r.closed \o <<n>> = Append(r.closed, n) /\ Append(r.closed, n) \in Seq(SegRecord)
        BY <1>1, AppendIndex
    <2>7. a.next > 0
        BY <1>1, <2>2, <2>5
    <2>. QED
        BY <2>1, <2>2, <2>4, <2>5, <2>6, <2>7 DEF Taken
<1>. QED
    BY <1>2, <1>3

LEMMA FlushClaimEffect ==
    ASSUME BaseInv, NEW ch \in Changes, FlushClaim(ch)
    PROVE  /\ BaseInv' /\ call[ch] = "flush" /\ flushing = NoOne
           /\ UNCHANGED <<lifeVars, passVars, fileVars, netVars>>
           /\ \E X \in Seq(SegRecord) : Taken(rec, rec', X) /\ Answers(ch, TRUE, X)
<1>1. rec \in RecRecord /\ run \in Nat /\ rec.next > 0 /\ (rec.cur = 0 => rec.intents = {}) /\ outbox \in Seq(Lines)
    BY DEF BaseInv, EvTypeOK, HoldInv
<1>2. PICK a : a = rec'
    OBVIOUS
<1>3. PICK X : X = rec.closed \o RolledOff(rec)
    OBVIOUS
<1>4. /\ call[ch] = "flush" /\ flushing = NoOne /\ a = [Rolled(rec) EXCEPT !.closed = <<>>]
      /\ claim' = [claim EXCEPT ![ch] = X]
      /\ IF X = <<>> THEN Returns(ch, TRUE)
         ELSE flushing' = ch /\ call' = [call EXCEPT ![ch] = "spool"] /\ UNCHANGED phase
      /\ UNCHANGED <<lifeVars, passVars, fileVars, netVars, faults>>
    BY <1>2, <1>3 DEF FlushClaim
<1>5. /\ X \in Seq(SegRecord) /\ a \in RecRecord /\ a.next > 0 /\ a.cur = 0 /\ a.ctx = rec.ctx /\ a.order = rec.order
      /\ Taken(rec, a, X)
    BY <1>1, <1>3, <1>4, RolledTaken
<1>6. Answers(ch, TRUE, X)
    BY <1>4 DEF Answers
<1>7. outbox' \in Seq(Lines) /\ UNCHANGED <<lifeVars, passVars, netVars>>
    BY <1>1, <1>4 DEF fileVars
<1>8. a.intents = {}
    BY <1>5 DEF Taken
<1>9. BaseInv'
    <2>1. CASE X = <<>>
        <3>1. Returns(ch, TRUE) /\ claim' = [claim EXCEPT ![ch] = <<>>] /\ TRUE \in BOOLEAN /\ call[ch] # "idle" /\ flushing \in {NoOne, ch}
            BY <1>4, <2>1
        <3>. QED
            BY <1>2, <1>5, <1>7, <1>8, <3>1, ReturnedBase
    <2>2. CASE X # <<>>
        <3>1. /\ flushing' = ch /\ call' = [call EXCEPT ![ch] = "spool"] /\ phase' = phase
              /\ call[ch] # "idle" /\ flushing \in {NoOne, ch}
            BY <1>4, <2>2
        <3>. QED
            BY <1>2, <1>4, <1>5, <1>7, <1>8, <2>2, <3>1, HoldingBase
    <2>. QED
        BY <2>1, <2>2
<1>. QED
    BY <1>2, <1>4, <1>5, <1>6, <1>9

\* Who spools holds the mutex and has something to write.
LEMMA Spooling ==
    ASSUME BaseInv, NEW ch \in Changes, call[ch] = "spool"
    PROVE  flushing = ch /\ claim[ch] \in Seq(SegRecord) /\ claim[ch] # <<>> /\ Claimed = claim[ch]
<1>1. flushing = ch /\ claim[ch] \in Seq(SegRecord) /\ claim[ch] # <<>>
    BY DEF BaseInv, EvTypeOK, HoldInv
<1>2. ch # NoOne
    BY NoOneAssumption
<1>. QED
    BY <1>1, <1>2 DEF Claimed

LEMMA FlushSpoolEffect ==
    ASSUME BaseInv, NEW ch \in Changes, FlushSpool(ch)
    PROVE  /\ BaseInv' /\ call[ch] = "spool" /\ SpoolSucceeds(Head(claim[ch]))
           /\ UNCHANGED <<rec, lifeVars, passVars, netVars>>
           /\ Answers(ch, TRUE, Tail(claim[ch]))
<1>1. /\ call[ch] = "spool" /\ SpoolSucceeds(Head(claim[ch])) /\ claim' = [claim EXCEPT ![ch] = Tail(@)]
      /\ IF Len(claim[ch]) = 1 THEN Returns(ch, TRUE) ELSE UNCHANGED <<flushing, call, phase>>
      /\ UNCHANGED <<rec, lifeVars, passVars, netVars>>
    BY DEF FlushSpool
<1>2. flushing = ch /\ claim[ch] \in Seq(SegRecord) /\ claim[ch] # <<>>
    BY <1>1, Spooling
<1>3. PICK X \in Seq(SegRecord) : X = Tail(claim[ch]) /\ Len(X) = Len(claim[ch]) - 1 /\ Head(claim[ch]) \in SegRecord
    BY <1>2, TailIndex
<1>4. Len(claim[ch]) = 1 <=> X = <<>>
    <2>1. X = <<>> <=> Len(X) = 0
        OBVIOUS
    <2>2. Len(claim[ch]) \in Nat
        BY <1>2
    <2>. QED
        BY <1>3, <2>1, <2>2
<1>5. claim' = [claim EXCEPT ![ch] = X]
    BY <1>1, <1>3 DEF BaseInv, EvTypeOK
<1>6. call = [call EXCEPT ![ch] = "spool"]
    BY <1>1 DEF BaseInv, EvTypeOK
<1>7. Answers(ch, TRUE, X)
    BY <1>1, <1>2, <1>4, <1>5, <1>6 DEF Answers
<1>8. outbox' \in Seq(Lines)
    BY <1>1, <1>3, SpoolEffect DEF BaseInv, EvTypeOK
<1>9. rec' \in RecRecord /\ rec'.next > 0 /\ (rec'.cur = 0 => rec'.intents = {}) /\ rec'.ctx = rec.ctx /\ rec'.order = rec.order
    BY <1>1 DEF BaseInv, EvTypeOK, HoldInv
<1>10. BaseInv'
    <2>1. CASE X = <<>>
        <3>1. Returns(ch, TRUE) /\ claim' = [claim EXCEPT ![ch] = <<>>] /\ TRUE \in BOOLEAN /\ call[ch] # "idle" /\ flushing \in {NoOne, ch}
            BY <1>1, <1>2, <1>4, <1>5, <2>1
        <3>. QED
            BY <1>1, <1>8, <1>9, <3>1, ReturnedBase
    <2>2. CASE X # <<>>
        <3>1. /\ flushing' = ch /\ call' = [call EXCEPT ![ch] = "spool"] /\ phase' = phase
              /\ call[ch] # "idle" /\ flushing \in {NoOne, ch}
            BY <1>1, <1>2, <1>4, <1>6, <2>2
        <3>. QED
            BY <1>1, <1>5, <1>8, <1>9, <2>2, <3>1, HoldingBase
    <2>. QED
        BY <2>1, <2>2
<1>. QED
    BY <1>1, <1>3, <1>7, <1>10

LEMMA FlushRefusedEffect ==
    ASSUME BaseInv, NEW ch \in Changes, FlushRefused(ch)
    PROVE  /\ BaseInv' /\ call[ch] = "spool" /\ SpoolFails(Head(claim[ch]))
           /\ rec' = [rec EXCEPT !.closed = claim[ch] \o rec.closed] /\ rec'.closed = claim[ch] \o rec.closed
           /\ rec'.prev = rec.prev /\ rec'.next = rec.next /\ rec'.intents = rec.intents
           /\ UNCHANGED <<lifeVars, passVars, netVars>>
           /\ Answers(ch, FALSE, <<>>)
<1>1. /\ call[ch] = "spool" /\ SpoolFails(Head(claim[ch])) /\ claim' = [claim EXCEPT ![ch] = <<>>]
      /\ rec' = [rec EXCEPT !.closed = claim[ch] \o @] /\ Returns(ch, FALSE)
      /\ UNCHANGED <<lifeVars, passVars, netVars>>
    BY DEF FlushRefused
<1>2. flushing = ch /\ claim[ch] \in Seq(SegRecord) /\ claim[ch] # <<>>
    BY <1>1, Spooling
<1>3. rec \in RecRecord /\ rec.closed \in Seq(SegRecord) /\ rec.next > 0 /\ (rec.cur = 0 => rec.intents = {})
    BY DEF BaseInv, EvTypeOK, HoldInv, RecRecord
<1>4. PICK X \in Seq(SegRecord) : X = claim[ch] \o rec.closed
    BY <1>2, <1>3, ConcatIndex
<1>5. rec' = [rec EXCEPT !.closed = X]
    BY <1>1, <1>3, <1>4 DEF RecRecord
<1>6. rec' \in RecRecord
    BY <1>3, <1>5, Zenon DEF RecRecord
<1>7. /\ rec'.closed = X /\ rec'.prev = rec.prev /\ rec'.next = rec.next /\ rec'.intents = rec.intents
      /\ rec'.cur = rec.cur /\ rec'.ctx = rec.ctx /\ rec'.order = rec.order
    BY <1>3, <1>5 DEF RecRecord
<1>8. outbox' \in Seq(Lines)
    <2>1. Head(claim[ch]) \in SegRecord
        BY <1>2, TailIndex
    <2>. QED
        BY <1>1, <2>1, SpoolEffect DEF BaseInv, EvTypeOK
<1>9. rec'.next > 0 /\ (rec'.cur = 0 => rec'.intents = {})
    BY <1>3, <1>7
<1>10. FALSE \in BOOLEAN /\ call[ch] # "idle" /\ flushing \in {NoOne, ch}
    BY <1>1, <1>2
<1>11. BaseInv'
    BY <1>1, <1>6, <1>7, <1>8, <1>9, <1>10, ReturnedBase
<1>12. Answers(ch, FALSE, <<>>)
    BY <1>1 DEF Answers
<1>. QED
    BY <1>1, <1>4, <1>5, <1>7, <1>11, <1>12

----------------------------------------------------------------------------
(* Types, the flush mutex and the context map: delivery, starts and ends *)

\* Steps that leave the callers and the recorder alone.
LEMMA AsideBase ==
    ASSUME BaseInv, UNCHANGED <<callVars, rec>>,
           mode' \in Modes, run' \in Nat, residue' \in Seq(SegRecord), pass' \in PassRecord,
           outbox' \in Seq(Lines), rows' \in Seq(SegRecord), flying' \subseteq SegRecord,
           StartInv'
    PROVE  BaseInv'
<1>1. EvTypeOK'
    BY DEF BaseInv, EvTypeOK, callVars
<1>2. HoldInv'
    BY DEF BaseInv, HoldInv, Tracks, callVars
<1>. QED
    BY <1>1, <1>2 DEF BaseInv

LEMMA LoadedEffect ==
    ASSUME BaseInv, NEW who \in {"start", "drain", "flush"}, NEW p, p = Loaded(who)
    PROVE  /\ p \in PassRecord /\ p.by = who
           /\ Loadable(outbox) => p.todo = {s \in Spooled : s.id \notin ledger} /\ p.error = FALSE
           /\ ~Loadable(outbox) => p.todo = {} /\ p.error = TRUE
<1>1. outbox \in Seq(Lines)
    BY DEF BaseInv, EvTypeOK
<1>2. NoPass \in PassRecord
    BY DEF NoPass, PassRecord
<1>3. CASE Loadable(outbox)
    <2>1. Range(outbox) = Spooled /\ Spooled \subseteq SegRecord
        BY <1>1, <1>3, SegsType, SpooledIsSegs
    <2>2. PICK T \in SUBSET SegRecord : T = {s \in Spooled : s.id \notin ledger}
        BY <2>1
    <2>3. p = [NoPass EXCEPT !.by = who, !.todo = T]
        BY <1>3, <2>1, <2>2 DEF Loaded
    <2>. QED
        <3>1. p \in PassRecord
            BY <1>2, <2>3, Zenon DEF PassRecord
        <3>2. p.by = who /\ p.todo = T /\ p.error = FALSE
            BY <2>3 DEF NoPass
        <3>. QED
            BY <1>3, <2>2, <3>1, <3>2
<1>4. CASE ~Loadable(outbox)
    <2>1. p = [NoPass EXCEPT !.by = who, !.error = TRUE]
        BY <1>4 DEF Loaded
    <2>. QED
        <3>1. p \in PassRecord
            BY <1>2, <2>1, Zenon DEF PassRecord
        <3>2. p.by = who /\ p.todo = {} /\ p.error = TRUE
            BY <2>1 DEF NoPass
        <3>. QED
            BY <1>4, <3>1, <3>2
<1>. QED
    BY <1>3, <1>4

LEMMA InsertedEffect ==
    ASSUME NEW s \in SegRecord, rows \in Seq(SegRecord)
    PROVE  /\ Inserted(s) \in Seq(SegRecord)
           /\ \/ Inserted(s) = rows /\ s.id \in Landed
              \/ Inserted(s) = Append(rows, s) /\ s.id \notin Landed
<1>1. s.id \in Landed <=> \E i \in 1..Len(rows) : rows[i].id = s.id
    <2>1. \A x : x \in Range(rows) <=> \E i \in 1..Len(rows) : rows[i] = x
        BY RangeIndex, Zenon
    <2>. QED
        BY <2>1, ZenonT(60) DEF Landed
<1>2. Append(rows, s) \in Seq(SegRecord)
    BY AppendIndex
<1>. QED
    BY <1>1, <1>2, Zenon DEF Inserted, DedupToken

LEMMA TurnEffect ==
    ASSUME NEW s \in Turn
    PROVE  s \in pass.todo /\ \A t \in pass.todo : SameRun(t.id, s.id) => s.id[2] <= t.id[2]
BY DEF Turn

\* What one attempt to deliver s leaves: it is on record as delivered, or its run
\* or the whole pass is given up, or the insert is still to be sent.
Attempted(s) ==
    /\ UNCHANGED <<callVars, rec, lifeVars, drain, outbox>>
    /\ pass'.by = pass.by /\ (~pass'.error => ~pass.error)
    /\ rows' = rows \/ rows' = Inserted(s)
    /\ flying' = flying \/ flying' = flying \cup {s}
    /\ \/ /\ ledger' = ledger \cup {s.id} /\ pass'.todo = pass.todo \ {s}
          /\ flying' = flying /\ (rows' = Inserted(s) \/ (rows' = rows /\ Covered(s.id)))
       \/ /\ ledger' \subseteq ledger
          /\ pass'.todo \in {{}, {t \in pass.todo : ~SameRun(t.id, s.id)}, pass.todo}

LEMMA DeliverOkEffect ==
    ASSUME pass \in PassRecord, NEW s \in SegRecord, DeliverOk(s)
    PROVE  /\ pass' \in PassRecord /\ pass'.by = pass.by /\ (~pass'.error => ~pass.error)
           /\ \/ ledger' = ledger \cup {s.id} /\ pass'.todo = pass.todo \ {s}
              \/ ledger' = ledger /\ pass'.todo = {}
<1>1. s.id[1] \in Nat
    BY Kinds DEF Ids
<1>2. pass.todo \in SUBSET SegRecord /\ pass.todo \ {s} \in SUBSET SegRecord /\ {} \in SUBSET SegRecord
    BY DEF PassRecord
<1>3. PICK after : after = [pass EXCEPT !.at = s.id[1], !.sending = FALSE, !.todo = pass.todo \ {s}]
    OBVIOUS
<1>4. after \in PassRecord
    BY <1>1, <1>2, <1>3, Zenon DEF PassRecord
<1>5. after.by = pass.by /\ after.todo = pass.todo \ {s} /\ after.error = pass.error
    BY <1>3 DEF PassRecord
<1>6. Settle(s.id, "delivered", after)
    BY <1>3 DEF DeliverOk, PassRecord
<1>7. CASE MarkOk(s.id, "delivered") /\ pass' = after
    BY <1>4, <1>5, <1>7 DEF MarkOk
<1>8. CASE MarkFails /\ pass' = [after EXCEPT !.todo = {}, !.error = TRUE]
    <2>1. pass' \in PassRecord
        BY <1>2, <1>4, <1>8, Zenon DEF PassRecord
    <2>2. pass'.by = after.by /\ pass'.todo = {} /\ pass'.error = TRUE
        BY <1>4, <1>8 DEF PassRecord
    <2>. QED
        BY <1>5, <1>8, <2>1, <2>2 DEF MarkFails
<1>. QED
    BY <1>6, <1>7, <1>8 DEF Settle

LEMMA DeliverErrEffect ==
    ASSUME pass \in PassRecord, NEW s \in SegRecord, DeliverErr(s)
    PROVE  /\ pass' \in PassRecord /\ pass'.by = pass.by /\ (~pass'.error => ~pass.error)
           /\ ledger' \subseteq ledger
           /\ pass'.todo \in {{}, {t \in pass.todo : ~SameRun(t.id, s.id)}, pass.todo}
<1>1. s.id[1] \in Nat
    BY Kinds DEF Ids
<1>2. PICK T \in SUBSET SegRecord : T = {t \in pass.todo : ~SameRun(t.id, s.id)}
    <2>1. {t \in pass.todo : ~SameRun(t.id, s.id)} \in SUBSET SegRecord
        BY DEF PassRecord
    <2>. QED
        BY <2>1, Zenon
<1>3. {} \in SUBSET SegRecord /\ TRUE \in BOOLEAN /\ FALSE \in BOOLEAN
    OBVIOUS
<1>4. CASE MarkOk(s.id, "failed") /\ pass' = [pass EXCEPT !.at = s.id[1], !.sending = FALSE, !.todo = T]
    <2>1. pass' \in PassRecord
        BY <1>1, <1>2, <1>3, <1>4, Zenon DEF PassRecord
    <2>2. pass'.by = pass.by /\ pass'.todo = T /\ pass'.error = pass.error
        BY <1>4 DEF PassRecord
    <2>3. ledger' \subseteq ledger
        BY <1>4 DEF MarkOk
    <2>. QED
        BY <1>2, <2>1, <2>2, <2>3
<1>5. CASE MarkFails /\ pass' = [pass EXCEPT !.at = s.id[1], !.sending = FALSE, !.todo = {}, !.error = TRUE]
    <2>1. pass' \in PassRecord
        BY <1>1, <1>3, <1>5, Zenon DEF PassRecord
    <2>2. pass'.by = pass.by /\ pass'.todo = {} /\ pass'.error = TRUE
        BY <1>5 DEF PassRecord
    <2>3. ledger' \subseteq ledger
        BY <1>5 DEF MarkFails
    <2>. QED
        BY <2>1, <2>2, <2>3
<1>. QED
    BY <1>2, <1>4, <1>5 DEF DeliverErr, PassRecord

LEMMA DeliverEffect ==
    ASSUME BaseInv, NEW s \in Turn, ReadMark(s) \/ SendSegment(s)
    PROVE  BaseInv' /\ Attempted(s) /\ s \in SegRecord
<1>1. EvTypeOK /\ pass \in PassRecord
    BY DEF BaseInv, EvTypeOK
<1>2. s \in SegRecord
    BY <1>1, TurnEffect DEF PassRecord
<1>3. Inserted(s) \in Seq(SegRecord)
    BY <1>1, <1>2, InsertedEffect DEF EvTypeOK
<1>4. UNCHANGED <<callVars, rec, lifeVars, drain, outbox>>
    BY DEF ReadMark, SendSegment
<1>5. pass' \in PassRecord /\ Attempted(s)
    <2>1. CASE ReadMark(s)
        <3>0. UNCHANGED netVars
            BY <2>1 DEF ReadMark
        <3>1. CASE Covered(s.id) /\ DeliverOk(s)
            BY <1>1, <1>2, <1>4, <3>0, <3>1, DeliverOkEffect DEF Attempted, netVars
        <3>2. CASE /\ pass' = [pass EXCEPT !.at = s.id[1], !.sending = TRUE]
                   /\ UNCHANGED <<ledger, ledgerEnd>>
            <4>1. s.id[1] \in Nat
                BY <1>2, Kinds DEF Ids
            <4>2. pass' \in PassRecord
                BY <1>1, <3>2, <4>1, Zenon DEF PassRecord
            <4>3. pass'.by = pass.by /\ pass'.todo = pass.todo /\ pass'.error = pass.error
                BY <1>1, <3>2 DEF PassRecord
            <4>. QED
                BY <1>4, <3>0, <3>2, <4>2, <4>3 DEF Attempted, netVars
        <3>3. CASE DeliverErr(s)
            BY <1>1, <1>2, <1>4, <3>0, <3>3, DeliverErrEffect DEF Attempted, netVars
        <3>. QED
            BY <2>1, <3>1, <3>2, <3>3 DEF ReadMark
    <2>2. CASE SendSegment(s)
        <3>1. CASE Exchange(s, "ok") /\ DeliverOk(s)
            <4>1. rows' = Inserted(s) /\ flying' = flying
                BY <3>1 DEF Exchange
            <4>. QED
                BY <1>1, <1>2, <1>4, <3>1, <4>1, DeliverOkEffect DEF Attempted
        <3>2. CASE Exchange(s, "error") /\ DeliverErr(s)
            <4>1. (rows' = rows \/ rows' = Inserted(s)) /\ (flying' = flying \/ flying' = flying \cup {s})
                BY <3>2 DEF Exchange
            <4>. QED
                BY <1>1, <1>2, <1>4, <3>2, <4>1, DeliverErrEffect DEF Attempted
        <3>. QED
            BY <2>2, <3>1, <3>2 DEF SendSegment
    <2>. QED
        BY <2>1, <2>2
<1>6. rows' \in Seq(SegRecord) /\ flying' \subseteq SegRecord
    BY <1>1, <1>2, <1>3, <1>5 DEF Attempted, EvTypeOK
<1>7. StartInv'
    BY <1>4, <1>5 DEF BaseInv, StartInv, Attempted, Live, callVars, lifeVars
<1>8. BaseInv'
    BY <1>1, <1>4, <1>5, <1>6, <1>7, AsideBase DEF EvTypeOK, lifeVars
<1>. QED
    BY <1>2, <1>5, <1>8

LEMMA NoPassType == NoPass \in PassRecord /\ NoPass.by = "none" /\ NoPass.todo = {}
BY DEF NoPass, PassRecord

LEMMA RootIsNoId == Root \notin Ids
BY DEF Root, Ids

LEMMA RowsType ==
    ASSUME rows \in Seq(SegRecord)
    PROVE  Range(rows) \subseteq SegRecord /\ Landed \subseteq Ids /\ RemoteTails \subseteq Landed
<1>1. Range(rows) \subseteq SegRecord
    BY RangeIndex, Zenon
<1>. QED
    BY <1>1, Kinds DEF Landed, RemoteTails

LEMMA LateLandingEffect ==
    ASSUME BaseInv, NEW s \in flying, LateLanding(s)
    PROVE  BaseInv' /\ s \in SegRecord
<1>1. s \in SegRecord /\ rows \in Seq(SegRecord)
    BY DEF BaseInv, EvTypeOK
<1>2. Inserted(s) \in Seq(SegRecord)
    BY <1>1, InsertedEffect
<1>3. /\ UNCHANGED <<callVars, rec, lifeVars, passVars, fileVars>>
      /\ rows' = Inserted(s) /\ flying' = flying \ {s}
    BY DEF LateLanding
<1>4. StartInv'
    BY <1>3 DEF BaseInv, StartInv, Live, callVars, lifeVars, passVars, fileVars
<1>5. BaseInv'
    BY <1>2, <1>3, <1>4, AsideBase DEF BaseInv, EvTypeOK, lifeVars, passVars, fileVars
<1>. QED
    BY <1>1, <1>5

LEMMA DrainEffect ==
    ASSUME BaseInv, Drain
    PROVE  /\ BaseInv' /\ UNCHANGED <<callVars, rec, lifeVars, fileVars, netVars>>
           /\ pass' = pass \/ pass' = Loaded("drain") \/ pass' = NoPass
<1>1. /\ UNCHANGED <<callVars, rec, lifeVars, fileVars, netVars>>
      /\ pass' = pass \/ pass' = Loaded("drain") \/ pass' = NoPass
    BY DEF Drain, DrainWake, DrainPassed
<1>2. pass' \in PassRecord /\ (pass' = pass \/ pass'.by # "start")
    <2>1. CASE pass' = pass
        BY <2>1 DEF BaseInv, EvTypeOK
    <2>2. CASE pass' = Loaded("drain")
        <3>1. pass' \in PassRecord /\ pass'.by = "drain"
            BY <2>2, LoadedEffect
        <3>. QED
            BY <3>1
    <2>3. CASE pass' = NoPass
        BY <2>3, NoPassType
    <2>. QED
        BY <1>1, <2>1, <2>2, <2>3
<1>3. StartInv'
    BY <1>1, <1>2 DEF BaseInv, StartInv, Live, callVars, lifeVars, fileVars
<1>4. BaseInv'
    BY <1>1, <1>2, <1>3, AsideBase DEF BaseInv, EvTypeOK, lifeVars, fileVars, netVars
<1>. QED
    BY <1>1, <1>4

LEMMA OpenSinkEffect ==
    ASSUME BaseInv, OpenSink
    PROVE  /\ BaseInv' /\ mode = "down" /\ mode' = "replay" /\ pass' = Loaded("start")
           /\ UNCHANGED <<callVars, rec, run, stop, residue, drain, outbox, ledger, netVars>>
<1>1. /\ mode = "down" /\ mode' = "replay" /\ pass' = Loaded("start")
      /\ UNCHANGED <<callVars, rec, run, stop, residue, drain, outbox, ledger, netVars>>
    BY DEF OpenSink
<1>2. /\ pass' \in PassRecord /\ pass'.by = "start"
      /\ ~Loadable(outbox) => pass'.error = TRUE
    BY <1>1, LoadedEffect
<1>3. StartInv'
    <2>1. \A ch \in Changes : call'[ch] = "idle"
        BY <1>1 DEF BaseInv, StartInv, Live, callVars
    <2>2. mode' = "replay" /\ (~pass'.error => Loadable(outbox'))
        BY <1>1, <1>2
    <2>. QED
        BY <2>1, <2>2 DEF StartInv
<1>4. BaseInv'
    BY <1>1, <1>2, <1>3, AsideBase DEF BaseInv, EvTypeOK, Modes, netVars
<1>. QED
    BY <1>1, <1>4

LEMMA ResumeEffect ==
    ASSUME BaseInv, Loadable(outbox)
    PROVE  /\ ResumeHead \in Heads
           /\ outbox # <<>> => Last(outbox) \in Spooled /\ ResumeHead = Last(outbox).id
           /\ outbox = <<>> /\ RemoteTails # {} => ResumeHead \in RemoteTails
           /\ outbox = <<>> /\ RemoteTails = {} => ResumeHead = Root
<1>1. outbox \in Seq(Lines) /\ rows \in Seq(SegRecord)
    BY DEF BaseInv, EvTypeOK
<1>2. CASE outbox = <<>>
    <2>1. ProducedHead = Root
        BY <1>2 DEF ProducedHead
    <2>2. RemoteTails # {} => (CHOOSE t \in RemoteTails : TRUE) \in RemoteTails
        OBVIOUS
    <2>. QED
        BY <1>1, <1>2, <2>1, <2>2, RowsType DEF ResumeHead, Heads
<1>3. CASE outbox # <<>>
    <2>1. Len(outbox) \in Nat /\ Len(outbox) > 0
        BY <1>1, <1>3
    <2>2. Last(outbox) = outbox[Len(outbox)] /\ Len(outbox) \in 1..Len(outbox)
        BY <2>1 DEF Last
    <2>3. Last(outbox) \in Range(outbox)
        BY <1>1, <2>2, RangeIndex
    <2>4. Last(outbox) \in Spooled /\ Last(outbox) \in SegRecord
        BY <1>1, <2>3, SegsType, SpooledIsSegs
    <2>5. ProducedHead = Last(outbox).id /\ Last(outbox).id \in Ids
        BY <1>3, <2>4, Kinds DEF ProducedHead
    <2>6. ResumeHead = Last(outbox).id
        BY <2>5, RootIsNoId DEF ResumeHead
    <2>. QED
        BY <1>3, <2>4, <2>5, <2>6 DEF Heads
<1>. QED
    BY <1>2, <1>3

LEMMA NoRecorderFields ==
    /\ NoRecorder \in RecRecord /\ NoRecorder.next = 1 /\ NoRecorder.intents = {} /\ NoRecorder.closed = <<>>
    /\ NoRecorder.prev = Root /\ NoRecorder.cur = 0
    /\ NoRecorder.ctx = {} /\ NoRecorder.order = <<>>
    /\ Tracks({}, <<>>) /\ Cardinality({}) <= MaxTracked
<1>1. <<>> \in Seq(SegRecord) /\ <<>> \in Seq(Changes) /\ Root \in Heads /\ {} \in SUBSET Changes /\ 0 \in Nat /\ 1 \in Nat
    BY DEF Heads
<1>2. IsFiniteSet({}) /\ Cardinality({}) = 0
    BY FS_EmptySet
<1>3. Tracks({}, <<>>)
    <2>1. Len(<<>>) = 0 /\ <<>> \in Seq(Changes)
        OBVIOUS
    <2>. QED
        BY <1>2, <2>1, RangeEmpty DEF Tracks
<1>4. 0 <= MaxTracked
    BY BoundsAssumption DEF BoundsAssumption
<1>5. /\ NoRecorder \in RecRecord /\ NoRecorder.next = 1 /\ NoRecorder.intents = {} /\ NoRecorder.closed = <<>>
      /\ NoRecorder.prev = Root /\ NoRecorder.cur = 0
      /\ NoRecorder.ctx = {} /\ NoRecorder.order = <<>>
    BY <1>1 DEF NoRecorder, RecRecord
<1>. QED
    BY <1>2, <1>3, <1>4, <1>5

LEMMA FreshRecorder ==
    ASSUME NEW head \in Heads, NEW r, r = NewRecorder(head)
    PROVE  /\ r \in RecRecord /\ r.next = 1 /\ r.intents = {} /\ r.prev = head /\ r.closed = <<>>
           /\ Tracks(r.ctx, r.order) /\ Cardinality(r.ctx) <= MaxTracked /\ r.ctx = {}
<1>2. r = [NoRecorder EXCEPT !.prev = head]
    BY DEF NewRecorder
<1>3. r \in RecRecord
    BY <1>2, NoRecorderFields, Zenon DEF RecRecord
<1>4. /\ r.prev = head /\ r.next = 1 /\ r.intents = {} /\ r.closed = <<>> /\ r.ctx = {} /\ r.order = <<>>
    BY <1>2, NoRecorderFields DEF RecRecord
<1>. QED
    BY <1>3, <1>4, NoRecorderFields

LEMMA StartUpEffect ==
    ASSUME BaseInv, StartUp
    PROVE  /\ BaseInv' /\ mode = "replay" /\ mode' = "up" /\ run' = run + 1 /\ Loadable(outbox) /\ pass' = NoPass
           /\ rec' = NewRecorder(ResumeHead) /\ ResumeHead \in Heads
           /\ UNCHANGED <<callVars, residue, fileVars, netVars>>
<1>1. /\ mode = "replay" /\ mode' = "up" /\ run' = run + 1 /\ pass' = NoPass /\ pass.by = "start" /\ ~pass.error
      /\ rec' = NewRecorder(ResumeHead) /\ UNCHANGED <<callVars, residue, fileVars, netVars>>
    BY DEF StartUp, PassOver
<1>2. Loadable(outbox)
    BY <1>1 DEF BaseInv, StartInv
<1>3. ResumeHead \in Heads
    BY <1>2, ResumeEffect
<1>4. PICK r : r = rec'
    OBVIOUS
<1>5. /\ r \in RecRecord /\ r.next = 1 /\ r.intents = {} /\ r.prev = ResumeHead /\ r.closed = <<>>
      /\ Tracks(r.ctx, r.order) /\ Cardinality(r.ctx) <= MaxTracked /\ r.ctx = {}
    BY <1>1, <1>3, <1>4, FreshRecorder
<1>6. EvTypeOK'
    BY <1>1, <1>4, <1>5, NoPassType DEF BaseInv, EvTypeOK, callVars, fileVars, netVars, Modes
<1>7. HoldInv'
    <2>1. Tracks(rec.ctx, rec.order)'
        BY <1>4, <1>5 DEF Tracks
    <2>2. rec'.next > 0 /\ rec'.intents = {} /\ Cardinality(rec'.ctx) <= MaxTracked /\ rec'.ctx = {}
        BY <1>4, <1>5
    <2>3. /\ \A ch \in Changes : call'[ch] = "spool" <=> flushing' = ch
          /\ \A ch \in Changes : claim'[ch] # <<>> <=> call'[ch] = "spool"
        BY <1>1 DEF BaseInv, HoldInv, callVars
    <2>. QED
        BY <2>1, <2>2, <2>3 DEF HoldInv
<1>8. StartInv'
    BY <1>1, NoPassType DEF StartInv, Live
<1>. QED
    BY <1>1, <1>2, <1>3, <1>6, <1>7, <1>8 DEF BaseInv

LEMMA StartRefusedEffect ==
    ASSUME BaseInv, StartRefused
    PROVE  /\ BaseInv' /\ mode = "replay" /\ mode' = "down" /\ pass' = NoPass
           /\ UNCHANGED <<callVars, rec, run, residue, drain, fileVars, netVars>>
<1>1. /\ mode = "replay" /\ mode' = "down" /\ pass' = NoPass
      /\ UNCHANGED <<callVars, rec, run, residue, drain, fileVars, netVars>>
    BY DEF StartRefused
<1>2. StartInv'
    BY <1>1, NoPassType DEF BaseInv, StartInv, Live, callVars
<1>3. BaseInv'
    BY <1>1, <1>2, NoPassType, AsideBase DEF BaseInv, EvTypeOK, Modes, fileVars, netVars
<1>. QED
    BY <1>1, <1>3

LEMMA GoneEffect ==
    ASSUME BaseInv, Gone, UNCHANGED <<run, outbox, netVars>>
    PROVE  /\ BaseInv' /\ mode' = "down" /\ pass' = NoPass /\ residue' = <<>> /\ rec' = NoRecorder /\ flushing' = NoOne /\ drain' = NoDrain
           /\ \A ch \in Changes : call'[ch] = "idle" /\ phase'[ch] = Interrupted(ch)
<1>1. /\ mode' = "down" /\ residue' = <<>> /\ rec' = NoRecorder /\ pass' = NoPass /\ flushing' = NoOne /\ drain' = NoDrain
      /\ call' = [ch \in Changes |-> "idle"] /\ claim' = [ch \in Changes |-> <<>>]
      /\ phase' = [ch \in Changes |-> Interrupted(ch)]
    BY DEF Gone
<1>3. PICK r : r = rec'
    OBVIOUS
<1>4. /\ r \in RecRecord /\ r.next = 1 /\ r.intents = {}
      /\ Tracks(r.ctx, r.order) /\ Cardinality(r.ctx) <= MaxTracked /\ r.ctx = {}
    BY <1>1, <1>3, NoRecorderFields
<1>5. <<>> \in Seq(SegRecord)
    OBVIOUS
<1>6. \A ch \in Changes : Interrupted(ch) \in Phases
    BY DEF Interrupted, BaseInv, EvTypeOK, Phases
<1>7. EvTypeOK'
    <2>1. phase' \in [Changes -> Phases] /\ call' \in [Changes -> {"idle", "flush", "spool"}]
        BY <1>1, <1>6
    <2>2. claim' \in [Changes -> Seq(SegRecord)] /\ residue' \in Seq(SegRecord)
        BY <1>1, <1>5
    <2>. QED
        BY <1>1, <1>3, <1>4, <2>1, <2>2, NoPassType DEF BaseInv, EvTypeOK, netVars, Modes
<1>8. HoldInv'
    <2>1. Tracks(rec.ctx, rec.order)'
        BY <1>3, <1>4 DEF Tracks
    <2>2. rec'.next > 0 /\ rec'.intents = {} /\ Cardinality(rec'.ctx) <= MaxTracked /\ rec'.ctx = {}
        BY <1>3, <1>4
    <2>3. /\ \A ch \in Changes : call'[ch] = "spool" <=> flushing' = ch
          /\ \A ch \in Changes : claim'[ch] # <<>> <=> call'[ch] = "spool"
        BY <1>1, NoOneAssumption
    <2>. QED
        BY <2>1, <2>2, <2>3 DEF HoldInv
<1>9. StartInv'
    BY <1>1, NoPassType DEF StartInv
<1>. QED
    BY <1>1, <1>7, <1>8, <1>9 DEF BaseInv

\* Steps that hand segments over and keep what the recorder tracks.
LEMMA HandOverBase ==
    ASSUME BaseInv, UNCHANGED <<callVars, run, passVars, outbox, netVars>>,
           mode \in {"stopping", "closing"}, mode' \in {"closing", "closed"}, residue' \in Seq(SegRecord),
           rec' \in RecRecord, rec'.next > 0, rec'.cur = 0 => rec'.intents = {},
           rec'.ctx = rec.ctx, rec'.order = rec.order
    PROVE  BaseInv'
<1>1. EvTypeOK'
    BY DEF BaseInv, EvTypeOK, callVars, passVars, netVars, Modes
<1>2. HoldInv'
    BY DEF BaseInv, HoldInv, Tracks, callVars
<1>3. StartInv'
    BY DEF BaseInv, StartInv, Live, callVars, passVars
<1>. QED
    BY <1>1, <1>2, <1>3 DEF BaseInv

LEMMA TakeClosedEffect ==
    ASSUME BaseInv, TakeClosed
    PROVE  /\ BaseInv' /\ mode = "stopping" /\ mode' = "closing" /\ residue' = rec.closed /\ rec'.closed = <<>>
           /\ rec'.prev = rec.prev /\ rec'.next = rec.next /\ rec'.intents = rec.intents
           /\ UNCHANGED <<callVars, run, passVars, fileVars, netVars>>
<1>1. /\ mode = "stopping" /\ mode' = "closing" /\ residue' = rec.closed /\ rec' = [rec EXCEPT !.closed = <<>>]
      /\ UNCHANGED <<callVars, run, passVars, fileVars, netVars>>
    BY DEF TakeClosed
<1>2. rec \in RecRecord /\ rec.closed \in Seq(SegRecord) /\ <<>> \in Seq(SegRecord)
    BY DEF BaseInv, EvTypeOK, RecRecord
<1>3. PICK r : r = rec'
    OBVIOUS
<1>4. r \in RecRecord
    BY <1>1, <1>2, <1>3, Zenon DEF RecRecord
<1>5. /\ r.closed = <<>> /\ r.prev = rec.prev /\ r.next = rec.next /\ r.intents = rec.intents
      /\ r.cur = rec.cur /\ r.ctx = rec.ctx /\ r.order = rec.order
    BY <1>1, <1>2, <1>3 DEF RecRecord
<1>6. r.next > 0 /\ (r.cur = 0 => r.intents = {})
    BY <1>5 DEF BaseInv, HoldInv
<1>7. BaseInv'
    BY <1>1, <1>2, <1>3, <1>4, <1>5, <1>6, HandOverBase DEF fileVars
<1>. QED
    BY <1>1, <1>3, <1>5, <1>7

LEMMA CloseCurrentEffect ==
    ASSUME BaseInv, CloseCurrent
    PROVE  /\ BaseInv' /\ mode = "closing" /\ mode' = "closed" /\ residue = <<>> /\ rec'.closed = rec.closed
           /\ UNCHANGED <<callVars, run, passVars, fileVars, netVars>>
           /\ \/ residue' = <<>> /\ rec' = rec
              \/ \E n \in SegRecord :
                    /\ residue' = <<n>> /\ rec'.prev = n.id /\ rec'.next = rec.next + 1
                    /\ n.id = <<run, rec.next - 1>> /\ n.prev = rec.prev
<1>1. /\ mode = "closing" /\ mode' = "closed" /\ residue = <<>> /\ residue' = RolledOff(rec) /\ rec' = Rolled(rec)
      /\ UNCHANGED <<callVars, run, passVars, fileVars, netVars>>
    BY DEF CloseCurrent
<1>2. rec \in RecRecord /\ run \in Nat /\ rec.next > 0 /\ (rec.cur = 0 => rec.intents = {}) /\ <<>> \in Seq(SegRecord) /\ rec.next \in Nat
    BY DEF BaseInv, EvTypeOK, HoldInv, RecRecord
<1>3. CASE rec.cur = 0
    <2>1. rec' = rec /\ residue' = <<>>
        BY <1>1, <1>3, EmptyRoll
    <2>2. BaseInv'
        BY <1>1, <1>2, <2>1, HandOverBase DEF fileVars
    <2>. QED
        BY <1>1, <2>1, <2>2
<1>4. CASE rec.cur # 0
    <2>1. PICK n \in SegRecord : n = Opened(rec) /\ n.id = <<run, rec.next - 1>> /\ n.prev = rec.prev
        BY <1>2, OpenedFields
    <2>2. PICK q \in RecRecord :
              /\ q = Rolled(rec) /\ RolledOff(rec) = <<n>> /\ q.ctx = rec.ctx /\ q.order = rec.order
              /\ q.cur = 0 /\ q.intents = {} /\ q.prev = n.id /\ q.next = rec.next + 1 /\ q.closed = rec.closed
        BY <1>2, <1>4, <2>1, RolledEffect
    <2>3. <<n>> \in Seq(SegRecord) /\ q.next > 0
        BY <1>2, <2>1, <2>2
    <2>4. BaseInv'
        BY <1>1, <2>2, <2>3, HandOverBase DEF fileVars
    <2>. QED
        BY <1>1, <2>1, <2>2, <2>4
<1>. QED
    BY <1>3, <1>4

LEMMA SpoolResidueEffect ==
    ASSUME BaseInv, SpoolResidue
    PROVE  /\ BaseInv' /\ mode \in {"closing", "closed"} /\ residue # <<>> /\ residue' = Tail(residue)
           /\ SpoolSucceeds(Head(residue)) \/ SpoolFails(Head(residue))
           /\ UNCHANGED <<callVars, rec, mode, run, passVars, netVars>>
<1>1. /\ mode \in {"closing", "closed"} /\ residue # <<>> /\ residue' = Tail(residue)
      /\ SpoolSucceeds(Head(residue)) \/ SpoolFails(Head(residue))
      /\ UNCHANGED <<callVars, rec, mode, run, passVars, netVars>>
    BY DEF SpoolResidue
<1>2. residue \in Seq(SegRecord) /\ outbox \in Seq(Lines)
    BY DEF BaseInv, EvTypeOK
<1>3. Head(residue) \in SegRecord /\ residue' \in Seq(SegRecord)
    BY <1>1, <1>2, TailIndex
<1>4. outbox' \in Seq(Lines)
    BY <1>1, <1>2, <1>3, SpoolEffect
<1>5. StartInv'
    BY <1>1 DEF BaseInv, StartInv, Live, callVars, passVars
<1>6. BaseInv'
    BY <1>1, <1>3, <1>4, <1>5, AsideBase DEF BaseInv, EvTypeOK, passVars, netVars
<1>. QED
    BY <1>1, <1>6

LEMMA ShutdownFlushEffect ==
    ASSUME BaseInv, ShutdownFlush
    PROVE  /\ BaseInv' /\ mode = "closed" /\ mode' = "flushing" /\ residue = <<>> /\ pass' = Loaded("flush")
           /\ UNCHANGED <<callVars, rec, run, residue, drain, fileVars, netVars>>
<1>1. /\ mode = "closed" /\ mode' = "flushing" /\ residue = <<>> /\ pass' = Loaded("flush")
      /\ UNCHANGED <<callVars, rec, run, residue, drain, fileVars, netVars>>
    BY DEF ShutdownFlush
<1>2. pass' \in PassRecord /\ pass'.by = "flush"
    BY <1>1, LoadedEffect
<1>3. StartInv'
    BY <1>1, <1>2 DEF StartInv, Live
<1>4. BaseInv'
    BY <1>1, <1>2, <1>3, AsideBase DEF BaseInv, EvTypeOK, Modes, fileVars, netVars
<1>. QED
    BY <1>1, <1>4

LEMMA SignalStopEffect ==
    ASSUME BaseInv, NEW how \in {"stopping", "dropping"}, SignalStop(how)
    PROVE  /\ BaseInv' /\ mode = "up" /\ mode' = how /\ (Quiesced => \A ch \in Changes : call[ch] = "idle")
           /\ UNCHANGED <<callVars, rec, run, residue, passVars, fileVars, netVars>>
<1>1. /\ mode = "up" /\ mode' = how /\ (Quiesced => \A ch \in Changes : call[ch] = "idle")
      /\ UNCHANGED <<callVars, rec, run, residue, passVars, fileVars, netVars>>
    BY DEF SignalStop
<1>2. StartInv'
    BY <1>1 DEF BaseInv, StartInv, Live, callVars, passVars
<1>3. BaseInv'
    BY <1>1, <1>2, AsideBase DEF BaseInv, EvTypeOK, Modes, passVars, fileVars, netVars
<1>. QED
    BY <1>1, <1>3

LEMMA RebuildEffect ==
    ASSUME BaseInv, Rebuild
    PROVE  /\ BaseInv' /\ mode = "down" /\ flying = {} /\ outbox' = <<>> /\ ledger' = {}
           /\ UNCHANGED <<callVars, rec, lifeVars, passVars, netVars>>
<1>1. /\ mode = "down" /\ flying = {} /\ outbox' = <<>> /\ ledger' = {}
      /\ UNCHANGED <<callVars, rec, lifeVars, passVars, netVars>>
    BY DEF Rebuild
<1>2. <<>> \in Seq(Lines)
    OBVIOUS
<1>3. StartInv'
    BY <1>1 DEF BaseInv, StartInv, Live, callVars, lifeVars, passVars
<1>4. BaseInv'
    BY <1>1, <1>2, <1>3, AsideBase DEF BaseInv, EvTypeOK, lifeVars, passVars, netVars
<1>. QED
    BY <1>1, <1>4

\* The three ends of a process leave the outbox as it is.
Leaves == Gone /\ UNCHANGED <<run, outbox, ledger, netVars>>

LEMMA LeavesEffect == Crash \/ Exit \/ Dropped => Leaves
BY DEF Crash, Exit, Dropped, Leaves, fileVars

LEMMA InitBase == Init => BaseInv
<1> SUFFICES ASSUME Init PROVE BaseInv
    OBVIOUS
<1>1. PICK e \in Entry : phase = e[1] /\ run = e[3]
    BY DEF Init
<1>2. phase \in [Changes -> {"new", "proposed", "approved", "rejected", "ended"}] /\ run \in 0..MaxRuns
    BY <1>1, EntryAssumption DEF EntryAssumption
<1>3. phase \in [Changes -> Phases]
    BY <1>2 DEF Phases
<1>4. run \in Nat
    BY <1>2, BoundsAssumption DEF BoundsAssumption
<1>5. /\ rec = NoRecorder /\ mode = "down" /\ residue = <<>> /\ pass = NoPass /\ flushing = NoOne
      /\ call = [ch \in Changes |-> "idle"] /\ claim = [ch \in Changes |-> <<>>]
      /\ outbox = <<>> /\ rows = <<>> /\ flying = {}
    BY DEF Init
<1>6. <<>> \in Seq(SegRecord) /\ <<>> \in Seq(Lines)
    OBVIOUS
<1>7. EvTypeOK
    BY <1>3, <1>4, <1>5, <1>6, NoPassType, NoRecorderFields DEF EvTypeOK, Modes
<1>8. HoldInv
    <2>1. rec.next = 1 /\ rec.intents = {} /\ rec.ctx = {} /\ rec.order = <<>> /\ Tracks({}, <<>>) /\ Cardinality({}) <= MaxTracked
        BY <1>5, NoRecorderFields
    <2>2. Tracks(rec.ctx, rec.order) /\ Cardinality(rec.ctx) <= MaxTracked
        BY <2>1
    <2>. QED
        BY <1>5, <2>1, <2>2, NoOneAssumption DEF HoldInv, NoOneAssumption
<1>9. StartInv
    BY <1>5, NoPassType DEF StartInv
<1>. QED
    BY <1>7, <1>8, <1>9 DEF BaseInv

LEMMA BaseStep == BaseInv /\ [Next]_vars => BaseInv'
<1> SUFFICES ASSUME BaseInv, [Next]_vars PROVE BaseInv'
    OBVIOUS
<1>1. CASE UNCHANGED vars
    <2>1. UNCHANGED <<callVars, rec, mode, run, residue, pass, outbox, rows, flying>>
        BY <1>1 DEF vars, lifeVars, passVars, fileVars, netVars
    <2>2. StartInv'
        BY <2>1 DEF BaseInv, StartInv, Live, callVars
    <2>. QED
        BY <2>1, <2>2, AsideBase DEF BaseInv, EvTypeOK
<1>2. ASSUME NEW ch \in Changes, Recorder(ch) \/ Flush(ch) PROVE BaseInv'
    BY <1>2, ProposalEffect, ApprovalEffect, ApplyIntentEffect, ResultReceiptEffect, FlushClaimEffect,
       FlushSpoolEffect, FlushRefusedEffect, Zenon DEF Recorder, Flush
<1>3. CASE Deliver
    BY <1>3, DeliverEffect, Zenon DEF Deliver
<1>4. CASE Drain
    BY <1>4, DrainEffect
<1>5. CASE Start
    BY <1>5, OpenSinkEffect, StartUpEffect, StartRefusedEffect, Zenon DEF Start
<1>6. ASSUME Crash \/ Exit \/ Dropped PROVE BaseInv'
    BY <1>6, LeavesEffect, GoneEffect DEF Leaves
<1>7. CASE Leave
    BY <1>6, <1>7, TakeClosedEffect, SpoolResidueEffect, CloseCurrentEffect, ShutdownFlushEffect, Zenon DEF Leave
<1>8. ASSUME NEW how \in {"stopping", "dropping"}, SignalStop(how) PROVE BaseInv'
    BY <1>8, SignalStopEffect, Zenon
<1>9. ASSUME NEW s \in flying, LateLanding(s) PROVE BaseInv'
    BY <1>9, LateLandingEffect, Zenon
<1>10. CASE Rebuild
    BY <1>10, RebuildEffect
<1>. QED
    BY <1>1, <1>2, <1>3, <1>4, <1>5, <1>6, <1>7, <1>8, <1>9, <1>10, Zenon DEF Next

\* The types, the flush mutex and the context map: for any number of callers at
\* most one flush holds segments, and the recorder never numbers one below zero.
THEOREM BaseAlways == Spec => []BaseInv
BY InitBase, BaseStep, PTL DEF Spec

\* RecorderState's context map and its eviction order never drift apart, never
\* outgrow MAX_TRACKED_CHANGES and never keep a change that ended, whatever calls
\* interleave and wherever the process dies.
THEOREM ContextStaysLive == Spec => []ContextIsLive
<1>1. BaseInv => ContextIsLive
    BY DEF BaseInv, HoldInv, Tracks, ContextIsLive, ToSet, Range
<1>. QED
    BY <1>1, BaseAlways, PTL

----------------------------------------------------------------------------
(* What a process leaves behind when every call is answered before it stops *)

LEMMA QuietFacts ==
    ASSUME BaseInv, QuietInv
    PROVE  /\ Serving => mode = "up"
           /\ (\A ch \in Changes : call[ch] = "idle") => flushing = NoOne
           /\ mode # "up" => flushing = NoOne
           /\ \A ch \in Changes : call[ch] # "idle" => mode = "up"
<1>1. (\A ch \in Changes : call[ch] = "idle") => flushing = NoOne
    BY DEF BaseInv, EvTypeOK, HoldInv
<1>. QED
    BY <1>1 DEF QuietInv, Serving

LEMMA InitQuiet == Quiesced /\ Init => QuietInv
<1> SUFFICES ASSUME Quiesced, Init PROVE QuietInv
    OBVIOUS
<1>1. /\ rec = NoRecorder /\ mode = "down" /\ residue = <<>> /\ pass = NoPass /\ drain = NoDrain
      /\ call = [ch \in Changes |-> "idle"]
    BY DEF Init
<1>2. drain.at = "none"
    BY <1>1 DEF NoDrain
<1>. QED
    BY <1>1, <1>2, NoPassType, NoRecorderFields DEF QuietInv

LEMMA QuietStep ==
    ASSUME BaseInv, QuietInv, Next
    PROVE  QuietInv'
<1>1. ASSUME mode = "up", mode' = "up", residue' = residue PROVE QuietInv'
    BY <1>1 DEF QuietInv, Live
<1>2. ASSUME NEW ch \in Changes, Recorder(ch) PROVE QuietInv'
    <2>1. Serving /\ UNCHANGED lifeVars
        BY <1>2, ProposalEffect, ApprovalEffect, ApplyIntentEffect, ResultReceiptEffect, Zenon DEF Recorder
    <2>. QED
        BY <1>1, <2>1, QuietFacts DEF lifeVars
<1>3. ASSUME NEW ch \in Changes, Flush(ch) PROVE QuietInv'
    <2>1. call[ch] \in {"flush", "spool"} /\ UNCHANGED lifeVars
        BY <1>3, FlushClaimEffect, FlushSpoolEffect, FlushRefusedEffect, Zenon DEF Flush
    <2>2. mode = "up"
        BY <2>1, QuietFacts
    <2>. QED
        BY <1>1, <2>1, <2>2 DEF lifeVars
<1>4. CASE Deliver
    <2>1. PICK s \in Turn : ReadMark(s) \/ SendSegment(s)
        BY <1>4 DEF Deliver
    <2>2. Attempted(s) /\ s \in pass.todo
        BY <2>1, DeliverEffect, TurnEffect
    <2>. QED
        BY <2>2 DEF Attempted, QuietInv, Live, callVars, lifeVars
<1>5. CASE Drain
    <2>1. drain.at = "wait" \/ pass.by = "drain"
        BY <1>5 DEF Drain, DrainWake, DrainPassed, PassOver
    <2>2. UNCHANGED <<callVars, rec, lifeVars>>
        BY <1>5, DrainEffect
    <2>. QED
        BY <2>1, <2>2 DEF QuietInv, Live, callVars, lifeVars
<1>6. CASE OpenSink
    <2>1. /\ mode = "down" /\ mode' = "replay" /\ pass' = Loaded("start")
          /\ UNCHANGED <<callVars, rec, run, stop, residue, drain, outbox, ledger, netVars>>
        BY <1>6, OpenSinkEffect
    <2>2. pass'.by = "start"
        BY <2>1, LoadedEffect
    <2>. QED
        BY <2>1, <2>2 DEF QuietInv, Live, callVars
<1>7. CASE StartUp
    <2>1. mode = "replay" /\ mode' = "up" /\ UNCHANGED <<callVars, residue>>
        BY <1>7, StartUpEffect
    <2>. QED
        BY <2>1 DEF QuietInv, Live
<1>8. CASE StartRefused
    <2>1. /\ mode = "replay" /\ mode' = "down" /\ pass' = NoPass
          /\ UNCHANGED <<callVars, rec, run, residue, drain>>
        BY <1>8, StartRefusedEffect
    <2>. QED
        BY <2>1, NoPassType DEF QuietInv, Live, callVars
<1>9. ASSUME Crash \/ Exit \/ Dropped PROVE QuietInv'
    <2>1. /\ mode' = "down" /\ pass' = NoPass /\ residue' = <<>> /\ rec' = NoRecorder /\ drain' = NoDrain
          /\ \A ch \in Changes : call'[ch] = "idle"
        BY <1>9, LeavesEffect, GoneEffect DEF Leaves
    <2>2. drain'.at = "none"
        BY <2>1 DEF NoDrain
    <2>. QED
        BY <2>1, <2>2, NoPassType, NoRecorderFields DEF QuietInv
<1>10. CASE TakeClosed
    <2>1. mode = "stopping" /\ mode' = "closing" /\ rec'.closed = <<>> /\ UNCHANGED callVars
        BY <1>10, TakeClosedEffect
    <2>. QED
        BY <2>1 DEF QuietInv, Live, callVars
<1>11. CASE SpoolResidue
    <2>1. mode \in {"closing", "closed"} /\ UNCHANGED <<callVars, rec, mode>>
        BY <1>11, SpoolResidueEffect
    <2>. QED
        BY <2>1 DEF QuietInv, Live, callVars
<1>12. CASE CloseCurrent
    <2>1. mode = "closing" /\ mode' = "closed" /\ rec'.closed = rec.closed /\ UNCHANGED callVars
        BY <1>12, CloseCurrentEffect
    <2>. QED
        BY <2>1 DEF QuietInv, Live, callVars
<1>13. CASE ShutdownFlush
    <2>1. mode = "closed" /\ mode' = "flushing" /\ residue = <<>> /\ UNCHANGED <<callVars, rec, residue>>
        BY <1>13, ShutdownFlushEffect
    <2>. QED
        BY <2>1 DEF QuietInv, Live, callVars
<1>14. ASSUME NEW how \in {"stopping", "dropping"}, SignalStop(how) PROVE QuietInv'
    <2>1. /\ mode = "up" /\ mode' = how /\ (Quiesced => \A ch \in Changes : call[ch] = "idle")
          /\ UNCHANGED <<callVars, rec, residue>>
        BY <1>14, SignalStopEffect
    <2>. QED
        BY <2>1 DEF QuietInv, Live, callVars
<1>15. ASSUME NEW s \in flying, LateLanding(s) PROVE QuietInv'
    BY <1>15 DEF LateLanding, QuietInv, Live, callVars, lifeVars, passVars
<1>16. CASE Rebuild
    BY <1>16 DEF Rebuild, QuietInv, Live, callVars, lifeVars, passVars
<1>. QED
    BY <1>2, <1>3, <1>4, <1>5, <1>6, <1>7, <1>8, <1>9, <1>10, <1>11, <1>12, <1>13, <1>14, <1>15, <1>16, Zenon
    DEF Next, Start, Leave

----------------------------------------------------------------------------
(* The steps, as the chain sees them *)

\* A pass goes on, is over, or is read from the outbox again.
Reload == pass'.todo \in {pass.todo, {}, {s \in Spooled : s.id \notin ledger}}

Idles ==
    /\ UNCHANGED <<outbox, Queue, run, rows, flying, rec.prev, rec.next>>
    /\ (Live' => Live) /\ (mode' = "up" => mode = "up")
    /\ Reload /\ ledger' \subseteq ledger

\* The open segment is closed and joins the queue.
Closes ==
    /\ \E n \in SegRecord :
          /\ Queue' = Append(Queue, n) /\ n.id = NextId /\ n.prev = rec.prev
          /\ rec'.prev = n.id /\ rec'.next = rec.next + 1
    /\ UNCHANGED <<outbox, run, rows, flying>>
    /\ Live /\ (mode' = "up" => mode = "up")
    /\ Reload /\ ledger' \subseteq ledger

\* The head of the queue goes to the disk; while the server is up it leaves the
\* queue only when it was written.
Writes ==
    /\ Queue # <<>> /\ Live
    /\ UNCHANGED <<mode, run, rows, flying, rec.prev, rec.next>>
    /\ Queue' \in {Queue, Tail(Queue)}
    /\ outbox' \in {outbox, Write(outbox, Head(Queue)), Write(outbox, Torn)}
    /\ mode = "up" => Queue' = Queue \/ outbox' = Write(outbox, Head(Queue))
    /\ pass'.todo = pass.todo /\ ledger' \subseteq ledger

\* A segment reaches the receiver, or may reach it later.
Lands ==
    /\ UNCHANGED <<mode, outbox, Queue, run, rec.prev, rec.next>>
    /\ \E s \in Spooled : rows' \in {rows, Inserted(s)} /\ flying' \subseteq flying \cup {s}
    /\ pass'.todo \subseteq pass.todo

Ends ==
    /\ Queue' = <<>> /\ ~Live'
    /\ UNCHANGED <<outbox, run, rows, flying>>
    /\ pass'.todo = {} /\ ledger' \subseteq ledger

LEMMA QueueParts ==
    ASSUME BaseInv
    PROVE  /\ Claimed \in Seq(SegRecord) /\ rec.closed \in Seq(SegRecord) /\ residue \in Seq(SegRecord)
           /\ Queue \in Seq(SegRecord)
<1>1. Claimed \in Seq(SegRecord) /\ rec.closed \in Seq(SegRecord) /\ residue \in Seq(SegRecord)
    BY DEF BaseInv, EvTypeOK, RecRecord, Claimed
<1>2. Claimed \o residue \in Seq(SegRecord)
    BY <1>1, ConcatIndex
<1>3. (Claimed \o residue) \o rec.closed \in Seq(SegRecord)
    BY <1>1, <1>2, ConcatIndex
<1>. QED
    BY <1>1, <1>3 DEF Queue

LEMMA QueueForms ==
    ASSUME NEW X \in Seq(SegRecord), NEW Y \in Seq(SegRecord)
    PROVE  /\ X \o <<>> \o Y = X \o Y
           /\ <<>> \o <<>> \o Y = Y
           /\ X \o <<>> \o <<>> = X
           /\ <<>> \o X \o <<>> = X
           /\ <<>> \o X = X
           /\ \A n \in SegRecord : X \o Append(Y, n) = Append(X \o Y, n)
<1>1. X \o <<>> = X /\ <<>> \o X = X /\ <<>> \o Y = Y
    BY ConcatEmptySeq
<1>2. ASSUME NEW n \in SegRecord PROVE X \o Append(Y, n) = Append(X \o Y, n)
    <2>1. Append(Y, n) = Y \o <<n>> /\ <<n>> \in Seq(SegRecord) /\ X \o Y \in Seq(SegRecord)
        BY AppendIndex, ConcatIndex
    <2>2. Append(X \o Y, n) = (X \o Y) \o <<n>>
        BY <2>1, AppendIndex
    <2>3. (X \o Y) \o <<n>> = X \o (Y \o <<n>>)
        BY <2>1, ConcatAssociative
    <2>. QED
        BY <2>1, <2>2, <2>3
<1>3. <<>> \o <<>> = <<>>
    BY ConcatEmptySeq
<1>. QED
    BY <1>1, <1>2, <1>3

LEMMA ReloadFacts == (pass' = pass \/ pass' = NoPass) => Reload
BY NoPassType DEF Reload

LEMMA ReloadLoaded ==
    ASSUME BaseInv, NEW who \in {"start", "drain", "flush"}, pass' = Loaded(who)
    PROVE  Reload
BY LoadedEffect DEF Reload

LEMMA RecorderShape ==
    ASSUME BaseInv, QuietInv, NEW ch \in Changes, Recorder(ch)
    PROVE  mode = "up" /\ mode' = "up" /\ (Idles \/ Closes)
<1>1. /\ \E I : Extended(rec, rec', I)
      /\ Serving /\ UNCHANGED <<claim, flushing, lifeVars, passVars, fileVars, netVars>>
    BY ProposalEffect, ApprovalEffect, ApplyIntentEffect, ResultReceiptEffect, Zenon DEF Recorder
<1>2. mode = "up" /\ Live /\ mode' = "up" /\ residue = <<>>
    BY <1>1, QuietFacts DEF Live, lifeVars, QuietInv
<1>3. PICK a : a = rec'
    OBVIOUS
<1>4. Queue = Claimed \o rec.closed
    BY <1>2, QueueParts, QueueForms DEF Queue
<1>5. Claimed' = Claimed /\ residue' = <<>>
    BY <1>1, <1>2 DEF Claimed, lifeVars
<1>6. a \in RecRecord
    BY <1>1, <1>3 DEF Extended
<1>7. Queue' = Claimed \o a.closed
    <2>1. a.closed \in Seq(SegRecord)
        BY <1>6 DEF RecRecord
    <2>2. Queue' = Claimed \o <<>> \o a.closed
        BY <1>3, <1>5 DEF Queue
    <2>. QED
        BY <2>1, <2>2, QueueParts, QueueForms
<1>8. Reload /\ ledger' = ledger /\ UNCHANGED <<outbox, run, rows, flying>>
    BY <1>1, ReloadFacts DEF lifeVars, passVars, fileVars, netVars
<1>9. CASE a.closed = rec.closed /\ a.prev = rec.prev /\ a.next = rec.next
    <2>1. Idles
        BY <1>2, <1>3, <1>4, <1>7, <1>8, <1>9 DEF Idles, Live
    <2>. QED
        BY <1>2, <2>1
<1>10. ASSUME NEW n \in SegRecord, a.closed = Append(rec.closed, n), a.prev = n.id, a.next = rec.next + 1,
              n.id = <<run, rec.next - 1>>, n.prev = rec.prev
       PROVE  Closes
    <2>1. Queue' = Append(Queue, n)
        BY <1>4, <1>7, <1>10, QueueParts, QueueForms
    <2>. QED
        BY <1>2, <1>3, <1>8, <1>10, <2>1 DEF Closes, NextId
<1>. QED
    BY <1>1, <1>2, <1>3, <1>9, <1>10 DEF Extended

LEMMA FlushClaimShape ==
    ASSUME BaseInv, QuietInv, NEW ch \in Changes, FlushClaim(ch)
    PROVE  mode = "up" /\ mode' = "up" /\ (Idles \/ Closes)
<1>1. /\ call[ch] = "flush" /\ flushing = NoOne /\ UNCHANGED <<lifeVars, passVars, fileVars, netVars>>
      /\ \E X \in Seq(SegRecord) : Taken(rec, rec', X) /\ Answers(ch, TRUE, X)
    BY FlushClaimEffect
<1>2. PICK X \in Seq(SegRecord) : Taken(rec, rec', X) /\ Answers(ch, TRUE, X)
    BY <1>1
<1>3. mode = "up" /\ Live /\ mode' = "up" /\ residue = <<>> /\ residue' = <<>>
    BY <1>1, QuietFacts DEF Live, lifeVars, QuietInv
<1>4. PICK a : a = rec'
    OBVIOUS
<1>5. Queue = rec.closed
    <2>1. Claimed = <<>>
        BY <1>1 DEF Claimed
    <2>. QED
        BY <1>3, <2>1, QueueParts, QueueForms DEF Queue
<1>6. Claimed' = X
    <2>1. CASE X = <<>>
        BY <1>2, <2>1 DEF Answers, Returns, Claimed
    <2>2. CASE X # <<>>
        <3>1. flushing' = ch /\ claim' = [claim EXCEPT ![ch] = X] /\ ch # NoOne /\ claim \in [Changes -> Seq(SegRecord)]
            BY <1>2, <2>2, NoOneAssumption DEF Answers, BaseInv, EvTypeOK, NoOneAssumption
        <3>2. claim'[ch] = X
            BY <3>1
        <3>. QED
            BY <3>1, <3>2 DEF Claimed
    <2>. QED
        BY <2>1, <2>2
<1>7. Queue' = X
    <2>1. Queue' = X \o <<>> \o <<>>
        BY <1>2, <1>3, <1>6 DEF Queue, Taken
    <2>. QED
        BY <2>1, QueueForms
<1>8. Reload /\ ledger' = ledger /\ UNCHANGED <<outbox, run, rows, flying>>
    BY <1>1, ReloadFacts DEF lifeVars, passVars, fileVars, netVars
<1>9. CASE X = rec.closed /\ a.prev = rec.prev /\ a.next = rec.next
    <2>1. Idles
        BY <1>3, <1>4, <1>5, <1>7, <1>8, <1>9 DEF Idles, Live
    <2>. QED
        BY <1>3, <2>1
<1>10. ASSUME NEW n \in SegRecord, X = Append(rec.closed, n), a.prev = n.id, a.next = rec.next + 1,
              n.id = <<run, rec.next - 1>>, n.prev = rec.prev
       PROVE  Closes
    BY <1>3, <1>4, <1>5, <1>7, <1>8, <1>10 DEF Closes, NextId
<1>. QED
    BY <1>2, <1>3, <1>4, <1>9, <1>10 DEF Taken

LEMMA FlushSpoolShape ==
    ASSUME BaseInv, QuietInv, NEW ch \in Changes, FlushSpool(ch)
    PROVE  /\ mode = "up" /\ mode' = "up" /\ Writes
           /\ outbox' = Write(outbox, Head(Queue)) /\ Head(Queue) = Head(claim[ch])
<1>1. /\ call[ch] = "spool" /\ SpoolSucceeds(Head(claim[ch])) /\ UNCHANGED <<rec, lifeVars, passVars, netVars>>
      /\ Answers(ch, TRUE, Tail(claim[ch]))
    BY FlushSpoolEffect
<1>2. flushing = ch /\ claim[ch] \in Seq(SegRecord) /\ claim[ch] # <<>> /\ Claimed = claim[ch]
    BY <1>1, Spooling
<1>3. mode = "up" /\ Live /\ mode' = "up" /\ residue = <<>> /\ residue' = <<>>
    BY <1>1, QuietFacts DEF Live, lifeVars, QuietInv
<1>4. PICK X \in Seq(SegRecord) : X = Tail(claim[ch])
    BY <1>2, TailIndex
<1>5. Queue = claim[ch] \o rec.closed /\ rec.closed \in Seq(SegRecord)
    BY <1>2, <1>3, QueueParts, QueueForms DEF Queue
<1>6. Queue # <<>> /\ Head(Queue) = Head(claim[ch]) /\ Tail(Queue) = X \o rec.closed
    BY <1>2, <1>4, <1>5, ConcatHead
<1>7. Claimed' = X
    <2>1. CASE X = <<>>
        BY <1>1, <1>4, <2>1 DEF Answers, Returns, Claimed
    <2>2. CASE X # <<>>
        <3>1. flushing' = ch /\ claim' = [claim EXCEPT ![ch] = X] /\ ch # NoOne /\ claim \in [Changes -> Seq(SegRecord)]
            BY <1>1, <1>4, <2>2, NoOneAssumption DEF Answers, BaseInv, EvTypeOK, NoOneAssumption
        <3>2. claim'[ch] = X
            BY <3>1
        <3>. QED
            BY <3>1, <3>2 DEF Claimed
    <2>. QED
        BY <2>1, <2>2
<1>8. Queue' = Tail(Queue)
    <2>1. Queue' = X \o <<>> \o rec.closed
        BY <1>1, <1>3, <1>7 DEF Queue
    <2>. QED
        BY <1>5, <1>6, <2>1, QueueForms
<1>9. outbox' = Write(outbox, Head(Queue)) /\ ledger' \subseteq ledger
    BY <1>1, <1>6 DEF SpoolSucceeds, MarkOk, MarkFails
<1>10. UNCHANGED <<mode, run, rows, flying, rec.prev, rec.next>> /\ pass'.todo = pass.todo
    BY <1>1 DEF lifeVars, passVars, netVars
<1>. QED
    BY <1>3, <1>6, <1>8, <1>9, <1>10 DEF Writes

LEMMA FlushRefusedShape ==
    ASSUME BaseInv, QuietInv, NEW ch \in Changes, FlushRefused(ch)
    PROVE  /\ mode = "up" /\ mode' = "up" /\ Writes /\ Queue' = Queue
           /\ "outbox" \notin TornFiles => outbox' \in {outbox, Write(outbox, Head(Queue))}
<1>1. /\ call[ch] = "spool" /\ SpoolFails(Head(claim[ch])) /\ rec'.closed = claim[ch] \o rec.closed
      /\ rec'.prev = rec.prev /\ rec'.next = rec.next /\ UNCHANGED <<lifeVars, passVars, netVars>>
      /\ Answers(ch, FALSE, <<>>)
    BY FlushRefusedEffect
<1>2. flushing = ch /\ claim[ch] \in Seq(SegRecord) /\ claim[ch] # <<>> /\ Claimed = claim[ch]
    BY <1>1, Spooling
<1>3. mode = "up" /\ Live /\ mode' = "up" /\ residue = <<>> /\ residue' = <<>>
    BY <1>1, QuietFacts DEF Live, lifeVars, QuietInv
<1>4. Queue = claim[ch] \o rec.closed /\ rec.closed \in Seq(SegRecord)
    BY <1>2, <1>3, QueueParts, QueueForms DEF Queue
<1>5. Queue # <<>> /\ Head(Queue) = Head(claim[ch])
    BY <1>2, <1>4, ConcatHead
<1>6. Queue' = Queue
    <2>1. Claimed' = <<>>
        BY <1>1 DEF Answers, Returns, Claimed
    <2>2. PICK X \in Seq(SegRecord) : X = claim[ch] \o rec.closed
        BY <1>2, <1>4, ConcatIndex
    <2>3. Queue' = <<>> \o <<>> \o X
        BY <1>1, <1>3, <2>1, <2>2 DEF Queue
    <2>. QED
        BY <1>4, <2>2, <2>3, QueueForms
<1>7. /\ outbox' \in {outbox, Write(outbox, Head(Queue)), Write(outbox, Torn)} /\ ledger' \subseteq ledger
      /\ "outbox" \notin TornFiles => outbox' \in {outbox, Write(outbox, Head(Queue))}
    BY <1>1, <1>5 DEF SpoolFails
<1>8. UNCHANGED <<mode, run, rows, flying, rec.prev, rec.next>> /\ pass'.todo = pass.todo
    BY <1>1 DEF lifeVars, passVars, netVars
<1>. QED
    BY <1>3, <1>5, <1>6, <1>7, <1>8 DEF Writes

LEMMA QueueStays ==
    ASSUME UNCHANGED <<callVars, rec, residue>>
    PROVE  UNCHANGED <<Queue, rec.prev, rec.next>>
BY DEF Queue, Claimed, callVars

\* With no call under way nothing is claimed.
LEMMA QueueAtRest ==
    ASSUME BaseInv, QuietInv, mode # "up"
    PROVE  Claimed = <<>> /\ Queue = <<>> \o residue \o rec.closed
<1>1. Claimed = <<>>
    BY QuietFacts DEF Claimed
<1>. QED
    BY <1>1 DEF Queue

LEMMA DeliverShape ==
    ASSUME BaseInv, OrderInv, Deliver
    PROVE  \E s \in Turn : s \in Spooled /\ Attempted(s) /\ Lands
<1>1. PICK s \in Turn : ReadMark(s) \/ SendSegment(s)
    BY DEF Deliver
<1>2. Attempted(s) /\ s \in pass.todo
    BY <1>1, DeliverEffect, TurnEffect
<1>3. s \in Spooled
    BY <1>2 DEF OrderInv
<1>4. UNCHANGED <<mode, outbox, run, Queue, rec.prev, rec.next>>
    BY <1>2, QueueStays DEF Attempted, lifeVars
<1>5. pass'.todo \subseteq pass.todo
    BY <1>2 DEF Attempted
<1>6. rows' \in {rows, Inserted(s)} /\ flying' \subseteq flying \cup {s}
    BY <1>2 DEF Attempted
<1>. QED
    BY <1>1, <1>2, <1>3, <1>4, <1>5, <1>6 DEF Lands

LEMMA LateShape ==
    ASSUME OrderInv, NEW s \in flying, LateLanding(s)
    PROVE  Lands /\ s \in Spooled
<1>1. /\ UNCHANGED <<callVars, rec, lifeVars, passVars, fileVars>>
      /\ rows' = Inserted(s) /\ flying' = flying \ {s}
    BY DEF LateLanding
<1>2. UNCHANGED <<mode, outbox, run, pass, Queue, rec.prev, rec.next>>
    BY <1>1, QueueStays DEF lifeVars, passVars, fileVars
<1>3. s \in Spooled
    BY DEF OrderInv
<1>. QED
    BY <1>1, <1>2, <1>3 DEF Lands

LEMMA RestIdles ==
    ASSUME BaseInv, QuietInv,
           \/ Drain \/ OpenSink \/ StartRefused \/ ShutdownFlush
           \/ \E how \in {"stopping", "dropping"} : SignalStop(how)
    PROVE  Idles
<1>1. CASE Drain
    <2>1. /\ UNCHANGED <<callVars, rec, lifeVars, fileVars, netVars>>
          /\ pass' = pass \/ pass' = Loaded("drain") \/ pass' = NoPass
        BY <1>1, DrainEffect
    <2>2. Reload
        BY <2>1, ReloadFacts, ReloadLoaded
    <2>3. UNCHANGED <<mode, outbox, ledger, run, rows, flying, Queue, rec.prev, rec.next>>
        BY <2>1, QueueStays DEF lifeVars, fileVars, netVars
    <2>. QED
        BY <2>2, <2>3 DEF Idles, Live
<1>2. CASE OpenSink
    <2>1. /\ mode = "down" /\ mode' = "replay" /\ pass' = Loaded("start")
          /\ UNCHANGED <<callVars, rec, run, stop, residue, drain, outbox, ledger, netVars>>
        BY <1>2, OpenSinkEffect
    <2>2. Reload
        BY <2>1, ReloadLoaded
    <2>3. UNCHANGED <<outbox, ledger, run, rows, flying, Queue, rec.prev, rec.next>>
        BY <2>1, QueueStays DEF netVars
    <2>. QED
        BY <2>1, <2>2, <2>3 DEF Idles, Live
<1>3. CASE StartRefused
    <2>1. /\ mode = "replay" /\ mode' = "down" /\ pass' = NoPass
          /\ UNCHANGED <<callVars, rec, run, residue, drain, fileVars, netVars>>
        BY <1>3, StartRefusedEffect
    <2>2. Reload
        BY <2>1, ReloadFacts
    <2>3. UNCHANGED <<outbox, ledger, run, rows, flying, Queue, rec.prev, rec.next>>
        BY <2>1, QueueStays DEF fileVars, netVars
    <2>. QED
        BY <2>1, <2>2, <2>3 DEF Idles, Live
<1>4. CASE ShutdownFlush
    <2>1. /\ mode = "closed" /\ mode' = "flushing" /\ pass' = Loaded("flush")
          /\ UNCHANGED <<callVars, rec, run, residue, drain, fileVars, netVars>>
        BY <1>4, ShutdownFlushEffect
    <2>2. Reload
        BY <2>1, ReloadLoaded
    <2>3. UNCHANGED <<outbox, ledger, run, rows, flying, Queue, rec.prev, rec.next>>
        BY <2>1, QueueStays DEF fileVars, netVars
    <2>. QED
        BY <2>1, <2>2, <2>3 DEF Idles, Live
<1>5. ASSUME NEW how \in {"stopping", "dropping"}, SignalStop(how) PROVE Idles
    <2>1. /\ mode = "up" /\ mode' = how /\ UNCHANGED <<callVars, rec, run, residue, passVars, fileVars, netVars>>
        BY <1>5, SignalStopEffect
    <2>2. Reload
        BY <2>1, ReloadFacts DEF passVars
    <2>3. UNCHANGED <<outbox, ledger, run, rows, flying, Queue, rec.prev, rec.next>>
        BY <2>1, QueueStays DEF fileVars, netVars
    <2>. QED
        BY <2>1, <2>2, <2>3 DEF Idles, Live
<1>. QED
    BY <1>1, <1>2, <1>3, <1>4, <1>5

LEMMA TakeClosedShape ==
    ASSUME BaseInv, QuietInv, TakeClosed
    PROVE  Idles
<1>1. /\ mode = "stopping" /\ mode' = "closing" /\ residue' = rec.closed /\ rec'.closed = <<>>
      /\ rec'.prev = rec.prev /\ rec'.next = rec.next
      /\ UNCHANGED <<callVars, run, passVars, fileVars, netVars>>
    BY TakeClosedEffect
<1>2. Claimed = <<>> /\ Queue = <<>> \o residue \o rec.closed /\ residue = <<>>
    BY <1>1, QueueAtRest DEF QuietInv
<1>3. Claimed' = <<>>
    BY <1>1, <1>2 DEF Claimed, callVars
<1>4. Queue' = <<>> \o rec.closed \o <<>>
    BY <1>1, <1>3 DEF Queue
<1>5. Queue' = Queue
    BY <1>2, <1>4, QueueParts, QueueForms
<1>6. Reload /\ UNCHANGED <<outbox, ledger, run, rows, flying>>
    BY <1>1, ReloadFacts DEF passVars, fileVars, netVars
<1>. QED
    BY <1>1, <1>5, <1>6 DEF Idles, Live

LEMMA CloseCurrentShape ==
    ASSUME BaseInv, QuietInv, CloseCurrent
    PROVE  Idles \/ Closes
<1>1. /\ mode = "closing" /\ mode' = "closed" /\ residue = <<>> /\ rec'.closed = rec.closed
      /\ UNCHANGED <<callVars, run, passVars, fileVars, netVars>>
      /\ \/ residue' = <<>> /\ rec' = rec
         \/ \E n \in SegRecord :
               /\ residue' = <<n>> /\ rec'.prev = n.id /\ rec'.next = rec.next + 1
               /\ n.id = <<run, rec.next - 1>> /\ n.prev = rec.prev
    BY CloseCurrentEffect
<1>2. Claimed = <<>> /\ Queue = <<>> \o residue \o rec.closed /\ rec.closed = <<>>
    BY <1>1, QueueAtRest DEF QuietInv
<1>3. Claimed' = <<>>
    BY <1>1, <1>2 DEF Claimed, callVars
<1>4. Queue' = <<>> \o residue' \o <<>>
    BY <1>1, <1>2, <1>3 DEF Queue
<1>5. Queue = <<>>
    BY <1>1, <1>2, QueueParts, QueueForms
<1>6. Reload /\ UNCHANGED <<outbox, ledger, run, rows, flying>>
    BY <1>1, ReloadFacts DEF passVars, fileVars, netVars
<1>7. CASE residue' = <<>> /\ rec' = rec
    <2>1. Queue' = Queue
        BY <1>4, <1>5, <1>7, QueueParts, QueueForms
    <2>. QED
        BY <1>1, <1>6, <1>7, <2>1 DEF Idles, Live
<1>8. ASSUME NEW n \in SegRecord, residue' = <<n>>, rec'.prev = n.id, rec'.next = rec.next + 1,
             n.id = <<run, rec.next - 1>>, n.prev = rec.prev
      PROVE  Closes
    <2>1. <<n>> \in Seq(SegRecord) /\ Append(<<>>, n) = <<n>>
        OBVIOUS
    <2>2. Queue' = Append(Queue, n)
        BY <1>4, <1>5, <1>8, <2>1, QueueForms
    <2>. QED
        BY <1>1, <1>6, <1>8, <2>2 DEF Closes, NextId, Live
<1>. QED
    BY <1>1, <1>7, <1>8

LEMMA SpoolResidueShape ==
    ASSUME BaseInv, QuietInv, SpoolResidue
    PROVE  /\ Writes
           /\ "outbox" \notin TornFiles => outbox' \in {outbox, Write(outbox, Head(Queue))}
<1>1. /\ mode \in {"closing", "closed"} /\ residue # <<>> /\ residue' = Tail(residue)
      /\ SpoolSucceeds(Head(residue)) \/ SpoolFails(Head(residue))
      /\ UNCHANGED <<callVars, rec, mode, run, passVars, netVars>>
    BY SpoolResidueEffect
<1>2. Claimed = <<>> /\ Queue = <<>> \o residue \o rec.closed /\ rec.closed = <<>> /\ Live
    BY <1>1, QueueAtRest DEF QuietInv, Live
<1>3. Claimed' = <<>>
    BY <1>1, <1>2 DEF Claimed, callVars
<1>4. Queue' = <<>> \o Tail(residue) \o <<>>
    BY <1>1, <1>2, <1>3 DEF Queue
<1>5. residue \in Seq(SegRecord) /\ Tail(residue) \in Seq(SegRecord) /\ Head(residue) \in SegRecord
    BY <1>1, QueueParts, TailIndex
<1>6. Queue = residue /\ Queue' = Tail(Queue)
    BY <1>2, <1>4, <1>5, QueueForms
<1>7. /\ ledger' \subseteq ledger /\ outbox' \in {outbox, Write(outbox, Head(Queue)), Write(outbox, Torn)}
      /\ "outbox" \notin TornFiles => outbox' \in {outbox, Write(outbox, Head(Queue))}
    BY <1>1, <1>5, <1>6, SpoolEffect DEF BaseInv, EvTypeOK
<1>8. UNCHANGED <<mode, run, rows, flying, rec.prev, rec.next>> /\ pass'.todo = pass.todo
    BY <1>1 DEF passVars, netVars
<1>. QED
    BY <1>1, <1>2, <1>6, <1>7, <1>8 DEF Writes

LEMMA LeavesShape ==
    ASSUME BaseInv, Crash \/ Exit \/ Dropped
    PROVE  Ends
<1>1. Gone /\ UNCHANGED <<run, outbox, ledger, netVars>>
    BY LeavesEffect DEF Leaves
<1>2. mode' = "down" /\ pass' = NoPass /\ residue' = <<>> /\ rec' = NoRecorder /\ flushing' = NoOne
    BY <1>1, GoneEffect
<1>3. Queue' = <<>> \o <<>> \o <<>>
    BY <1>2, NoRecorderFields DEF Queue, Claimed
<1>4. <<>> \in Seq(SegRecord)
    OBVIOUS
<1>5. Queue' = <<>>
    BY <1>3, <1>4, QueueForms
<1>. QED
    BY <1>1, <1>2, <1>5, NoPassType DEF Ends, Live, netVars

LEMMA StepKinds ==
    ASSUME BaseInv, QuietInv, Next
    PROVE  \/ Idles \/ Closes \/ Writes \/ Ends \/ StartUp \/ Rebuild
           \/ Deliver \/ \E s \in flying : LateLanding(s)
BY RecorderShape, FlushClaimShape, FlushSpoolShape, FlushRefusedShape, RestIdles,
   TakeClosedShape, CloseCurrentShape, SpoolResidueShape, LeavesShape, Zenon
DEF Next, Flush, Start, Leave

LEMMA StepShape ==
    ASSUME BaseInv, QuietInv, OrderInv, Next
    PROVE  Idles \/ Closes \/ Writes \/ Lands \/ Ends \/ StartUp \/ Rebuild
BY StepKinds, DeliverShape, LateShape, Zenon

----------------------------------------------------------------------------
(* The links: no two segments continue the same one *)

LEMMA BeforeOrder ==
    /\ \A x \in Ids : ~Before(x, x)
    /\ \A x, y, z \in Ids : Before(x, y) /\ Before(y, z) => Before(x, z)
    /\ \A x, y \in Ids : x = y \/ Before(x, y) \/ Before(y, x)
BY DEF Ids, Before

LEMMA KnownType ==
    ASSUME BaseInv
    PROVE  /\ Known \subseteq SegRecord /\ Spooled \subseteq SegRecord /\ Spooled \subseteq Known
           /\ Range(Queue) \subseteq Known /\ Range(rows) \subseteq Known
           /\ \A s \in Known : s.id \in Ids /\ s.prev \in Heads
           /\ NextId \in Ids /\ run \in Nat /\ rec.next \in Nat /\ rec.prev \in Heads
<1>1. outbox \in Seq(Lines) /\ rows \in Seq(SegRecord) /\ Queue \in Seq(SegRecord)
    BY QueueParts DEF BaseInv, EvTypeOK
<1>2. Spooled \subseteq SegRecord
    BY <1>1, SegsType, SpooledIsSegs
<1>3. Range(rows) \subseteq SegRecord /\ Range(Queue) \subseteq SegRecord
    BY <1>1, RangeIndex, Zenon
<1>4. Known \subseteq SegRecord
    BY <1>2, <1>3 DEF Known
<1>5. run \in Nat /\ rec \in RecRecord /\ rec.next > 0
    BY DEF BaseInv, EvTypeOK, HoldInv
<1>6. NextId \in Ids
    BY <1>5, OpenedFields DEF NextId
<1>7. rec.next \in Nat /\ rec.prev \in Heads
    BY <1>5 DEF RecRecord
<1>. QED
    BY <1>2, <1>4, <1>5, <1>6, <1>7, Kinds DEF Known

LEMMA LinkShrinks ==
    ASSUME LinkInv, Known' \subseteq Known, run' = run,
           Live' => Live /\ UNCHANGED <<rec.prev, rec.next>>
    PROVE  LinkInv'
BY DEF LinkInv, NextId

LEMMA LinkGrows ==
    ASSUME BaseInv, LinkInv, Live, NEW n \in SegRecord, n.id = NextId, n.prev = rec.prev,
           rec'.prev = n.id, rec'.next = rec.next + 1, run' = run, Known' \subseteq Known \cup {n}
    PROVE  LinkInv'
<1>1. /\ NextId \in Ids /\ run \in Nat /\ rec.next \in Nat /\ \A s \in Known : s.id \in Ids /\ s.prev \in Heads
      /\ rec.prev \in Heads
    BY KnownType
<1>2. NextId = <<run, rec.next - 1>> /\ NextId' = <<run, rec.next>>
    <2>1. rec'.next - 1 = rec.next
        BY <1>1
    <2>2. NextId' = <<run', rec'.next - 1>>
        BY DEF NextId
    <2>3. NextId = <<run, rec.next - 1>>
        BY DEF NextId
    <2>. QED
        BY <2>1, <2>2, <2>3
<1>3. NextId' \in Ids /\ Before(NextId, NextId')
    BY <1>1, <1>2 DEF Ids, Before
<1>4. /\ \A s \in Known : Before(s.id, NextId)
      /\ rec.prev = Root \/ Before(rec.prev, NextId)
      /\ \A s \in Known : s.prev # rec.prev
      /\ \A s \in Known : s.prev = Root \/ Before(s.prev, s.id)
      /\ \A s \in Known : s.id[1] <= run
      /\ \A s, t \in Known : s.id = t.id \/ s.prev = t.prev => s = t
    BY DEF LinkInv
<1>5. \A s \in Known : s.id # NextId
    BY <1>1, <1>4, BeforeOrder
<1>6. \A s \in Known \cup {n} : Before(s.id, NextId')
    <2>1. \A s \in Known : Before(s.id, NextId')
        BY <1>1, <1>3, <1>4, BeforeOrder
    <2>. QED
        BY <1>3, <2>1
<1>7. \A s \in Known \cup {n} : s.prev # NextId
    <2>1. \A x \in Heads : x = Root \/ x \in Ids
        BY DEF Heads
    <2>2. \A s \in Known : s.prev # NextId
        BY <1>1, <1>4, <2>1, BeforeOrder, RootIsNoId
    <2>3. rec.prev # NextId
        BY <1>1, <1>4, <2>1, BeforeOrder, RootIsNoId
    <2>. QED
        BY <2>2, <2>3
<1>8. \A s, t \in Known \cup {n} : s.id = t.id \/ s.prev = t.prev => s = t
    BY <1>4, <1>5
<1>9. NextId[1] = run
    BY <1>2
<1>10. \A s \in Known \cup {n} : (s.prev = Root \/ Before(s.prev, s.id)) /\ s.id[1] <= run
    BY <1>1, <1>4, <1>9
<1>. QED
    BY <1>3, <1>6, <1>7, <1>8, <1>10 DEF LinkInv

LEMMA WritesEffect ==
    ASSUME BaseInv, Writes
    PROVE  /\ Head(Queue) \in SegRecord /\ Head(Queue) \in Range(Queue)
           /\ Spooled \subseteq Spooled' /\ Spooled' \subseteq Spooled \cup {Head(Queue)}
           /\ Range(Queue') \subseteq Range(Queue)
           /\ \/ outbox' = outbox
              \/ Last(outbox').line # "segment" /\ ~Loadable(outbox')
              \/ outbox' = Append(outbox, Head(Queue)) /\ Last(outbox') = Head(Queue)
<1>1. Queue \in Seq(SegRecord) /\ Queue # <<>> /\ outbox \in Seq(Lines)
    BY QueueParts DEF Writes, BaseInv, EvTypeOK
<1>2. PICK h : h = Head(Queue)
    OBVIOUS
<1>3. h \in SegRecord /\ Range(Queue) = {h} \cup Range(Tail(Queue))
    BY <1>1, <1>2, TailIndex, RangeTail
<1>4. Range(Queue') \subseteq Range(Queue)
    BY <1>3 DEF Writes
<1>5. h \in Lines /\ Torn \in Lines /\ Torn \notin SegRecord /\ Garbage.line # "segment" /\ Torn.line # "segment"
    BY <1>3, Kinds DEF Lines
<1>6. Spooled = Segs(outbox) /\ Spooled' = Segs(outbox')
    BY DEF Spooled, Segs
<1>7. CASE outbox' = outbox
    BY <1>2, <1>3, <1>4, <1>6, <1>7
<1>8. ASSUME NEW l \in {h, Torn}, outbox' = Write(outbox, l)
      PROVE  /\ Spooled \subseteq Spooled' /\ Spooled' \subseteq Spooled \cup {h}
             /\ \/ Last(outbox').line # "segment" /\ ~Loadable(outbox')
                \/ outbox' = Append(outbox, h) /\ Last(outbox') = h
    <2>0. PICK w : w = outbox'
        OBVIOUS
    <2>1. /\ Segs(outbox) \subseteq Segs(w)
          /\ w = Append(outbox, l) \/ (Segs(w) = Segs(outbox) /\ Last(w) = Garbage /\ ~Loadable(w))
        BY <1>1, <1>5, <1>8, <2>0, WriteEffect
    <2>2. CASE w = Append(outbox, l)
        <3>1. Segs(w) = (IF l \in SegRecord THEN Segs(outbox) \cup {l} ELSE Segs(outbox)) /\ (Loadable(w) => l \in SegRecord)
            BY <1>1, <1>5, <1>8, <2>2, SegsOfAppend
        <3>2. Last(w) = l
            <4>1. l \in Lines
                BY <1>5
            <4>. QED
                BY <1>1, <2>2, <4>1, AppendIndex, ZenonT(60)
        <3>. QED
            BY <1>5, <1>6, <1>8, <2>0, <2>1, <2>2, <3>1, <3>2
    <2>3. CASE Segs(w) = Segs(outbox) /\ Last(w) = Garbage /\ ~Loadable(w)
        BY <1>5, <1>6, <2>0, <2>3
    <2>. QED
        BY <2>1, <2>2, <2>3
<1>. QED
    BY <1>2, <1>3, <1>4, <1>7, <1>8 DEF Writes

LEMMA LandsEffect ==
    ASSUME BaseInv, NEW s \in SegRecord, rows' \in {rows, Inserted(s)}
    PROVE  \/ rows' = rows
           \/ rows' = Append(rows, s) /\ Range(rows') = Range(rows) \cup {s} /\ s.id \notin Landed
<1>1. rows \in Seq(SegRecord)
    BY DEF BaseInv, EvTypeOK
<1>2. Inserted(s) = rows \/ (Inserted(s) = Append(rows, s) /\ s.id \notin Landed)
    BY <1>1, InsertedEffect
<1>3. Range(Append(rows, s)) = Range(rows) \cup {s}
    BY <1>1, RangeAppend
<1>. QED
    BY <1>2, <1>3

\* A start reads the newest segment there is, here or at the receiver.
LEMMA NothingFollowsHead ==
    ASSUME BaseInv, QuietInv, LinkInv, OrderInv, mode = "replay", Loadable(outbox)
    PROVE  /\ \A s \in Known : s.prev # ResumeHead
           /\ ResumeHead = Root \/ (ResumeHead \in Ids /\ ResumeHead[1] <= run)
           /\ Queue = <<>>
<1>1. Queue = <<>>
    <2>1. Queue = <<>> \o residue \o rec.closed /\ residue = <<>> /\ rec.closed = <<>>
        BY QueueAtRest DEF QuietInv
    <2>. QED
        BY <2>1, QueueParts, QueueForms
<1>2. Known = Spooled \cup Range(rows)
    BY <1>1, RangeEmpty DEF Known
<1>3. /\ Known \subseteq SegRecord /\ \A s \in Known : s.id \in Ids /\ s.prev \in Heads
    BY KnownType
<1>4. \A s \in Known : s.prev \in Ids => Before(s.prev, s.id)
    BY RootIsNoId DEF LinkInv
<1>5. CASE outbox # <<>>
    <2>1. PICK l \in Spooled : l = Last(outbox) /\ ResumeHead = l.id
        BY <1>5, ResumeEffect
    <2>2. l.id \in Ids /\ l.line = "segment" /\ l.id[1] <= run
        BY <1>2, <1>3, <2>1, Kinds DEF LinkInv
    <2>3. ASSUME NEW s \in Known, s.prev = l.id PROVE FALSE
        <3>1. Before(l.id, s.id) /\ s.id \in Ids
            BY <1>3, <1>4, <2>2, <2>3
        <3>2. CASE s \in Spooled
            <4>1. s = l \/ Before(s.id, l.id)
                BY <1>5, <2>1, <2>2, <3>2 DEF OrderInv
            <4>. QED
                BY <2>2, <3>1, <4>1, BeforeOrder
        <3>3. CASE s \notin Spooled
            <4>1. s.id[1] < l.id[1]
                BY <1>2, <2>1, <2>3, <3>3 DEF OrderInv
            <4>. QED
                BY <2>2, <3>1, <4>1 DEF Before, Ids
        <3>. QED
            BY <3>2, <3>3
    <2>. QED
        BY <1>1, <2>1, <2>2, <2>3
<1>6. CASE outbox = <<>> /\ RemoteTails # {}
    <2>1. ResumeHead \in RemoteTails
        BY <1>6, ResumeEffect
    <2>2. Spooled = {}
        BY <1>6, RangeEmpty DEF Spooled
    <2>3. \A s \in Known : s.prev # ResumeHead
        BY <1>2, <2>1, <2>2 DEF RemoteTails
    <2>4. \E s \in Known : s.id = ResumeHead
        BY <1>2, <2>1 DEF RemoteTails, Landed
    <2>5. ResumeHead \in Ids /\ ResumeHead[1] <= run
        BY <1>3, <2>4 DEF LinkInv
    <2>. QED
        BY <1>1, <2>3, <2>5
<1>7. CASE outbox = <<>> /\ RemoteTails = {}
    <2>1. ResumeHead = Root
        BY <1>7, ResumeEffect
    <2>2. Spooled = {}
        BY <1>7, RangeEmpty DEF Spooled
    <2>3. ASSUME rows # <<>> PROVE FALSE
        <3>1. PICK r \in Range(rows) : \A t \in Range(rows) : t = r \/ Before(t.id, r.id)
            BY <2>3 DEF OrderInv
        <3>2. r.id \in Landed /\ r.id \in Ids
            BY <1>2, <1>3 DEF Landed
        <3>3. PICK t \in Range(rows) : t.prev = r.id
            BY <1>7, <3>2 DEF RemoteTails
        <3>4. Before(r.id, t.id) /\ t.id \in Ids
            BY <1>2, <1>3, <1>4, <3>2, <3>3
        <3>. QED
            BY <3>1, <3>2, <3>4, BeforeOrder
    <2>4. Known = {}
        BY <1>2, <2>2, <2>3, RangeEmpty
    <2>. QED
        BY <1>1, <2>1, <2>4
<1>. QED
    BY <1>5, <1>6, <1>7

LEMMA StartUpQueue ==
    ASSUME BaseInv, QuietInv, StartUp
    PROVE  Queue' = <<>> /\ rec'.prev = ResumeHead /\ rec'.next = 1
<1>1. /\ mode = "replay" /\ rec' = NewRecorder(ResumeHead) /\ ResumeHead \in Heads /\ UNCHANGED <<callVars, residue>>
    BY StartUpEffect
<1>2. rec'.closed = <<>> /\ rec'.prev = ResumeHead /\ rec'.next = 1
    BY <1>1, FreshRecorder
<1>3. Claimed = <<>> /\ residue = <<>>
    BY <1>1, QueueAtRest DEF QuietInv
<1>4. Claimed' = <<>> /\ residue' = <<>>
    BY <1>1, <1>3 DEF Claimed, callVars
<1>5. Queue' = <<>> \o <<>> \o <<>>
    BY <1>2, <1>4 DEF Queue
<1>6. <<>> \in Seq(SegRecord)
    OBVIOUS
<1>. QED
    BY <1>2, <1>5, <1>6, QueueForms

LEMMA LinkStep ==
    ASSUME BaseInv, QuietInv, LinkInv, OrderInv, Next
    PROVE  LinkInv'
<1>1. CASE Idles
    <2>1. Known' = Known
        BY <1>1 DEF Idles, Known, Spooled
    <2>. QED
        BY <1>1, <2>1, LinkShrinks DEF Idles
<1>2. CASE Closes
    <2>1. PICK n \in SegRecord :
              /\ Queue' = Append(Queue, n) /\ n.id = NextId /\ n.prev = rec.prev
              /\ rec'.prev = n.id /\ rec'.next = rec.next + 1
        BY <1>2 DEF Closes
    <2>2. Range(Queue') = Range(Queue) \cup {n}
        BY <2>1, QueueParts, RangeAppend
    <2>3. Known' \subseteq Known \cup {n}
        BY <1>2, <2>2 DEF Closes, Known, Spooled
    <2>. QED
        BY <1>2, <2>1, <2>3, LinkGrows DEF Closes
<1>3. CASE Writes
    <2>1. /\ Head(Queue) \in Range(Queue) /\ Spooled' \subseteq Spooled \cup {Head(Queue)}
          /\ Range(Queue') \subseteq Range(Queue)
        BY <1>3, WritesEffect
    <2>2. Known' \subseteq Known
        BY <1>3, <2>1 DEF Writes, Known
    <2>. QED
        BY <1>3, <2>2, LinkShrinks DEF Writes
<1>4. CASE Lands
    <2>1. PICK s \in Spooled : rows' \in {rows, Inserted(s)}
        BY <1>4 DEF Lands
    <2>2. rows' = rows \/ Range(rows') = Range(rows) \cup {s}
        BY <2>1, KnownType, LandsEffect
    <2>3. Known' \subseteq Known
        BY <1>4, <2>2 DEF Lands, Known, Spooled
    <2>. QED
        BY <1>4, <2>3, LinkShrinks DEF Lands, Live
<1>5. CASE Ends
    <2>1. Known' \subseteq Known
        BY <1>5, RangeEmpty DEF Ends, Known, Spooled
    <2>. QED
        BY <1>5, <2>1, LinkShrinks DEF Ends
<1>6. CASE StartUp
    <2>1. /\ mode = "replay" /\ run' = run + 1 /\ Loadable(outbox) /\ mode' = "up"
          /\ UNCHANGED <<fileVars, netVars>>
        BY <1>6, StartUpEffect
    <2>2. Queue' = <<>> /\ rec'.prev = ResumeHead /\ rec'.next = 1
        BY <1>6, StartUpQueue
    <2>3. /\ \A s \in Known : s.prev # ResumeHead
          /\ ResumeHead = Root \/ (ResumeHead \in Ids /\ ResumeHead[1] <= run)
        BY <2>1, NothingFollowsHead
    <2>4. Known' \subseteq Known
        BY <2>1, <2>2, RangeEmpty DEF Known, Spooled, fileVars, netVars
    <2>5. NextId' = <<run + 1, 0>> /\ run \in Nat
        BY <2>1, <2>2, KnownType DEF NextId
    <2>6. \A x \in Ids : x[1] <= run => Before(x, NextId')
        BY <2>5 DEF Before, Ids
    <2>7. \A s \in Known : s.id \in Ids /\ s.id[1] <= run /\ s.id[1] <= run'
        BY <2>1, <2>5, KnownType DEF LinkInv, Ids
    <2>8. \A s, t \in Known : s.id = t.id \/ s.prev = t.prev => s = t
        BY DEF LinkInv
    <2>9. \A s \in Known : s.prev = Root \/ Before(s.prev, s.id)
        BY DEF LinkInv
    <2>. QED
        BY <2>2, <2>3, <2>4, <2>6, <2>7, <2>8, <2>9 DEF LinkInv
<1>7. CASE Rebuild
    <2>1. /\ mode = "down" /\ outbox' = <<>> /\ UNCHANGED <<callVars, rec, lifeVars, netVars>>
        BY <1>7, RebuildEffect
    <2>2. UNCHANGED <<run, mode, rows, Queue, rec.prev, rec.next>>
        BY <2>1, QueueStays DEF lifeVars, netVars
    <2>3. Known' \subseteq Known
        BY <2>1, <2>2, RangeEmpty DEF Known, Spooled
    <2>. QED
        BY <2>2, <2>3, LinkShrinks DEF Live
<1>. QED
    BY <1>1, <1>2, <1>3, <1>4, <1>5, <1>6, <1>7, StepShape

----------------------------------------------------------------------------
(* The order on disk, in the queue and at the receiver *)

LEMMA QueueIndex ==
    ASSUME NEW Q \in Seq(SegRecord), NEW n \in SegRecord,
           \A i, j \in 1..Len(Q) : i < j => Before(Q[i].id, Q[j].id),
           \A q \in Range(Q) : Before(q.id, n.id)
    PROVE  \A i, j \in 1..Len(Append(Q, n)) : i < j => Before(Append(Q, n)[i].id, Append(Q, n)[j].id)
<1>1. /\ Len(Append(Q, n)) = Len(Q) + 1 /\ Append(Q, n)[Len(Q) + 1] = n /\ Len(Q) \in Nat
      /\ \A i \in 1..Len(Q) : Append(Q, n)[i] = Q[i]
    BY AppendIndex
<1>2. \A i \in 1..Len(Q) : Before(Q[i].id, n.id)
    BY RangeIndex
<1> SUFFICES ASSUME NEW i \in 1..(Len(Q) + 1), NEW j \in 1..(Len(Q) + 1), i < j
             PROVE  Before(Append(Q, n)[i].id, Append(Q, n)[j].id)
    BY <1>1
<1>3. i \in 1..Len(Q) /\ (j \in 1..Len(Q) \/ j = Len(Q) + 1)
    BY <1>1
<1>. QED
    BY <1>1, <1>2, <1>3

LEMMA TailOrdered ==
    ASSUME NEW Q \in Seq(SegRecord), Q # <<>>,
           \A i, j \in 1..Len(Q) : i < j => Before(Q[i].id, Q[j].id)
    PROVE  /\ \A i, j \in 1..Len(Tail(Q)) : i < j => Before(Tail(Q)[i].id, Tail(Q)[j].id)
           /\ \A q \in Range(Q) : q = Head(Q) \/ Before(Head(Q).id, q.id)
<1>1. /\ Head(Q) = Q[1] /\ Tail(Q) \in Seq(SegRecord) /\ Len(Q) > 0 /\ Len(Tail(Q)) = Len(Q) - 1 /\ Len(Q) \in Nat
      /\ \A i \in 1..Len(Tail(Q)) : Tail(Q)[i] = Q[i + 1]
    BY TailIndex
<1>2. ASSUME NEW i \in 1..Len(Tail(Q)), NEW j \in 1..Len(Tail(Q)), i < j
      PROVE  Before(Tail(Q)[i].id, Tail(Q)[j].id)
    <2>1. i + 1 \in 1..Len(Q) /\ j + 1 \in 1..Len(Q) /\ i + 1 < j + 1
        BY <1>1, <1>2
    <2>. QED
        BY <1>1, <2>1
<1>3. ASSUME NEW q \in Range(Q) PROVE q = Head(Q) \/ Before(Head(Q).id, q.id)
    <2>1. PICK i \in 1..Len(Q) : Q[i] = q
        BY RangeIndex
    <2>2. 1 \in 1..Len(Q) /\ (i = 1 \/ 1 < i)
        BY <1>1
    <2>. QED
        BY <1>1, <2>1, <2>2
<1>. QED
    BY <1>2, <1>3

LEMMA OrderIdles ==
    ASSUME OrderInv, Idles
    PROVE  OrderInv'
<1>1. Spooled' = Spooled /\ UNCHANGED <<outbox, Queue, run, rows, flying>> /\ (Live' => Live)
    BY DEF Idles, Spooled
<1>2. pass'.todo \subseteq Spooled
    BY DEF Idles, Reload, OrderInv
<1>. QED
    BY <1>1, <1>2 DEF OrderInv

LEMMA OrderCloses ==
    ASSUME BaseInv, LinkInv, OrderInv, Closes
    PROVE  OrderInv'
<1>1. PICK n \in SegRecord : Queue' = Append(Queue, n) /\ n.id = NextId
    BY DEF Closes
<1>2. Spooled' = Spooled /\ UNCHANGED <<outbox, run, rows, flying>> /\ Live
    BY DEF Closes, Spooled
<1>3. pass'.todo \subseteq Spooled
    BY DEF Closes, Reload, OrderInv
<1>4. \A s \in Known : Before(s.id, n.id)
    BY <1>1, <1>2 DEF LinkInv
<1>5. \A i, j \in 1..Len(Queue') : i < j => Before(Queue'[i].id, Queue'[j].id)
    BY <1>1, <1>4, QueueParts, KnownType, QueueIndex DEF OrderInv
<1>6. Range(Queue') = Range(Queue) \cup {n}
    BY <1>1, QueueParts, RangeAppend
<1>7. \A s \in Spooled' : \A q \in Range(Queue') : s = q \/ Before(s.id, q.id)
    BY <1>2, <1>4, <1>6, KnownType DEF OrderInv
<1>8. n.id[1] = run
    BY <1>1 DEF NextId
<1>9. \A s \in Range(Queue') : s.id[1] = run'
    BY <1>2, <1>6, <1>8 DEF OrderInv
<1>. QED
    BY <1>2, <1>3, <1>5, <1>7, <1>9 DEF OrderInv

LEMMA OrderWrites ==
    ASSUME BaseInv, OrderInv, Writes
    PROVE  OrderInv'
<1>1. PICK h : h = Head(Queue)
    OBVIOUS
<1>2. /\ h \in SegRecord /\ h \in Range(Queue)
      /\ Spooled \subseteq Spooled' /\ Spooled' \subseteq Spooled \cup {h}
      /\ Range(Queue') \subseteq Range(Queue)
      /\ \/ outbox' = outbox
         \/ Last(outbox').line # "segment"
         \/ Last(outbox') = h
    BY <1>1, WritesEffect
<1>3. /\ Queue # <<>> /\ Live /\ UNCHANGED <<mode, run, rows, flying>> /\ Queue' \in {Queue, Tail(Queue)}
      /\ pass'.todo = pass.todo
    BY DEF Writes
<1>4. Queue \in Seq(SegRecord) /\ \A i, j \in 1..Len(Queue) : i < j => Before(Queue[i].id, Queue[j].id)
    BY QueueParts DEF OrderInv
<1>5. /\ \A i, j \in 1..Len(Tail(Queue)) : i < j => Before(Tail(Queue)[i].id, Tail(Queue)[j].id)
      /\ \A q \in Range(Queue) : q = h \/ Before(h.id, q.id)
    BY <1>1, <1>3, <1>4, TailOrdered
<1>6. \A i, j \in 1..Len(Queue') : i < j => Before(Queue'[i].id, Queue'[j].id)
    <2>1. CASE Queue' = Queue
        BY <1>4, <2>1
    <2>2. CASE Queue' = Tail(Queue)
        BY <1>5, <2>2
    <2>. QED
        BY <1>3, <2>1, <2>2
<1>7. \A s \in Spooled' : \A q \in Range(Queue') : s = q \/ Before(s.id, q.id)
    BY <1>2, <1>5 DEF OrderInv
<1>8. \A s \in Range(Queue') : s.id[1] = run'
    BY <1>2, <1>3 DEF OrderInv
<1>9. \A s \in Spooled : s = h \/ Before(s.id, h.id)
    BY <1>2 DEF OrderInv
<1>10. outbox' # <<>> /\ Last(outbox').line = "segment" =>
          \A s \in Spooled' : s = Last(outbox') \/ Before(s.id, Last(outbox').id)
    <2>1. CASE outbox' = outbox
        <3>1. Spooled' = Spooled
            BY <2>1 DEF Spooled
        <3>. QED
            BY <2>1, <3>1 DEF OrderInv
    <2>2. CASE Last(outbox') = h
        BY <1>2, <1>9, <2>2
    <2>. QED
        BY <1>2, <2>1, <2>2
<1>11. \A r \in Range(rows') \ Spooled' : \A s \in Spooled' : r.id[1] < s.id[1]
    <2>1. h.id[1] = run
        BY <1>2 DEF OrderInv
    <2>. QED
        BY <1>2, <1>3, <2>1 DEF OrderInv
<1>12. \A r \in Range(rows') \ Spooled' : r.id[1] < run'
    BY <1>2, <1>3 DEF OrderInv
<1>13. flying' \subseteq Spooled' /\ pass'.todo \subseteq Spooled'
    BY <1>2, <1>3 DEF OrderInv
<1>14. rows' # <<>> => \E r \in Range(rows') : \A t \in Range(rows') : t = r \/ Before(t.id, r.id)
    BY <1>3 DEF OrderInv
<1>. QED
    BY <1>6, <1>7, <1>8, <1>10, <1>11, <1>12, <1>13, <1>14 DEF OrderInv

LEMMA OrderLands ==
    ASSUME BaseInv, LinkInv, OrderInv, Lands
    PROVE  OrderInv'
<1>1. PICK s \in Spooled : rows' \in {rows, Inserted(s)} /\ flying' \subseteq flying \cup {s}
    BY DEF Lands
<1>2. Spooled' = Spooled /\ UNCHANGED <<mode, outbox, Queue, run>> /\ (Live' <=> Live) /\ pass'.todo \subseteq pass.todo
    BY DEF Lands, Spooled, Live
<1>3. s \in SegRecord /\ s \in Known /\ Range(rows) \subseteq Known /\ \A t \in Known : t.id \in Ids
    BY <1>1, KnownType
<1>4. rows' = rows \/ (rows' = Append(rows, s) /\ Range(rows') = Range(rows) \cup {s} /\ s.id \notin Landed)
    BY <1>1, <1>3, LandsEffect
<1>5. Range(rows') \ Spooled' = Range(rows) \ Spooled
    BY <1>1, <1>2, <1>4
<1>6. rows' # <<>> => \E r \in Range(rows') : \A t \in Range(rows') : t = r \/ Before(t.id, r.id)
    <2>1. CASE rows' = rows
        BY <2>1 DEF OrderInv
    <2>2. CASE rows = <<>> /\ Range(rows') = Range(rows) \cup {s}
        BY <2>2, RangeEmpty
    <2>3. CASE rows # <<>> /\ Range(rows') = Range(rows) \cup {s} /\ s.id \notin Landed
        <3>1. PICK r \in Range(rows) : \A t \in Range(rows) : t = r \/ Before(t.id, r.id)
            BY <2>3 DEF OrderInv
        <3>2. r.id # s.id
            BY <2>3 DEF Landed
        <3>3. CASE Before(s.id, r.id)
            BY <2>3, <3>1, <3>3
        <3>4. CASE Before(r.id, s.id)
            <4>1. \A t \in Range(rows) : Before(t.id, s.id)
                BY <1>3, <3>1, <3>4, BeforeOrder
            <4>. QED
                BY <2>3, <4>1
        <3>. QED
            BY <1>3, <3>2, <3>3, <3>4, BeforeOrder
    <2>. QED
        BY <1>4, <2>1, <2>2, <2>3
<1>7. flying' \subseteq Spooled' /\ pass'.todo \subseteq Spooled'
    BY <1>1, <1>2 DEF OrderInv
<1>. QED
    BY <1>2, <1>5, <1>6, <1>7 DEF OrderInv

LEMMA OrderEnds ==
    ASSUME OrderInv, Ends
    PROVE  OrderInv'
<1>1. Spooled' = Spooled /\ UNCHANGED <<outbox, run, rows, flying>> /\ ~Live' /\ Queue' = <<>> /\ pass'.todo = {}
    BY DEF Ends, Spooled
<1>2. Range(Queue') = {} /\ Len(Queue') = 0
    BY <1>1, RangeEmpty
<1>. QED
    BY <1>1, <1>2 DEF OrderInv

LEMMA OrderStartUp ==
    ASSUME BaseInv, QuietInv, LinkInv, OrderInv, StartUp
    PROVE  OrderInv'
<1>1. run' = run + 1 /\ pass' = NoPass /\ UNCHANGED <<fileVars, netVars>>
    BY StartUpEffect
<1>2. Queue' = <<>>
    BY StartUpQueue
<1>3. Spooled' = Spooled /\ UNCHANGED <<outbox, rows, flying>> /\ Range(Queue') = {} /\ Len(Queue') = 0 /\ pass'.todo = {}
    BY <1>1, <1>2, RangeEmpty, NoPassType DEF Spooled, fileVars, netVars
<1>4. \A r \in Range(rows) : r.id[1] < run'
    <2>1. \A r \in Range(rows) : r.id[1] \in Nat /\ r.id[1] <= run /\ run \in Nat
        BY KnownType DEF LinkInv, Ids
    <2>. QED
        BY <1>1, <2>1
<1>. QED
    BY <1>3, <1>4 DEF OrderInv

LEMMA OrderRebuild ==
    ASSUME BaseInv, QuietInv, OrderInv, Rebuild
    PROVE  OrderInv'
<1>1. /\ mode = "down" /\ flying = {} /\ outbox' = <<>> /\ UNCHANGED <<callVars, rec, lifeVars, passVars, netVars>>
    BY RebuildEffect
<1>2. UNCHANGED <<run, mode, pass, rows, flying, Queue, rec.prev, rec.next>>
    BY <1>1, QueueStays DEF lifeVars, passVars, netVars
<1>3. Spooled' = {} /\ ~Live' /\ pass'.todo = {}
    BY <1>1, <1>2, RangeEmpty DEF Spooled, Live, QuietInv
<1>. QED
    BY <1>1, <1>2, <1>3 DEF OrderInv

LEMMA OrderStep ==
    ASSUME BaseInv, QuietInv, LinkInv, OrderInv, Next
    PROVE  OrderInv'
BY StepShape, OrderIdles, OrderCloses, OrderWrites, OrderLands, OrderEnds, OrderStartUp, OrderRebuild

----------------------------------------------------------------------------
(* The production line: outbox, claim and recorder *)

InLine(p, r) ==
    \A i \in 1..Len(p) : p[i].id[1] = r =>
        \/ i > 1 /\ p[i] = p[i - 1]
        \/ /\ i > 1 => p[i].prev = p[i - 1].id
           /\ p[i].id[2] = IF i > 1 /\ p[i - 1].id[1] = r THEN p[i - 1].id[2] + 1 ELSE 0

EndsAt(p, prev, next, r) ==
    /\ p # <<>> => prev = Last(p).id
    /\ IF p # <<>> /\ Last(p).id[1] = r THEN Last(p).id[2] = next - 2 ELSE next = 1

LEMMA ProductionParts ==
    ProductionOrder <=>
        (mode = "up" /\ Loadable(outbox) => InLine(Pipeline, run) /\ EndsAt(Pipeline, rec.prev, rec.next, run))
BY Zenon DEF ProductionOrder, InLine, EndsAt

LEMMA ProductionPartsNext ==
    ProductionOrder' <=>
        (mode' = "up" /\ Loadable(outbox') => InLine(Pipeline', run') /\ EndsAt(Pipeline', rec'.prev, rec'.next, run'))
BY Zenon DEF ProductionOrder, InLine, EndsAt, Loadable

LEMMA LoadableType ==
    ASSUME NEW o \in Seq(Lines), Loadable(o)
    PROVE  o \in Seq(SegRecord)
<1>1. \A i \in 1..Len(o) : o[i] \in SegRecord
    BY Kinds, RangeIndex DEF Loadable
<1>. QED
    BY <1>1

LEMMA Regroup ==
    ASSUME NEW o \in Seq(SegRecord), NEW c \in Seq(SegRecord), NEW x \in Seq(SegRecord)
    PROVE  o \o c \o x = o \o (c \o <<>> \o x)
<1>1. c \o <<>> \o x = c \o x
    BY QueueForms
<1>2. (o \o c) \o x = o \o (c \o x)
    BY ConcatAssociative
<1>. QED
    BY <1>1, <1>2

\* While the server is up the pipeline is the outbox and the queue.
LEMMA PipelineIs ==
    ASSUME BaseInv, QuietInv, mode = "up", Loadable(outbox)
    PROVE  Pipeline = outbox \o Queue /\ outbox \in Seq(SegRecord)
<1>1. residue = <<>> /\ outbox \in Seq(SegRecord)
    BY LoadableType DEF QuietInv, BaseInv, EvTypeOK
<1>2. Pipeline = outbox \o Claimed \o rec.closed
    BY DEF Pipeline, Claimed
<1>3. Queue = Claimed \o <<>> \o rec.closed
    BY <1>1 DEF Queue
<1>. QED
    BY <1>1, <1>2, <1>3, QueueParts, Regroup

LEMMA PipelineIsNext ==
    ASSUME BaseInv', QuietInv', mode' = "up", Loadable(outbox')
    PROVE  Pipeline' = outbox' \o Queue' /\ outbox' \in Seq(SegRecord)
<1>1. residue' = <<>> /\ outbox' \in Seq(SegRecord)
    BY LoadableType DEF QuietInv, BaseInv, EvTypeOK
<1>2. Pipeline' = outbox' \o Claimed' \o rec'.closed
    BY DEF Pipeline, Claimed
<1>3. Queue' = Claimed' \o <<>> \o rec'.closed
    BY <1>1 DEF Queue
<1>4. Claimed' \in Seq(SegRecord) /\ rec'.closed \in Seq(SegRecord)
    BY DEF BaseInv, EvTypeOK, RecRecord, Claimed
<1>. QED
    BY <1>1, <1>2, <1>3, <1>4, Regroup

LEMMA LastOf ==
    ASSUME NEW p \in Seq(SegRecord), p # <<>>
    PROVE  Len(p) \in Nat /\ Len(p) > 0 /\ Last(p) = p[Len(p)] /\ p[Len(p)] \in SegRecord
BY DEF Last

LEMMA LineGrows ==
    ASSUME NEW p \in Seq(SegRecord), NEW n \in SegRecord, NEW r \in Nat, NEW prev, NEW next \in Nat,
           InLine(p, r), EndsAt(p, prev, next, r), n.id = <<r, next - 1>>, n.prev = prev
    PROVE  InLine(Append(p, n), r) /\ EndsAt(Append(p, n), n.id, next + 1, r)
<1>1. PICK q : q = Append(p, n)
    OBVIOUS
<1>2. /\ q # <<>> /\ Len(q) = Len(p) + 1 /\ q[Len(p) + 1] = n /\ Last(q) = n /\ Len(p) \in Nat
      /\ \A i \in 1..Len(p) : q[i] = p[i]
    <2>1. Append(p, n) # <<>> /\ Len(Append(p, n)) = Len(p) + 1 /\ Append(p, n)[Len(p) + 1] = n /\ Last(Append(p, n)) = n
        BY AppendIndex, ZenonT(60)
    <2>2. \A i \in 1..Len(p) : Append(p, n)[i] = p[i]
        BY AppendIndex
    <2>3. Len(p) \in Nat
        OBVIOUS
    <2>. QED
        BY <1>1, <2>1, <2>2, <2>3, Zenon
<1>3. n.id[1] = r /\ n.id[2] = next - 1
    OBVIOUS
<1>4. EndsAt(q, n.id, next + 1, r)
    <2>1. next - 1 = next + 1 - 2
        OBVIOUS
    <2>. QED
        BY <1>2, <1>3, <2>1 DEF EndsAt
<1>5. InLine(q, r)
    <2> SUFFICES ASSUME NEW i \in 1..Len(q), q[i].id[1] = r
                 PROVE  \/ i > 1 /\ q[i] = q[i - 1]
                        \/ /\ i > 1 => q[i].prev = q[i - 1].id
                           /\ q[i].id[2] = IF i > 1 /\ q[i - 1].id[1] = r THEN q[i - 1].id[2] + 1 ELSE 0
        BY DEF InLine
    <2>1. CASE i \in 1..Len(p)
        <3>1. i > 1 => i - 1 \in 1..Len(p)
            BY <1>2, <2>1
        <3>. QED
            BY <1>2, <2>1, <3>1 DEF InLine
    <2>2. CASE i = Len(p) + 1 /\ p = <<>>
        <3>1. i = 1 /\ q[i] = n
            BY <1>2, <2>2
        <3>2. next = 1
            BY <2>2 DEF EndsAt
        <3>. QED
            BY <1>3, <3>1, <3>2
    <2>3. CASE i = Len(p) + 1 /\ p # <<>>
        <3>1. Len(p) > 0 /\ Last(p) = p[Len(p)] /\ Last(p) \in SegRecord
            BY <2>3, LastOf
        <3>2. q[i] = n /\ i > 1 /\ i - 1 = Len(p) /\ Len(p) \in 1..Len(p)
            BY <1>2, <2>3, <3>1
        <3>3. q[i - 1] = Last(p)
            BY <1>2, <3>1, <3>2
        <3>4. prev = Last(p).id /\ (IF Last(p).id[1] = r THEN Last(p).id[2] = next - 2 ELSE next = 1)
            BY <2>3 DEF EndsAt
        <3>5. q[i].prev = q[i - 1].id
            BY <3>2, <3>3, <3>4
        <3>6. CASE Last(p).id[1] = r
            <4>1. Last(p).id[2] + 1 = next - 1
                BY <3>4, <3>6
            <4>. QED
                BY <1>3, <3>2, <3>3, <3>5, <3>6, <4>1
        <3>7. CASE Last(p).id[1] # r
            <4>1. next - 1 = 0
                BY <3>4, <3>7
            <4>. QED
                BY <1>3, <3>2, <3>3, <3>5, <3>7, <4>1
        <3>. QED
            BY <3>6, <3>7
    <2>. QED
        BY <1>2, <2>1, <2>2, <2>3
<1>. QED
    BY <1>1, <1>4, <1>5

\* The head of the queue moves to the disk, or is there twice.
LEMMA HeadMoves ==
    ASSUME NEW o \in Seq(SegRecord), NEW Q \in Seq(SegRecord), Q # <<>>
    PROVE  Append(o, Head(Q)) \o Tail(Q) = o \o Q
<1>1. /\ Head(Q) \in SegRecord /\ Head(Q) = Q[1] /\ Tail(Q) \in Seq(SegRecord) /\ Len(Q) > 0 /\ Len(Tail(Q)) = Len(Q) - 1
      /\ \A i \in 1..Len(Tail(Q)) : Tail(Q)[i] = Q[i + 1]
    BY TailIndex
<1>2. PICK h \in SegRecord : h = Head(Q)
    BY <1>1, Zenon
<1>3. PICK T \in Seq(SegRecord) : T = Tail(Q)
    BY <1>1, Zenon
<1>4. Append(o, h) = o \o <<h>> /\ <<h>> \in Seq(SegRecord) /\ <<h>> # <<>> /\ Head(<<h>>) = h /\ Tail(<<h>>) = <<>>
    BY AppendIndex
<1>5. (o \o <<h>>) \o T = o \o (<<h>> \o T)
    BY <1>4, ConcatAssociative
<1>6. <<h>> \o T = Q
    <2>1. <<h>> \o T \in Seq(SegRecord) /\ Len(<<h>> \o T) = Len(Q)
        BY <1>1, <1>2, <1>3, <1>4
    <2>2. ASSUME NEW i \in 1..Len(Q) PROVE (<<h>> \o T)[i] = Q[i]
        <3>1. CASE i = 1
            BY <1>1, <1>2, <3>1
        <3>2. CASE i # 1
            <4>1. i - 1 \in 1..Len(T) /\ (<<h>> \o T)[i] = T[i - 1] /\ (i - 1) + 1 = i
                BY <1>1, <1>3, <3>2
            <4>. QED
                BY <1>1, <1>3, <4>1
        <3>. QED
            BY <3>1, <3>2
    <2>. QED
        BY <2>1, <2>2, SeqEqual
<1>. QED
    BY <1>2, <1>3, <1>4, <1>5, <1>6

LEMMA LineDoubles ==
    ASSUME NEW o \in Seq(SegRecord), NEW Q \in Seq(SegRecord), Q # <<>>, NEW r, NEW prev, NEW next,
           InLine(o \o Q, r), EndsAt(o \o Q, prev, next, r)
    PROVE  InLine(Append(o, Head(Q)) \o Q, r) /\ EndsAt(Append(o, Head(Q)) \o Q, prev, next, r)
<1>1. PICK k \in Nat : k = Len(o)
    OBVIOUS
<1>2. PICK m \in Nat : m = Len(Q) /\ m > 0
    OBVIOUS
<1>3. PICK h \in SegRecord : h = Head(Q) /\ h = Q[1]
    BY TailIndex
<1>4. PICK o2 \in Seq(SegRecord) : o2 = Append(o, h) /\ Len(o2) = k + 1 /\ o2[k + 1] = h /\ \A i \in 1..k : o2[i] = o[i]
    <2>1. Append(o, h) \in Seq(SegRecord) /\ Len(Append(o, h)) = Len(o) + 1 /\ Append(o, h)[Len(o) + 1] = h
        BY AppendIndex
    <2>2. \A i \in 1..Len(o) : Append(o, h)[i] = o[i]
        BY AppendIndex
    <2>. QED
        BY <1>1, <2>1, <2>2, Zenon
<1>5. PICK p \in Seq(SegRecord) :
          /\ p = o \o Q /\ Len(p) = k + m
          /\ \A i \in 1..k : p[i] = o[i]
          /\ \A i \in 1..m : p[k + i] = Q[i]
    <2>1. o \o Q \in Seq(SegRecord) /\ Len(o \o Q) = Len(o) + Len(Q)
        BY ConcatIndex
    <2>2. /\ \A i \in 1..Len(o) : (o \o Q)[i] = o[i]
          /\ \A i \in 1..Len(Q) : (o \o Q)[Len(o) + i] = Q[i]
        BY ConcatIndex
    <2>. QED
        BY <1>1, <1>2, <2>1, <2>2, Zenon
<1>6. PICK w \in Seq(SegRecord) :
          /\ w = o2 \o Q /\ Len(w) = k + 1 + m
          /\ \A i \in 1..(k + 1) : w[i] = o2[i]
          /\ \A i \in 1..m : w[k + 1 + i] = Q[i]
    <2>1. o2 \o Q \in Seq(SegRecord) /\ Len(o2 \o Q) = Len(o2) + Len(Q)
        BY ConcatIndex
    <2>2. /\ \A i \in 1..Len(o2) : (o2 \o Q)[i] = o2[i]
          /\ \A i \in 1..Len(Q) : (o2 \o Q)[Len(o2) + i] = Q[i]
        BY ConcatIndex
    <2>. QED
        <3>1. PICK b : b = k + 1
            OBVIOUS
        <3>2. Len(o2) = b /\ Len(Q) = m
            BY <1>2, <1>4, <3>1
        <3>3. /\ o2 \o Q \in Seq(SegRecord) /\ Len(o2 \o Q) = b + m
              /\ \A i \in 1..b : (o2 \o Q)[i] = o2[i]
              /\ \A i \in 1..m : (o2 \o Q)[b + i] = Q[i]
            BY <2>1, <2>2, <3>2, Zenon
        <3>. QED
            BY <3>1, <3>3, Zenon
<1>7. \A i \in 1..(k + 1) : w[i] = p[i]
    <2> SUFFICES ASSUME NEW i \in 1..(k + 1) PROVE w[i] = p[i]
        OBVIOUS
    <2>1. CASE i \in 1..k
        BY <1>4, <1>5, <1>6, <2>1
    <2>2. CASE i = k + 1
        <3>1. p[k + 1] = Q[1]
            BY <1>2, <1>5
        <3>. QED
            BY <1>3, <1>4, <1>6, <2>2, <3>1
    <2>. QED
        BY <2>1, <2>2
<1>8. \A i \in (k + 2)..(k + 1 + m) : w[i] = p[i - 1]
    <2> SUFFICES ASSUME NEW i \in (k + 2)..(k + 1 + m) PROVE w[i] = p[i - 1]
        OBVIOUS
    <2>1. PICK j \in 1..m : j = i - (k + 1) /\ i = k + 1 + j /\ i - 1 = k + j
        <3>1. i - (k + 1) \in 1..m /\ i = k + 1 + (i - (k + 1)) /\ i - 1 = k + (i - (k + 1))
            BY <1>1, <1>2
        <3>. QED
            BY <3>1
    <2>. QED
        BY <1>5, <1>6, <2>1, ZenonT(60)
<1>9. InLine(p, r) /\ EndsAt(p, prev, next, r)
    BY <1>5
<1>10. EndsAt(w, prev, next, r)
    <2>1. p # <<>> /\ w # <<>>
        BY <1>2, <1>5, <1>6
    <2>2. Last(p) = p[k + m] /\ Last(w) = w[k + 1 + m]
        BY <1>5, <1>6 DEF Last
    <2>3. k + 1 + m \in (k + 2)..(k + 1 + m) /\ (k + 1 + m) - 1 = k + m
        BY <1>1, <1>2
    <2>4. Last(w) = Last(p)
        BY <1>8, <2>2, <2>3
    <2>. QED
        BY <1>9, <2>1, <2>4 DEF EndsAt
<1>11. InLine(w, r)
    <2> SUFFICES ASSUME NEW i \in 1..(k + 1 + m), w[i].id[1] = r
                 PROVE  \/ i > 1 /\ w[i] = w[i - 1]
                        \/ /\ i > 1 => w[i].prev = w[i - 1].id
                           /\ w[i].id[2] = IF i > 1 /\ w[i - 1].id[1] = r THEN w[i - 1].id[2] + 1 ELSE 0
        BY <1>6 DEF InLine
    <2>1. CASE i \in 1..(k + 1)
        <3>1. i \in 1..Len(p) /\ (i > 1 => i - 1 \in 1..(k + 1))
            BY <1>1, <1>2, <1>5, <2>1
        <3>2. w[i] = p[i] /\ (i > 1 => w[i - 1] = p[i - 1])
            BY <1>7, <2>1, <3>1
        <3>. QED
            BY <1>9, <3>1, <3>2 DEF InLine
    <2>2. CASE i = k + 2
        <3>1. i \in (k + 2)..(k + 1 + m) /\ i - 1 \in 1..(k + 1) /\ i > 1
            BY <1>1, <1>2, <2>2
        <3>2. w[i] = p[i - 1] /\ w[i - 1] = p[i - 1]
            BY <1>7, <1>8, <3>1
        <3>. QED
            BY <3>1, <3>2
    <2>3. CASE i > k + 2
        <3>1. PICK j \in 1..Len(p) : j = i - 1 /\ j > 1 /\ i > 1 /\ j \in (k + 2)..(k + 1 + m) /\ i \in (k + 2)..(k + 1 + m)
            <4>1. i - 1 \in 1..Len(p) /\ i - 1 > 1 /\ i > 1 /\ i - 1 \in (k + 2)..(k + 1 + m) /\ i \in (k + 2)..(k + 1 + m)
                BY <1>1, <1>2, <1>5, <2>3
            <4>. QED
                BY <4>1
        <3>2. w[i] = p[j] /\ w[j] = p[j - 1]
            BY <1>8, <3>1
        <3>. QED
            BY <1>9, <3>1, <3>2 DEF InLine
    <2>. QED
        BY <1>1, <1>2, <2>1, <2>2, <2>3
<1>. QED
    BY <1>3, <1>4, <1>6, <1>10, <1>11

LEMMA ProductionStep ==
    ASSUME BaseInv, QuietInv, LinkInv, OrderInv, ProductionOrder, Next, BaseInv', QuietInv'
    PROVE  ProductionOrder'
<1> SUFFICES ASSUME mode' = "up", Loadable(outbox')
             PROVE  InLine(Pipeline', run') /\ EndsAt(Pipeline', rec'.prev, rec'.next, run')
    BY ProductionPartsNext
<1>1. Pipeline' = outbox' \o Queue' /\ outbox' \in Seq(SegRecord)
    BY PipelineIsNext
<1>2. ASSUME mode = "up", Loadable(outbox)
      PROVE  /\ outbox \in Seq(SegRecord)
             /\ InLine(outbox \o Queue, run) /\ EndsAt(outbox \o Queue, rec.prev, rec.next, run)
    BY <1>2, PipelineIs, ProductionParts
<1>3. CASE Idles
    <2>1. UNCHANGED <<outbox, Queue, run, rec.prev, rec.next>> /\ mode = "up"
        BY <1>3 DEF Idles
    <2>. QED
        BY <1>1, <1>2, <2>1
<1>4. CASE Closes
    <2>1. PICK n \in SegRecord :
              /\ Queue' = Append(Queue, n) /\ n.id = NextId /\ n.prev = rec.prev
              /\ rec'.prev = n.id /\ rec'.next = rec.next + 1
        BY <1>4 DEF Closes
    <2>2. UNCHANGED <<outbox, run>> /\ mode = "up"
        BY <1>4 DEF Closes
    <2>3. n.id = <<run, rec.next - 1>> /\ run \in Nat /\ rec.next \in Nat
        BY <2>1, KnownType DEF NextId
    <2>4. PICK p \in Seq(SegRecord) : p = outbox \o Queue
        BY <1>2, <2>2, QueueParts, ConcatIndex
    <2>5. outbox \o Append(Queue, n) = Append(p, n)
        BY <1>2, <2>2, <2>4, QueueParts, QueueForms
    <2>6. InLine(Append(p, n), run) /\ EndsAt(Append(p, n), n.id, rec.next + 1, run)
        BY <1>2, <2>1, <2>2, <2>3, <2>4, LineGrows
    <2>. QED
        BY <1>1, <2>1, <2>2, <2>5, <2>6
<1>5. CASE Writes
    <2>1. /\ Queue # <<>> /\ UNCHANGED <<mode, run, rec.prev, rec.next>> /\ Queue' \in {Queue, Tail(Queue)}
          /\ Queue' = Queue \/ outbox' = Write(outbox, Head(Queue))
        BY <1>5 DEF Writes
    <2>2. \/ outbox' = outbox
          \/ outbox' = Append(outbox, Head(Queue)) /\ Head(Queue) \in SegRecord
        BY <1>5, WritesEffect
    <2>3. CASE outbox' = Append(outbox, Head(Queue)) /\ Head(Queue) \in SegRecord
        <3>1. Loadable(outbox)
            <4>1. Head(Queue) \in Lines /\ outbox \in Seq(Lines)
                BY <2>3 DEF BaseInv, EvTypeOK, Lines
            <4>. QED
                BY <2>3, <4>1, SegsOfAppend
        <3>2. CASE Queue' = Queue
            <4>1. InLine(Append(outbox, Head(Queue)) \o Queue, run)
                  /\ EndsAt(Append(outbox, Head(Queue)) \o Queue, rec.prev, rec.next, run)
                BY <1>2, <2>1, <3>1, QueueParts, LineDoubles
            <4>. QED
                BY <1>1, <2>1, <2>3, <3>2, <4>1
        <3>3. CASE Queue' = Tail(Queue)
            <4>1. Append(outbox, Head(Queue)) \o Tail(Queue) = outbox \o Queue
                BY <1>2, <2>1, <3>1, QueueParts, HeadMoves
            <4>. QED
                BY <1>1, <1>2, <2>1, <2>3, <3>1, <3>3, <4>1
        <3>. QED
            BY <2>1, <3>2, <3>3
    <2>4. CASE outbox' = outbox /\ Queue' = Queue
        BY <1>1, <1>2, <2>1, <2>4
    <2>5. CASE outbox' = outbox /\ outbox' = Write(outbox, Head(Queue))
        <3>1. Head(Queue) \in SegRecord /\ outbox \in Seq(Lines) /\ Head(Queue) \in Lines
            BY <1>5, WritesEffect DEF BaseInv, EvTypeOK, Lines
        <3>2. outbox = Append(outbox, Head(Queue))
            BY <2>5, <3>1, WriteEffect
        <3>3. Len(outbox) = Len(outbox) + 1 /\ Len(outbox) \in Nat
            BY <3>1, <3>2, AppendIndex
        <3>. QED
            BY <3>3
    <2>. QED
        BY <2>1, <2>2, <2>3, <2>4, <2>5
<1>6. CASE Lands
    <2>1. UNCHANGED <<outbox, Queue, run, rec.prev, rec.next, mode>>
        BY <1>6 DEF Lands
    <2>. QED
        BY <1>1, <1>2, <2>1
<1>7. CASE Ends
    BY <1>7 DEF Ends, Live
<1>8. CASE StartUp
    <2>1. mode = "replay" /\ run' = run + 1 /\ UNCHANGED fileVars /\ Loadable(outbox)
        BY <1>8, StartUpEffect
    <2>2. Queue' = <<>> /\ rec'.prev = ResumeHead /\ rec'.next = 1
        BY <1>8, StartUpQueue
    <2>3. outbox' = outbox /\ Pipeline' = outbox
        BY <1>1, <2>1, <2>2, ConcatEmptySeq DEF fileVars
    <2>4. \A i \in 1..Len(outbox) : outbox[i].id[1] # run'
        <3>1. \A i \in 1..Len(outbox) : outbox[i] \in Range(outbox)
            BY <1>1, <2>3, RangeIndex, Zenon
        <3>2. Range(outbox) \subseteq Known
            BY <2>1, KnownType, SegsType, SpooledIsSegs DEF BaseInv, EvTypeOK
        <3>3. \A s \in Known : s.id[1] \in Nat /\ s.id[1] <= run /\ run \in Nat
            BY KnownType DEF LinkInv, Ids
        <3>4. \A s \in Known : s.id[1] # run'
            BY <2>1, <3>3
        <3>. QED
            BY <3>1, <3>2, <3>4
    <2>5. InLine(outbox, run')
        BY <2>4 DEF InLine
    <2>6. EndsAt(outbox, ResumeHead, 1, run')
        <3>1. outbox # <<>> => ResumeHead = Last(outbox).id
            BY <2>1, ResumeEffect
        <3>2. outbox # <<>> => Last(outbox).id[1] # run'
            <4>1. outbox # <<>> => Last(outbox) = outbox[Len(outbox)] /\ Len(outbox) \in 1..Len(outbox)
                BY <1>1, <2>3, LastOf
            <4>. QED
                BY <2>4, <4>1
        <3>. QED
            BY <3>1, <3>2 DEF EndsAt
    <2>. QED
        BY <2>2, <2>3, <2>5, <2>6
<1>9. CASE Rebuild
    BY <1>9 DEF Rebuild, lifeVars
<1>. QED
    BY <1>3, <1>4, <1>5, <1>6, <1>7, <1>8, <1>9, StepShape

----------------------------------------------------------------------------
(* The chain *)

LEMMA InitChain == Quiesced /\ Init => ChainInv
<1> SUFFICES ASSUME Quiesced, Init PROVE ChainInv
    OBVIOUS
<1>1. BaseInv /\ QuietInv
    BY InitBase, InitQuiet
<1>2. mode = "down" /\ outbox = <<>> /\ rows = <<>> /\ flying = {} /\ pass = NoPass
    BY DEF Init
<1>3. Queue = <<>>
    <2>1. Queue = <<>> \o residue \o rec.closed /\ residue = <<>> /\ rec.closed = <<>>
        BY <1>1, <1>2, QueueAtRest DEF QuietInv
    <2>. QED
        BY <1>1, <2>1, QueueParts, QueueForms
<1>4. Spooled = {} /\ Range(rows) = {} /\ Range(Queue) = {} /\ Len(Queue) = 0 /\ ~Live /\ pass.todo = {}
    BY <1>2, <1>3, RangeEmpty, NoPassType DEF Spooled, Live
<1>5. Known = {}
    BY <1>4 DEF Known
<1>6. LinkInv
    BY <1>4, <1>5 DEF LinkInv
<1>7. OrderInv
    BY <1>2, <1>4 DEF OrderInv
<1>8. ProductionOrder
    BY <1>2 DEF ProductionOrder
<1>. QED
    BY <1>1, <1>6, <1>7, <1>8 DEF ChainInv

LEMMA ChainStutter == ChainInv /\ UNCHANGED vars => ChainInv'
<1> SUFFICES ASSUME ChainInv, UNCHANGED vars PROVE ChainInv'
    OBVIOUS
<1>1. /\ UNCHANGED <<phase, call, claim, flushing, rec, mode, run, residue, drain, pass>>
      /\ UNCHANGED <<callVars, outbox, ledger, rows, flying>>
    BY DEF vars, callVars, lifeVars, passVars, fileVars, netVars
<1>2. BaseInv'
    BY BaseStep DEF ChainInv
<1>3. QuietInv'
    BY <1>1 DEF ChainInv, QuietInv, Live
<1>4. Idles
    BY <1>1, QueueStays, ReloadFacts DEF Idles, Live
<1>5. OrderInv'
    BY <1>4, OrderIdles DEF ChainInv
<1>6. LinkInv'
    <2>1. Known' = Known
        BY <1>4 DEF Idles, Known, Spooled
    <2>. QED
        BY <1>4, <2>1, LinkShrinks DEF Idles, ChainInv
<1>7. ProductionOrder'
    <2>1. Pipeline' = Pipeline
        BY <1>1 DEF Pipeline
    <2>. QED
        BY <1>1, <2>1, ProductionParts, ProductionPartsNext DEF ChainInv
<1>. QED
    BY <1>2, <1>3, <1>5, <1>6, <1>7 DEF ChainInv

LEMMA ChainStep == ChainInv /\ [Next]_vars => ChainInv'
<1> SUFFICES ASSUME ChainInv, Next PROVE ChainInv'
    BY ChainStutter
<1>1. BaseInv /\ QuietInv /\ LinkInv /\ OrderInv /\ ProductionOrder
    BY DEF ChainInv
<1>2. BaseInv' /\ QuietInv'
    BY <1>1, BaseStep, QuietStep
<1>3. LinkInv' /\ OrderInv'
    BY <1>1, LinkStep, OrderStep
<1>4. ProductionOrder'
    BY <1>1, <1>2, ProductionStep
<1>. QED
    BY <1>2, <1>3, <1>4 DEF ChainInv

\* What the recorder, the outbox and the receiver hold is one ordered chain, the
\* invariant behind ChainIsOneLine.
THEOREM ChainAlways == Quiesced /\ Spec => []ChainInv
BY InitChain, ChainStep, PTL DEF Spec

\* Where the server answers its calls before it stops: EvidenceRecorder never
\* loses, exchanges or forks a segment, through concurrent flushes, refused and
\* torn writes, crashes, restarts and a rebuilt host, for any number of them.
THEOREM ChainStaysOneLine == Quiesced /\ Spec => []ChainIsOneLine
<1>1. ChainInv => ChainIsOneLine
    <2> SUFFICES ASSUME ChainInv PROVE ChainNeverForks
        BY DEF ChainInv, ChainIsOneLine
    <2>1. Spooled \cup Range(rows) \subseteq Known
        BY DEF Known
    <2>. QED
        BY <2>1 DEF ChainInv, LinkInv, ChainNeverForks
<1>. QED
    BY <1>1, ChainAlways, PTL

----------------------------------------------------------------------------
(* Delivery *)

LEMMA LandedIndex ==
    ASSUME BaseInv
    PROVE  /\ rows \in Seq(SegRecord) /\ Len(rows) \in Nat
           /\ \A x : x \in Landed <=> \E i \in 1..Len(rows) : rows[i].id = x
           /\ \A i \in 1..Len(rows) : rows[i] \in Range(rows) /\ rows[i].id \in Ids /\ rows[i] \in Known
<1>1. rows \in Seq(SegRecord) /\ Len(rows) \in Nat
    BY DEF BaseInv, EvTypeOK
<1>2. \A x : x \in Range(rows) <=> \E i \in 1..Len(rows) : rows[i] = x
    BY <1>1, RangeIndex, Zenon
<1>3. \A x : x \in Landed <=> \E i \in 1..Len(rows) : rows[i].id = x
    BY <1>2, Zenon DEF Landed
<1>4. \A i \in 1..Len(rows) : rows[i] \in Range(rows)
    BY <1>2, Zenon
<1>. QED
    BY <1>1, <1>3, <1>4, KnownType

\* At or below the receiver's mark a spooled segment has landed.
LEMMA CoveredHasLanded ==
    ASSUME BaseInv, RunsLandInOrder, NEW s \in Spooled, Covered(s.id)
    PROVE  s.id \in Landed
<1>1. PICK x \in Landed : SameRun(x, s.id) /\ s.id[2] <= x[2]
    BY DEF Covered
<1>2. PICK i \in 1..Len(rows) : rows[i].id = x
    BY LandedIndex
<1>3. x \in Ids /\ s.id \in Ids
    BY <1>2, LandedIndex, KnownType
<1>4. CASE s.id[2] = x[2]
    <2>1. s.id = x
        BY <1>1, <1>3, <1>4 DEF SameRun, Ids
    <2>. QED
        BY <2>1
<1>5. CASE s.id[2] # x[2]
    <2>1. SameRun(s.id, rows[i].id) /\ s.id[2] < rows[i].id[2]
        BY <1>1, <1>2, <1>3, <1>5 DEF SameRun, Ids
    <2>2. PICK j \in 1..i - 1 : rows[j].id = s.id
        BY <2>1 DEF RunsLandInOrder
    <2>3. j \in 1..Len(rows)
        BY LandedIndex
    <2>. QED
        BY <2>2, <2>3, LandedIndex
<1>. QED
    BY <1>4, <1>5

LEMMA RowLands ==
    ASSUME BaseInv, RunsLandInOrder, NEW s \in Spooled, outbox' = outbox, rows' \in {rows, Inserted(s)},
           \A t \in Spooled : SameRun(t.id, s.id) /\ t.id[2] < s.id[2] => t.id \in Landed
    PROVE  /\ RunsLandInOrder' /\ Landed \subseteq Landed' /\ Spooled' = Spooled
           /\ rows' = Inserted(s) => s.id \in Landed'
<1>1. s \in SegRecord /\ s \in Known
    BY KnownType
<1>2. Spooled' = Spooled
    BY DEF Spooled
<1>3. rows \in Seq(SegRecord) /\ Len(rows) \in Nat /\ \A x : x \in Landed <=> \E i \in 1..Len(rows) : rows[i].id = x
    BY LandedIndex
<1>4. CASE rows' = rows
    <2>1. RunsLandInOrder' /\ Landed' = Landed
        BY <1>2, <1>4 DEF RunsLandInOrder, Landed
    <2>2. Inserted(s) = rows => s.id \in Landed
        <3>1. (Inserted(s) = rows /\ s.id \in Landed) \/ Inserted(s) = Append(rows, s)
            BY <1>1, <1>3, InsertedEffect
        <3>2. Len(Append(rows, s)) # Len(rows)
            BY <1>1, <1>3, AppendIndex
        <3>. QED
            BY <3>1, <3>2
    <2>. QED
        BY <1>2, <1>4, <2>1, <2>2
<1>5. CASE rows' = Append(rows, s) /\ Range(rows') = Range(rows) \cup {s} /\ s.id \notin Landed
    <2>1. Landed' = Landed \cup {s.id}
        BY <1>5 DEF Landed
    <2>2. PICK w \in Seq(SegRecord) :
              /\ w = rows' /\ Len(w) = Len(rows) + 1 /\ w[Len(rows) + 1] = s
              /\ \A i \in 1..Len(rows) : w[i] = rows[i]
        BY <1>1, <1>3, <1>5, AppendIndex, SMTT(40)
    <2>3. ASSUME NEW i \in 1..Len(w)
          PROVE  /\ \A j \in 1..i - 1 : w[j].id # w[i].id
                 /\ \A t \in Spooled : SameRun(t.id, w[i].id) /\ t.id[2] < w[i].id[2] =>
                       \E j \in 1..i - 1 : w[j].id = t.id
        <3>1. CASE i \in 1..Len(rows)
            <4>1. w[i] = rows[i] /\ \A j \in 1..i - 1 : w[j] = rows[j]
                BY <1>3, <2>2, <3>1
            <4>2. /\ \A j \in 1..i - 1 : rows[j].id # rows[i].id
                  /\ \A t \in Spooled : SameRun(t.id, rows[i].id) /\ t.id[2] < rows[i].id[2] =>
                       \E j \in 1..i - 1 : rows[j].id = t.id
                BY <3>1 DEF RunsLandInOrder
            <4>. QED
                BY <4>1, <4>2
        <3>2. CASE i = Len(rows) + 1
            <4>1. w[i] = s /\ i - 1 = Len(rows) /\ \A j \in 1..i - 1 : w[j] = rows[j]
                BY <1>3, <2>2, <3>2
            <4>2. \A j \in 1..i - 1 : w[j].id # s.id
                BY <1>3, <1>5, <4>1
            <4>3. ASSUME NEW t \in Spooled, SameRun(t.id, s.id), t.id[2] < s.id[2]
                  PROVE  \E j \in 1..i - 1 : w[j].id = t.id
                <5>1. PICK j \in 1..Len(rows) : rows[j].id = t.id
                    BY <1>3, <4>3
                <5>. QED
                    BY <4>1, <5>1
            <4>. QED
                BY <4>1, <4>2, <4>3
        <3>. QED
            BY <1>3, <2>2, <3>1, <3>2
    <2>4. RunsLandInOrder'
        BY <1>2, <2>2, <2>3 DEF RunsLandInOrder
    <2>. QED
        BY <1>2, <2>1, <2>4
<1>. QED
    BY <1>1, <1>4, <1>5, LandsEffect

LEMMA DeliverKeeps ==
    ASSUME ChainInv, WaitInv, DeliveryIsOrdered, Deliver
    PROVE  WaitInv' /\ DeliveryIsOrdered'
<1>1. BaseInv /\ OrderInv /\ RunsLandInOrder /\ ledger \subseteq Landed
    BY DEF ChainInv, DeliveryIsOrdered, DeliveredHasLanded
<1>2. PICK s \in Turn : s \in Spooled /\ Attempted(s)
    BY <1>1, DeliverShape
<1>3. s \in pass.todo /\ \A t \in pass.todo : SameRun(t.id, s.id) => s.id[2] <= t.id[2]
    BY TurnEffect
<1>4. /\ outbox' = outbox /\ rows' \in {rows, Inserted(s)} /\ flying' \subseteq flying \cup {s}
    BY <1>2 DEF Attempted
<1>5. \A t \in Spooled : SameRun(t.id, s.id) /\ t.id[2] < s.id[2] => t.id \in Landed
    <2>1. \A t \in Spooled : t.id[2] \in Nat
        BY <1>1, KnownType DEF Ids
    <2>. QED
        BY <1>2, <1>3, <2>1 DEF WaitInv
<1>6. RunsLandInOrder' /\ Landed \subseteq Landed' /\ Spooled' = Spooled /\ (rows' = Inserted(s) => s.id \in Landed')
    BY <1>1, <1>2, <1>4, <1>5, RowLands
<1>7. ledger' \subseteq Landed' /\ (s \in pass'.todo \/ s.id \in Landed' \/ \A t \in pass'.todo : ~SameRun(t.id, s.id))
    <2>1. CASE /\ ledger' = ledger \cup {s.id}
               /\ rows' = Inserted(s) \/ (rows' = rows /\ Covered(s.id))
        <3>1. s.id \in Landed'
            BY <1>1, <1>2, <1>6, <2>1, CoveredHasLanded
        <3>. QED
            BY <1>1, <1>6, <2>1, <3>1
    <2>2. CASE /\ ledger' \subseteq ledger
               /\ pass'.todo \in {{}, {t \in pass.todo : ~SameRun(t.id, s.id)}, pass.todo}
        BY <1>1, <1>3, <1>6, <2>2
    <2>. QED
        BY <1>2, <2>1, <2>2 DEF Attempted
<1>8. /\ pass'.todo \subseteq pass.todo
      /\ \A t \in pass.todo \ pass'.todo : t = s \/ pass'.todo = {} \/ (SameRun(t.id, s.id) /\ (\A u \in pass'.todo : ~SameRun(u.id, s.id)))
    BY <1>2 DEF Attempted
<1>9. ASSUME NEW u \in pass'.todo, NEW t \in Spooled, SameRun(t.id, u.id), t.id[2] < u.id[2]
      PROVE  t \in pass'.todo \/ t.id \in Landed'
    <2>1. t \in pass.todo \/ t.id \in Landed
        BY <1>8, <1>9 DEF WaitInv
    <2>2. CASE t \in pass.todo /\ t \notin pass'.todo
        BY <1>3, <1>7, <1>8, <1>9, <2>2 DEF SameRun
    <2>. QED
        BY <1>6, <2>1, <2>2
<1>10. ASSUME NEW u \in flying', NEW t \in Spooled, SameRun(t.id, u.id), t.id[2] < u.id[2]
       PROVE  t.id \in Landed'
    BY <1>4, <1>5, <1>6, <1>10 DEF WaitInv
<1>. QED
    BY <1>6, <1>7, <1>9, <1>10 DEF WaitInv, DeliveryIsOrdered, DeliveredHasLanded

LEMMA LateKeeps ==
    ASSUME ChainInv, WaitInv, DeliveryIsOrdered, NEW s \in flying, LateLanding(s)
    PROVE  WaitInv' /\ DeliveryIsOrdered'
<1>1. BaseInv /\ OrderInv /\ RunsLandInOrder /\ ledger \subseteq Landed
    BY DEF ChainInv, DeliveryIsOrdered, DeliveredHasLanded
<1>2. s \in Spooled
    BY <1>1 DEF OrderInv
<1>3. UNCHANGED <<outbox, ledger, pass>> /\ rows' \in {rows, Inserted(s)} /\ flying' \subseteq flying
    BY DEF LateLanding, passVars, fileVars
<1>4. \A t \in Spooled : SameRun(t.id, s.id) /\ t.id[2] < s.id[2] => t.id \in Landed
    BY DEF WaitInv
<1>5. RunsLandInOrder' /\ Landed \subseteq Landed' /\ Spooled' = Spooled
    BY <1>1, <1>2, <1>3, <1>4, RowLands
<1>. QED
    BY <1>1, <1>3, <1>5 DEF WaitInv, DeliveryIsOrdered, DeliveredHasLanded

\* Steps that neither write nor deliver.
LEMMA StillKeeps ==
    ASSUME WaitInv, DeliveryIsOrdered, UNCHANGED <<outbox, rows, flying>>, Reload, ledger' \subseteq ledger
    PROVE  WaitInv' /\ DeliveryIsOrdered'
<1>1. Spooled' = Spooled /\ Landed' = Landed
    BY DEF Spooled, Landed
<1>2. ledger \subseteq Landed
    BY DEF DeliveryIsOrdered, DeliveredHasLanded
<1>3. WaitInv'
    BY <1>1, <1>2 DEF WaitInv, Reload
<1>4. RunsLandInOrder'
    BY <1>1 DEF DeliveryIsOrdered, RunsLandInOrder
<1>. QED
    BY <1>1, <1>2, <1>3, <1>4 DEF DeliveryIsOrdered, DeliveredHasLanded

\* What is written comes after all that was spooled or landed of its run.
LEMMA WriteKeeps ==
    ASSUME ChainInv, WaitInv, DeliveryIsOrdered, Writes
    PROVE  WaitInv' /\ DeliveryIsOrdered'
<1>1. BaseInv /\ OrderInv /\ RunsLandInOrder /\ ledger \subseteq Landed
    BY DEF ChainInv, DeliveryIsOrdered, DeliveredHasLanded
<1>2. PICK h : h = Head(Queue)
    OBVIOUS
<1>3. h \in SegRecord /\ h \in Range(Queue) /\ Spooled \subseteq Spooled' /\ Spooled' \subseteq Spooled \cup {h}
    BY <1>1, <1>2, WritesEffect
<1>4. UNCHANGED <<rows, flying>> /\ Landed' = Landed /\ pass'.todo = pass.todo /\ ledger' \subseteq ledger /\ Live
    BY DEF Writes, Landed
<1>5. h.id \in Ids /\ h.id[1] = run /\ run \in Nat
    BY <1>1, <1>3, KnownType DEF OrderInv
<1>6. ASSUME NEW u \in Spooled PROVE ~(SameRun(h.id, u.id) /\ h.id[2] < u.id[2])
    <2>1. u = h \/ Before(u.id, h.id)
        BY <1>1, <1>3 DEF OrderInv
    <2>2. u.id \in Ids
        BY <1>1, KnownType
    <2>. QED
        BY <1>5, <2>1, <2>2 DEF Before, SameRun, Ids
<1>7. ASSUME NEW u \in Range(rows) PROVE ~(SameRun(h.id, u.id) /\ h.id[2] < u.id[2])
    <2>1. CASE u \in Spooled
        BY <1>6, <2>1
    <2>2. CASE u \notin Spooled
        <3>1. u.id[1] < run /\ u.id \in Ids
            BY <1>1, <1>4, <2>2, KnownType DEF OrderInv
        <3>. QED
            BY <1>5, <3>1 DEF SameRun, Ids
    <2>. QED
        BY <2>1, <2>2
<1>8. WaitInv'
    <2>1. pass.todo \subseteq Spooled /\ flying \subseteq Spooled
        BY <1>1 DEF OrderInv
    <2>. QED
        BY <1>3, <1>4, <1>6, <2>1 DEF WaitInv
<1>9. RunsLandInOrder'
    <2>1. \A i \in 1..Len(rows) : rows[i] \in Range(rows)
        BY <1>1, LandedIndex
    <2>. QED
        BY <1>1, <1>3, <1>4, <1>7, <2>1 DEF RunsLandInOrder
<1>. QED
    BY <1>1, <1>4, <1>8, <1>9 DEF DeliveryIsOrdered, DeliveredHasLanded

LEMMA RebuildKeeps ==
    ASSUME ChainInv, WaitInv, DeliveryIsOrdered, Rebuild
    PROVE  WaitInv' /\ DeliveryIsOrdered'
<1>1. outbox' = <<>> /\ ledger' = {} /\ flying = {} /\ mode = "down" /\ UNCHANGED <<passVars, netVars>>
    BY RebuildEffect DEF ChainInv
<1>2. Spooled' = {} /\ pass'.todo = {} /\ flying' = {} /\ rows' = rows
    BY <1>1, RangeEmpty DEF Spooled, passVars, netVars, ChainInv, QuietInv
<1>3. WaitInv'
    BY <1>2 DEF WaitInv
<1>4. RunsLandInOrder'
    BY <1>2 DEF DeliveryIsOrdered, RunsLandInOrder
<1>. QED
    BY <1>1, <1>3, <1>4 DEF DeliveryIsOrdered, DeliveredHasLanded

LEMMA InitDelivery == Quiesced /\ Init => DeliveryInv
<1> SUFFICES ASSUME Quiesced, Init PROVE DeliveryInv
    OBVIOUS
<1>1. ChainInv
    BY InitChain
<1>2. outbox = <<>> /\ rows = <<>> /\ flying = {} /\ pass = NoPass /\ ledger = {}
    BY DEF Init
<1>3. Spooled = {} /\ pass.todo = {} /\ Len(rows) = 0
    BY <1>2, RangeEmpty, NoPassType DEF Spooled
<1>. QED
    BY <1>1, <1>2, <1>3 DEF DeliveryInv, WaitInv, DeliveryIsOrdered, RunsLandInOrder, DeliveredHasLanded

LEMMA DeliveryStep == DeliveryInv /\ [Next]_vars => DeliveryInv'
<1> SUFFICES ASSUME DeliveryInv, [Next]_vars PROVE WaitInv' /\ DeliveryIsOrdered'
    BY ChainStep DEF DeliveryInv
<1>1. ChainInv /\ WaitInv /\ DeliveryIsOrdered /\ BaseInv /\ QuietInv
    BY DEF DeliveryInv, ChainInv
<1>2. CASE UNCHANGED vars
    <2>1. UNCHANGED <<outbox, rows, flying, pass, ledger>>
        BY <1>2 DEF vars, passVars, fileVars, netVars
    <2>. QED
        BY <1>1, <2>1, ReloadFacts, StillKeeps
<1>3. CASE Idles \/ Closes
    BY <1>1, <1>3, StillKeeps DEF Idles, Closes
<1>4. CASE Ends
    BY <1>1, <1>4, StillKeeps DEF Ends, Reload
<1>5. CASE StartUp
    <2>1. pass' = NoPass /\ UNCHANGED <<outbox, ledger, rows, flying>>
        BY <1>1, <1>5, StartUpEffect DEF fileVars, netVars
    <2>. QED
        BY <1>1, <2>1, ReloadFacts, StillKeeps
<1>. QED
    BY <1>1, <1>2, <1>3, <1>4, <1>5, StepKinds, WriteKeeps, RebuildKeeps, DeliverKeeps, LateKeeps

\* Where the server answers its calls before it stops: the SSDF receiver never holds
\* a segment before an older spooled one of its run, never holds one twice, and the
\* delivery ledger never claims one it lacks, through lost acknowledgements, late
\* inserts, blocked runs and restarts, for any number of them.
THEOREM DeliveryStaysOrdered == Quiesced /\ Spec => []DeliveryIsOrdered
<1>1. DeliveryInv => DeliveryIsOrdered
    BY DEF DeliveryInv
<1>. QED
    BY <1>1, InitDelivery, DeliveryStep, PTL DEF Spec

----------------------------------------------------------------------------
(* The intent is on disk before the device is touched *)

\* The intent is in the open segment, in the queue or on disk.
Holds(ch) == ch \in rec.intents \/ \E s \in Spooled \cup Range(Queue) : ch \in s.intents

DurableStep ==
    \A ch \in Changes : phase[ch] = "approved" /\ phase'[ch] = "touched" =>
        /\ Loadable(outbox')
        /\ \E i \in 1..Len(outbox') : ch \in outbox'[i].intents

DurableInv == BaseInv /\ QuietInv /\ IntentInv

LEMMA WholeWrite ==
    ASSUME outbox \in Seq(Lines), Loadable(outbox), NEW h \in SegRecord, outbox' \in {outbox, Write(outbox, h)}
    PROVE  /\ Loadable(outbox') /\ Spooled \subseteq Spooled'
           /\ outbox' = Write(outbox, h) => Spooled' = Spooled \cup {h}
<1>1. h \in Lines
    BY DEF Lines
<1>2. Write(outbox, h) = Append(outbox, h)
    BY <1>1, WriteEffect
<1>3. Segs(Append(outbox, h)) = Segs(outbox) \cup {h} /\ Loadable(Append(outbox, h))
    BY <1>1, SegsOfAppend
<1>4. Spooled = Segs(outbox) /\ Spooled' = Segs(outbox')
    BY DEF Spooled, Segs
<1>. QED
    BY <1>2, <1>3, <1>4

\* A step after which no call is under way owes no intent.
LEMMA NothingOwed ==
    ASSUME \A ch \in Changes : call'[ch] = "idle", Loadable(outbox')
    PROVE  IntentInv'
BY DEF IntentInv

\* Steps that leave the calls and the segments where they are.
LEMMA OwedAsBefore ==
    ASSUME IntentInv, UNCHANGED <<callVars, rec, residue, outbox>>
    PROVE  IntentInv' /\ DurableStep
<1>1. Queue' = Queue /\ Spooled' = Spooled /\ UNCHANGED <<phase, call, claim>>
    BY QueueStays DEF Spooled, callVars
<1>2. IntentInv'
    BY <1>1 DEF IntentInv
<1>. QED
    BY <1>1, <1>2 DEF DurableStep

\* A record keeps what is held and adds its own intent.
LEMMA RecordHolds ==
    ASSUME BaseInv, QuietInv, NEW I, Extended(rec, rec', I), Serving,
           UNCHANGED <<claim, flushing, lifeVars, fileVars>>
    PROVE  /\ \A d \in Changes : Holds(d) \/ d \in I => Holds(d)'
           /\ outbox' = outbox /\ Spooled' = Spooled
<1>1. residue = <<>> /\ residue' = <<>>
    BY QuietFacts DEF QuietInv, lifeVars
<1>2. PICK a : a = rec'
    OBVIOUS
<1>3. Queue = Claimed \o rec.closed
    BY <1>1, QueueParts, QueueForms DEF Queue
<1>4. Claimed' = Claimed
    BY DEF Claimed
<1>5. a.closed \in Seq(SegRecord)
    BY <1>2 DEF Extended, RecRecord
<1>6. Queue' = Claimed \o a.closed
    <2>1. Queue' = Claimed \o <<>> \o a.closed
        BY <1>1, <1>2, <1>4 DEF Queue
    <2>. QED
        BY <1>5, <2>1, QueueParts, QueueForms
<1>7. outbox' = outbox /\ Spooled' = Spooled
    BY DEF Spooled, fileVars
<1>8. CASE a.closed = rec.closed /\ a.intents = rec.intents \cup I
    <2>1. Queue' = Queue
        BY <1>3, <1>6, <1>8
    <2>. QED
        BY <1>2, <1>7, <1>8, <2>1 DEF Holds
<1>9. ASSUME NEW n \in SegRecord, a.closed = Append(rec.closed, n), n.intents = rec.intents \cup I
      PROVE  \A d \in Changes : Holds(d) \/ d \in I => Holds(d)'
    <2>1. Queue' = Append(Queue, n)
        BY <1>3, <1>6, <1>9, QueueParts, QueueForms, SMTT(40)
    <2>2. Range(Queue') = Range(Queue) \cup {n}
        BY <2>1, QueueParts, RangeAppend
    <2>. QED
        BY <1>7, <1>9, <2>2 DEF Holds
<1>. QED
    BY <1>2, <1>7, <1>8, <1>9 DEF Extended

LEMMA RecorderOwes ==
    ASSUME DurableInv, NEW ch \in Changes, Recorder(ch)
    PROVE  IntentInv' /\ DurableStep
<1>1. BaseInv /\ QuietInv /\ IntentInv
    BY DEF DurableInv
<1>2. /\ \E I : Extended(rec, rec', I) /\ (ApplyIntent(ch) => I = {ch})
      /\ Serving /\ UNCHANGED <<claim, flushing, lifeVars, fileVars>>
    <2>1. CASE ApplyIntent(ch)
        BY <1>1, <2>1, ApplyIntentEffect
    <2>2. CASE ~ApplyIntent(ch)
        BY <1>1, <2>2, ProposalEffect, ApprovalEffect, ResultReceiptEffect, Zenon DEF Recorder
    <2>. QED
        BY <2>1, <2>2
<1>3. PICK I : Extended(rec, rec', I) /\ (ApplyIntent(ch) => I = {ch})
    BY <1>2
<1>4. /\ \A d \in Changes : Holds(d) \/ d \in I => Holds(d)'
      /\ outbox' = outbox /\ Spooled' = Spooled /\ claim' = claim
    BY <1>1, <1>2, <1>3, RecordHolds
<1>5. /\ phase \in [Changes -> Phases] /\ call \in [Changes -> {"idle", "flush", "spool"}]
    BY <1>1 DEF BaseInv, EvTypeOK
<1>6. \A d \in Changes : phase'[d] = "touched" => phase[d] = "touched"
    <2>1. CASE Proposal(ch)
        BY <1>1, <2>1, ProposalEffect
    <2>2. ASSUME NEW verdict \in {"approved", "rejected"}, Approval(ch, verdict)
          PROVE  \A d \in Changes : phase'[d] = "touched" => phase[d] = "touched"
        <3>1. phase' = [phase EXCEPT ![ch] = verdict]
            BY <1>1, <2>2, ApprovalEffect
        <3>. QED
            BY <1>5, <3>1
    <2>3. CASE ApplyIntent(ch) \/ ResultReceipt(ch)
        BY <1>1, <2>3, ApplyIntentEffect, ResultReceiptEffect
    <2>. QED
        BY <2>1, <2>2, <2>3 DEF Recorder
<1>7. \A d \in Changes : call'[d] # "idle" =>
          \/ phase'[d] = phase[d] /\ call'[d] = call[d]
          \/ d = ch /\ call'[d] = "flush" /\ phase'[d] = phase[d] /\ phase[d] \in {"approved", "touched"}
             /\ (phase[d] = "approved" => ApplyIntent(ch))
    <2>1. CASE Proposal(ch)
        <3>1. phase[ch] = "new" /\ phase' = [phase EXCEPT ![ch] = "proposed"] /\ call' = call
            BY <2>1 DEF Proposal
        <3>2. call[ch] = "idle"
            BY <1>1, <1>5, <3>1 DEF IntentInv
        <3>. QED
            BY <1>5, <3>1, <3>2
    <2>2. ASSUME NEW verdict \in {"approved", "rejected"}, Approval(ch, verdict)
          PROVE  \A d \in Changes : call'[d] # "idle" => phase'[d] = phase[d] /\ call'[d] = call[d]
        <3>1. phase[ch] = "proposed" /\ phase' = [phase EXCEPT ![ch] = verdict] /\ call' = call
            BY <1>1, <2>2, ApprovalEffect
        <3>2. call[ch] = "idle"
            BY <1>1, <1>5, <3>1 DEF IntentInv
        <3>. QED
            BY <1>5, <3>1, <3>2
    <2>3. CASE ApplyIntent(ch)
        <3>1. phase[ch] = "approved" /\ phase' = phase /\ call' = [call EXCEPT ![ch] = "flush"]
            BY <1>1, <2>3, ApplyIntentEffect
        <3>. QED
            BY <1>5, <2>3, <3>1
    <2>4. CASE ResultReceipt(ch)
        <3>1. phase[ch] = "touched" /\ phase' = phase /\ call' = [call EXCEPT ![ch] = "flush"]
            BY <1>1, <2>4, ResultReceiptEffect
        <3>. QED
            BY <1>5, <3>1
    <2>. QED
        BY <2>1, <2>2, <2>3, <2>4 DEF Recorder
<1>8. \A d \in Changes : phase'[d] = "approved" /\ call'[d] = "flush" => Holds(d)'
    BY <1>1, <1>3, <1>4, <1>7 DEF IntentInv, Holds
<1>9. \A d \in Changes : phase'[d] = "approved" /\ call'[d] = "spool" =>
          \E s \in Spooled' \cup Range(claim'[d]) : d \in s.intents
    BY <1>1, <1>4, <1>7 DEF IntentInv
<1>10. Loadable(outbox') /\ \A d \in Changes : call'[d] # "idle" => phase'[d] \in {"approved", "touched"}
    BY <1>1, <1>4, <1>7 DEF IntentInv
<1>. QED
    BY <1>6, <1>8, <1>9, <1>10 DEF IntentInv, Holds, DurableStep

\* What the answer of a flush makes of the change.
LEMMA ReturnedOwes ==
    ASSUME BaseInv, NEW ch \in Changes, NEW ok \in BOOLEAN, Returns(ch, ok)
    PROVE  /\ \A d \in Changes : d # ch => phase'[d] = phase[d] /\ call'[d] = call[d]
           /\ call'[ch] = "idle" /\ (phase'[ch] = "touched" => ok)
<1>1. /\ call' = [call EXCEPT ![ch] = "idle"] /\ phase' = [phase EXCEPT ![ch] = Answered(ch, ok)]
    BY DEF Returns
<1>2. Answered(ch, ok) = "touched" => ok
    BY DEF Answered
<1>. QED
    BY <1>1, <1>2 DEF BaseInv, EvTypeOK

\* Every other call keeps what it is owed when the queue and the disk do.
LEMMA OthersOwed ==
    ASSUME BaseInv, IntentInv, NEW ch \in Changes, flushing \in {NoOne, ch}, Loadable(outbox'),
           \A d \in Changes : d # ch => phase'[d] = phase[d] /\ call'[d] = call[d],
           \A d \in Changes : Holds(d) => Holds(d)',
           call'[ch] # "idle" => phase'[ch] \in {"approved", "touched"},
           call'[ch] # "flush",
           phase'[ch] = "approved" /\ call'[ch] = "spool" =>
               \E s \in Spooled' \cup Range(claim'[ch]) : ch \in s.intents
    PROVE  IntentInv'
<1>1. \A d \in Changes : d # ch => call[d] # "spool"
    BY NoOneAssumption DEF BaseInv, HoldInv, NoOneAssumption
<1>2. \A d \in Changes : phase'[d] = "approved" /\ call'[d] = "flush" => Holds(d)'
    BY DEF IntentInv, Holds
<1>3. \A d \in Changes : phase'[d] = "approved" /\ call'[d] = "spool" =>
          \E s \in Spooled' \cup Range(claim'[d]) : d \in s.intents
    BY <1>1
<1>4. \A d \in Changes : call'[d] # "idle" => phase'[d] \in {"approved", "touched"}
    BY DEF IntentInv
<1>. QED
    BY <1>2, <1>3, <1>4 DEF IntentInv, Holds

\* A segment on a disk that loads is one of its lines.
LEMMA OnDisk ==
    ASSUME BaseInv', NEW ch \in Changes, \E s \in Spooled' : ch \in s.intents
    PROVE  \E i \in 1..Len(outbox') : ch \in outbox'[i].intents
<1>1. outbox' \in Seq(Lines)
    BY DEF BaseInv, EvTypeOK
<1>2. PICK s \in Spooled' : ch \in s.intents
    OBVIOUS
<1>3. s \in Range(outbox')
    BY <1>2 DEF Spooled
<1>4. \E i \in 1..Len(outbox') : outbox'[i] = s
    BY <1>1, <1>3, RangeIndex
<1>. QED
    BY <1>2, <1>4

LEMMA FlushClaimOwes ==
    ASSUME DurableInv, NEW ch \in Changes, FlushClaim(ch)
    PROVE  IntentInv' /\ DurableStep
<1>1. BaseInv /\ QuietInv /\ IntentInv /\ BaseInv'
    BY FlushClaimEffect DEF DurableInv
<1>2. /\ call[ch] = "flush" /\ flushing = NoOne /\ UNCHANGED <<lifeVars, fileVars>>
      /\ \E X \in Seq(SegRecord) : Taken(rec, rec', X) /\ Answers(ch, TRUE, X)
    BY <1>1, FlushClaimEffect
<1>3. PICK X \in Seq(SegRecord) : Taken(rec, rec', X) /\ Answers(ch, TRUE, X)
    BY <1>2
<1>4. PICK a : a = rec'
    OBVIOUS
<1>5. residue = <<>> /\ residue' = <<>>
    BY <1>1, <1>2, QuietFacts DEF QuietInv, lifeVars
<1>6. Queue = rec.closed /\ rec.closed \in Seq(SegRecord)
    <2>1. Claimed = <<>>
        BY <1>2 DEF Claimed
    <2>. QED
        BY <1>1, <1>5, <2>1, QueueParts, QueueForms DEF Queue
<1>7. Claimed' = X /\ (X # <<>> => claim'[ch] = X)
    <2>1. claim'[ch] = X
        BY <1>1, <1>3 DEF Answers, BaseInv, EvTypeOK
    <2>2. ch # NoOne
        BY NoOneAssumption DEF NoOneAssumption
    <2>. QED
        BY <1>3, <2>1, <2>2 DEF Answers, Returns, Claimed
<1>8. Queue' = X
    <2>1. Queue' = X \o <<>> \o <<>>
        BY <1>3, <1>5, <1>7 DEF Queue, Taken
    <2>. QED
        BY <2>1, QueueForms
<1>9. outbox' = outbox /\ Spooled' = Spooled /\ Loadable(outbox)
    BY <1>1, <1>2 DEF Spooled, fileVars, IntentInv
<1>10. \A d \in Changes : Holds(d) => \E s \in Spooled \cup Range(X) : d \in s.intents
    <2>1. CASE X = rec.closed /\ rec.intents = {}
        BY <1>6, <2>1 DEF Holds
    <2>2. ASSUME NEW n \in SegRecord, X = Append(rec.closed, n), n.intents = rec.intents
          PROVE  \A d \in Changes : Holds(d) => \E s \in Spooled \cup Range(X) : d \in s.intents
        <3>1. Range(X) = Range(Queue) \cup {n}
            BY <1>6, <2>2, RangeAppend
        <3>. QED
            BY <2>2, <3>1 DEF Holds
    <2>. QED
        BY <1>3, <2>1, <2>2 DEF Taken
<1>11. \A d \in Changes : Holds(d) => Holds(d)'
    BY <1>8, <1>9, <1>10 DEF Holds
<1>12. phase[ch] = "approved" => \E s \in Spooled \cup Range(X) : ch \in s.intents
    BY <1>1, <1>2, <1>10 DEF IntentInv, Holds
<1>13. CASE X = <<>>
    <2>1. Returns(ch, TRUE) /\ TRUE \in BOOLEAN
        BY <1>3, <1>13 DEF Answers
    <2>2. /\ \A d \in Changes : d # ch => phase'[d] = phase[d] /\ call'[d] = call[d]
          /\ call'[ch] = "idle"
        BY <1>1, <2>1, ReturnedOwes
    <2>3. IntentInv'
        BY <1>1, <1>2, <1>9, <1>11, <2>2, OthersOwed
    <2>4. phase[ch] = "approved" => \E s \in Spooled' : ch \in s.intents
        BY <1>9, <1>12, <1>13, RangeEmpty
    <2>5. DurableStep
        BY <1>1, <1>9, <2>2, <2>4, OnDisk DEF DurableStep
    <2>. QED
        BY <2>3, <2>5
<1>14. CASE X # <<>>
    <2>1. phase' = phase /\ call' = [call EXCEPT ![ch] = "spool"]
        BY <1>3, <1>14 DEF Answers
    <2>2. /\ \A d \in Changes : d # ch => phase'[d] = phase[d] /\ call'[d] = call[d]
          /\ call'[ch] = "spool" /\ phase[ch] \in {"approved", "touched"}
        BY <1>1, <1>2, <2>1 DEF BaseInv, EvTypeOK, IntentInv
    <2>3. phase'[ch] = "approved" /\ call'[ch] = "spool" =>
               \E s \in Spooled' \cup Range(claim'[ch]) : ch \in s.intents
        BY <1>7, <1>9, <1>12, <1>14, <2>1
    <2>4. IntentInv'
        BY <1>1, <1>2, <1>9, <1>11, <2>1, <2>2, <2>3, OthersOwed
    <2>. QED
        BY <2>1, <2>4 DEF DurableStep
<1>. QED
    BY <1>13, <1>14

LEMMA FlushSpoolOwes ==
    ASSUME DurableInv, NEW ch \in Changes, FlushSpool(ch)
    PROVE  IntentInv' /\ DurableStep
<1>1. BaseInv /\ QuietInv /\ IntentInv /\ BaseInv'
    BY FlushSpoolEffect DEF DurableInv
<1>2. /\ call[ch] = "spool" /\ UNCHANGED rec /\ Answers(ch, TRUE, Tail(claim[ch]))
    BY <1>1, FlushSpoolEffect
<1>3. flushing = ch /\ claim[ch] \in Seq(SegRecord) /\ claim[ch] # <<>>
    BY <1>1, <1>2, Spooling
<1>4. PICK h : h = Head(claim[ch])
    OBVIOUS
<1>5. Writes /\ outbox' = Write(outbox, h) /\ h = Head(Queue)
    BY <1>1, <1>4, FlushSpoolShape
<1>6. h \in SegRecord /\ Range(claim[ch]) = {h} \cup Range(Tail(claim[ch]))
    BY <1>3, <1>4, TailIndex, RangeTail
<1>7. Loadable(outbox') /\ Spooled' = Spooled \cup {h}
    BY <1>1, <1>5, <1>6, WholeWrite DEF BaseInv, EvTypeOK, IntentInv
<1>8. Range(Queue) \subseteq {h} \cup Range(Queue')
    <2>1. Queue \in Seq(SegRecord) /\ Queue # <<>> /\ Queue' \in {Queue, Tail(Queue)}
        BY <1>1, <1>5, QueueParts DEF Writes
    <2>2. Range(Queue) = {Head(Queue)} \cup Range(Tail(Queue))
        BY <2>1, RangeTail
    <2>. QED
        BY <1>5, <2>1, <2>2
<1>9. \A d \in Changes : Holds(d) => Holds(d)'
    BY <1>2, <1>7, <1>8 DEF Holds
<1>10. PICK X : X = Tail(claim[ch])
    OBVIOUS
<1>11. claim'[ch] = X
    BY <1>1, <1>2, <1>10 DEF Answers, BaseInv, EvTypeOK
<1>12. phase[ch] = "approved" => \E s \in Spooled' \cup Range(X) : ch \in s.intents
    BY <1>1, <1>2, <1>6, <1>7, <1>10 DEF IntentInv
<1>13. CASE X = <<>>
    <2>1. Returns(ch, TRUE) /\ TRUE \in BOOLEAN
        BY <1>2, <1>10, <1>13 DEF Answers
    <2>2. /\ \A d \in Changes : d # ch => phase'[d] = phase[d] /\ call'[d] = call[d]
          /\ call'[ch] = "idle"
        BY <1>1, <2>1, ReturnedOwes
    <2>3. IntentInv'
        BY <1>1, <1>3, <1>7, <1>9, <2>2, OthersOwed
    <2>4. phase[ch] = "approved" => \E s \in Spooled' : ch \in s.intents
        BY <1>12, <1>13, RangeEmpty
    <2>5. DurableStep
        BY <1>1, <1>7, <2>2, <2>4, OnDisk DEF DurableStep
    <2>. QED
        BY <2>3, <2>5
<1>14. CASE X # <<>>
    <2>1. phase' = phase /\ call' = [call EXCEPT ![ch] = "spool"]
        BY <1>2, <1>10, <1>14 DEF Answers
    <2>2. /\ \A d \in Changes : d # ch => phase'[d] = phase[d] /\ call'[d] = call[d]
          /\ call'[ch] = "spool" /\ phase[ch] \in {"approved", "touched"}
        BY <1>1, <1>2, <2>1 DEF BaseInv, EvTypeOK, IntentInv
    <2>3. phase'[ch] = "approved" /\ call'[ch] = "spool" =>
               \E s \in Spooled' \cup Range(claim'[ch]) : ch \in s.intents
        BY <1>11, <1>12, <2>1
    <2>4. IntentInv'
        BY <1>1, <1>3, <1>7, <1>9, <2>1, <2>2, <2>3, OthersOwed
    <2>. QED
        BY <2>1, <2>4 DEF DurableStep
<1>. QED
    BY <1>13, <1>14

LEMMA FlushRefusedOwes ==
    ASSUME DurableInv, "outbox" \notin TornFiles, NEW ch \in Changes, FlushRefused(ch)
    PROVE  IntentInv' /\ DurableStep
<1>1. BaseInv /\ QuietInv /\ IntentInv
    BY DEF DurableInv
<1>2. call[ch] = "spool" /\ rec'.intents = rec.intents /\ Answers(ch, FALSE, <<>>)
    BY <1>1, FlushRefusedEffect
<1>3. flushing = ch
    BY <1>1, <1>2, Spooling
<1>4. Writes /\ Queue' = Queue /\ outbox' \in {outbox, Write(outbox, Head(Queue))}
    BY <1>1, FlushRefusedShape
<1>5. Head(Queue) \in SegRecord
    BY <1>1, <1>4, WritesEffect
<1>6. Loadable(outbox') /\ Spooled \subseteq Spooled'
    BY <1>1, <1>4, <1>5, WholeWrite DEF BaseInv, EvTypeOK, IntentInv
<1>7. \A d \in Changes : Holds(d) => Holds(d)'
    BY <1>2, <1>4, <1>6 DEF Holds
<1>8. Returns(ch, FALSE) /\ FALSE \in BOOLEAN
    BY <1>2 DEF Answers
<1>9. /\ \A d \in Changes : d # ch => phase'[d] = phase[d] /\ call'[d] = call[d]
      /\ call'[ch] = "idle" /\ phase'[ch] # "touched"
    BY <1>1, <1>8, ReturnedOwes
<1>10. IntentInv'
    BY <1>1, <1>3, <1>6, <1>7, <1>9, OthersOwed
<1>. QED
    BY <1>9, <1>10 DEF DurableStep

LEMMA DurableActs ==
    ASSUME DurableInv, "outbox" \notin TornFiles, [Next]_vars
    PROVE  DurableInv' /\ DurableStep
<1>1. BaseInv /\ QuietInv /\ IntentInv
    BY DEF DurableInv
<1>2. BaseInv'
    BY <1>1, BaseStep
<1>3. QuietInv'
    <2>1. CASE UNCHANGED vars
        BY <1>1, <2>1 DEF QuietInv, Live, vars, callVars, lifeVars, passVars
    <2>. QED
        BY <1>1, <2>1, QuietStep
<1> SUFFICES IntentInv' /\ DurableStep
    BY <1>1, <1>2, <1>3 DEF DurableInv
<1>4. ASSUME \A ch \in Changes : call'[ch] = "idle", Loadable(outbox'),
             \A ch \in Changes : phase'[ch] = phase[ch] \/ phase'[ch] = Interrupted(ch)
      PROVE  IntentInv' /\ DurableStep
    <2>1. DurableStep
        BY <1>4 DEF DurableStep, Interrupted
    <2>. QED
        BY <1>4, <2>1, NothingOwed
<1>5. CASE UNCHANGED vars
    BY <1>1, <1>5, OwedAsBefore DEF vars, lifeVars, fileVars
<1>6. ASSUME NEW ch \in Changes, Recorder(ch) \/ Flush(ch) PROVE IntentInv' /\ DurableStep
    BY <1>6, RecorderOwes, FlushClaimOwes, FlushSpoolOwes, FlushRefusedOwes DEF Flush
<1>7. CASE Deliver
    <2>1. UNCHANGED <<callVars, rec, lifeVars, outbox>>
        BY <1>7 DEF Deliver, ReadMark, SendSegment
    <2>. QED
        BY <1>1, <2>1, OwedAsBefore DEF lifeVars
<1>8. CASE Drain
    BY <1>1, <1>8, DrainEffect, OwedAsBefore DEF lifeVars, fileVars
<1>9. CASE Start
    <2>1. UNCHANGED <<callVars, outbox>> /\ mode \in {"down", "replay"}
        BY <1>1, <1>9, OpenSinkEffect, StartUpEffect, StartRefusedEffect DEF Start, fileVars
    <2>2. (\A ch \in Changes : call'[ch] = "idle") /\ Loadable(outbox') /\ phase' = phase
        BY <1>1, <2>1 DEF BaseInv, StartInv, Live, IntentInv, callVars
    <2>. QED
        BY <1>4, <2>2
<1>10. ASSUME Crash \/ Exit \/ Dropped PROVE IntentInv' /\ DurableStep
    <2>1. Gone /\ UNCHANGED <<run, outbox, ledger, netVars>>
        BY <1>10, LeavesEffect DEF Leaves
    <2>2. \A ch \in Changes : call'[ch] = "idle" /\ phase'[ch] = Interrupted(ch)
        BY <1>1, <2>1, GoneEffect
    <2>. QED
        BY <1>1, <1>4, <2>1, <2>2 DEF IntentInv
<1>11. CASE TakeClosed \/ CloseCurrent \/ ShutdownFlush
    <2>1. UNCHANGED <<callVars, outbox>> /\ mode # "up"
        BY <1>1, <1>11, TakeClosedEffect, CloseCurrentEffect, ShutdownFlushEffect DEF fileVars
    <2>2. (\A ch \in Changes : call'[ch] = "idle") /\ Loadable(outbox') /\ phase' = phase
        BY <1>1, <2>1 DEF QuietInv, IntentInv, callVars
    <2>. QED
        BY <1>4, <2>2
<1>12. CASE SpoolResidue
    <2>1. UNCHANGED callVars /\ mode # "up"
        BY <1>1, <1>12, SpoolResidueEffect
    <2>2. Writes /\ outbox' \in {outbox, Write(outbox, Head(Queue))}
        BY <1>1, <1>12, SpoolResidueShape
    <2>3. Loadable(outbox')
        BY <1>1, <2>2, WritesEffect, WholeWrite DEF BaseInv, EvTypeOK, IntentInv
    <2>4. (\A ch \in Changes : call'[ch] = "idle") /\ phase' = phase
        BY <1>1, <2>1 DEF QuietInv, callVars
    <2>. QED
        BY <1>4, <2>3, <2>4
<1>13. ASSUME NEW how \in {"stopping", "dropping"}, SignalStop(how) PROVE IntentInv' /\ DurableStep
    BY <1>1, <1>13, SignalStopEffect, OwedAsBefore DEF fileVars
<1>14. ASSUME NEW s \in flying, LateLanding(s) PROVE IntentInv' /\ DurableStep
    BY <1>1, <1>14, OwedAsBefore DEF LateLanding, lifeVars, fileVars
<1>15. CASE Rebuild
    <2>1. mode = "down" /\ outbox' = <<>> /\ UNCHANGED callVars
        BY <1>1, <1>15, RebuildEffect
    <2>2. (\A ch \in Changes : call'[ch] = "idle") /\ Loadable(outbox') /\ phase' = phase
        BY <1>1, <2>1 DEF QuietInv, callVars, Loadable
    <2>. QED
        BY <1>4, <2>2
<1>. QED
    BY <1>5, <1>6, <1>7, <1>8, <1>9, <1>10, <1>11, <1>12, <1>13, <1>14, <1>15, Zenon DEF Next, Leave

LEMMA InitDurable == Quiesced /\ Init => DurableInv
<1> SUFFICES ASSUME Quiesced, Init PROVE IntentInv
    BY InitBase, InitQuiet DEF DurableInv
<1>1. outbox = <<>> /\ call = [ch \in Changes |-> "idle"]
    BY DEF Init
<1>. QED
    BY <1>1 DEF IntentInv, Loadable

\* Where the server answers its calls before it stops and a failed append leaves no
\* stump in the outbox: apply_intent never returns Ok, and no device is touched,
\* before a line of a readable outbox holds the intent, whoever's flush wrote it.
THEOREM IntentStaysDurable ==
    Quiesced /\ "outbox" \notin TornFiles /\ Spec => IntentDurable
<1>1. DurableInv /\ "outbox" \notin TornFiles /\ [Next]_vars => DurableInv' /\ [DurableStep]_vars
    BY DurableActs
<1>2. Quiesced /\ Init => DurableInv
    BY InitDurable
<1>3. IntentDurable <=> [][DurableStep]_vars
    BY DEF IntentDurable, DurableStep
<1>4. "outbox" \notin TornFiles => ("outbox" \notin TornFiles)'
    OBVIOUS
<1>. QED
    BY <1>1, <1>2, <1>3, <1>4, PTL DEF Spec
=============================================================================
