------------------------------ MODULE Evidence ------------------------------
(* The evidence pipeline of mecmcp-audit: the recorder that chains records    *)
(* into segments, the fsynced outbox and the delivery ledger of the SSDF      *)
(* sink, the drain thread, start-up replay, shutdown, and process death.      *)
(*                                                                            *)
(* A segment's head hash is unique to the segment, so <<run, seq>> stands for *)
(* it; the chain starts at Root.  Each change is driven by one caller at a    *)
(* time (the coordinator holds its guard), so a change is also the name of    *)
(* the thread that records it.  The disk and the receiver misbehave at most   *)
(* MaxFaults times; MaxRuns bounds the lifetimes.                              *)
EXTENDS Integers, Sequences, FiniteSets, SequencesExt, FiniteSetsExt

CONSTANTS
    Changes,            \* change sets; each is also its caller
    NoOne,              \* nobody holds the flush mutex
    RecordsPerSegment,  \* RecorderConfig::records_per_segment
    MaxTracked,         \* MAX_TRACKED_CHANGES
    MaxRuns,            \* bound: process lifetimes
    MaxFaults,          \* bound: injected faults
    TornFiles,          \* which files a failing write may leave a stump in
    Entry,              \* <<phases of the changes, faults and lifetimes spent>> at first
    Quiesced            \* the server answers every call before it shuts down

ASSUME NoOneAssumption == NoOne \notin Changes
ASSUME BoundsAssumption ==
    /\ RecordsPerSegment \in Nat \ {0}
    /\ MaxTracked \in Nat \ {0}
    /\ MaxRuns \in Nat \ {0}
    /\ MaxFaults \in Nat
    /\ TornFiles \subseteq {"outbox", "ledger"}
    /\ Quiesced \in BOOLEAN
\* A process that is down leaves no change half way through its device.
ASSUME EntryAssumption ==
    \A e \in Entry :
        /\ e[1] \in [Changes -> {"new", "proposed", "approved", "rejected", "ended"}]
        /\ e[2] \in 0..MaxFaults /\ e[3] \in 0..MaxRuns

VARIABLES
    phase,    \* phase[ch]: how far the change has come (the change store survives)
    call,     \* call[ch]: where its caller is inside flush_after_append
    claim,    \* claim[ch]: segments its flush took out of the recorder
    flushing, \* holder of EvidenceRecorder::flushing
    rec,      \* RecorderState, with the open segment as cur
    mode,     \* life of the process
    run,      \* run_id of the last recorder built
    stop,     \* the stop flag drain and shutdown share
    residue,  \* segments shutdown took out of the recorder
    drain,    \* the drain thread
    pass,     \* the delivery pass under way, whoever runs it
    outbox,   \* lines of the outbox file
    ledger,   \* segments whose latest ledger status is Delivered
    ledgerEnd,\* how the ledger file ends
    rows,     \* segments the receiver holds, in the order they landed
    flying,   \* inserts that timed out and may still land
    faults    \* faults so far

callVars == <<phase, call, claim, flushing>>
lifeVars == <<mode, run, stop, residue>>
passVars == <<drain, pass>>
fileVars == <<outbox, ledger, ledgerEnd>>
netVars == <<rows, flying>>
vars == <<callVars, rec, lifeVars, passVars, fileVars, netVars, faults>>

-----------------------------------------------------------------------------
(* Segments.                                                                 *)

Root == <<>>
Torn == [line |-> "torn"]
Garbage == [line |-> "garbage"]
\* Of a segment's records the properties read which apply intents it holds.
Segment(id, prev, intents) ==
    [line |-> "segment", id |-> id, prev |-> prev, intents |-> intents]

\* load_outbox fails on the first line that does not parse.
Loadable(lines) == \A i \in 1..Len(lines) : lines[i].line = "segment"

Spooled == {s \in Range(outbox) : s.line = "segment"}
SpooledIds == {s.id : s \in Spooled}
Landed == {s.id : s \in Range(rows)}
SameRun(x, y) == x[1] = y[1]

NoRecorder == [cur |-> 0, intents |-> {}, prev |-> Root, next |-> 1, closed |-> <<>>,
               ctx |-> {}, order |-> <<>>]

\* A recorder at the start of a run, continuing from head.
NewRecorder(head) == [NoRecorder EXCEPT !.prev = head]

\* roll: close the open segment unless it is empty, link the next one to it.
Rolled(r) ==
    IF r.cur = 0 THEN r
    ELSE [r EXCEPT !.cur = 0, !.intents = {}, !.prev = <<run, r.next - 1>>, !.next = @ + 1]

\* The segment roll hands back, as a sequence of at most one.
RolledOff(r) ==
    IF r.cur = 0 THEN <<>> ELSE <<Segment(<<run, r.next - 1>>, r.prev, r.intents)>>

\* evidence::append: the record joins the open segment and is linked to it; intents
\* names its change when it is an apply intent.
Grown(r, intents) == [r EXCEPT !.cur = @ + 1, !.intents = @ \cup intents]

\* EvidenceRecorder::append: a full segment is closed and waits for a flush.
Appended(r, intents) ==
    LET grown == Grown(r, intents)
    IN  IF grown.cur >= RecordsPerSegment
        THEN [Rolled(grown) EXCEPT !.closed = @ \o RolledOff(grown)]
        ELSE grown

\* remember: track a proposal; a new one evicts the oldest when the map is full.
Remembered(r, ch) ==
    LET full == ch \notin r.ctx /\ Cardinality(r.ctx) >= MaxTracked
    IN  IF ch \in r.ctx THEN r
        ELSE [r EXCEPT !.ctx = (IF full THEN @ \ {Head(r.order)} ELSE @) \cup {ch},
                       !.order = Append(IF full THEN Tail(@) ELSE @, ch)]

\* The order without a change it holds once.
Without(order, ch) ==
    LET i == CHOOSE i \in 1..Len(order) : order[i] = ch
    IN  SubSeq(order, 1, i - 1) \o SubSeq(order, i + 1, Len(order))

\* forget: a change that reached its end is no longer tracked.
Forgotten(r, ch) ==
    IF ch \in r.ctx
    THEN [r EXCEPT !.ctx = @ \ {ch}, !.order = Without(@, ch)]
    ELSE r

-----------------------------------------------------------------------------
(* The two files.                                                            *)

\* What a line becomes when it is written after what is there: a stump and the
\* line appended to it are one line that does not parse.
Write(lines, line) ==
    IF lines # <<>> /\ Last(lines).line = "torn"
    THEN Append(Front(lines), Garbage)
    ELSE Append(lines, line)

Fault == faults < MaxFaults /\ faults' = faults + 1
NoFault == UNCHANGED faults

\* DeliveryLedger::write_entry succeeds: the index and the file take the status.
\* Pending and Failed differ only in how long the next pass waits.
MarkOk(id, status) ==
    /\ ledger' = IF status = "delivered" THEN ledger \cup {id} ELSE ledger \ {id}
    /\ ledgerEnd' = IF ledgerEnd = "stump" THEN "garbage" ELSE ledgerEnd

\* write_entry fails: the index keeps what it had, the file may hold a stump.
MarkFails ==
    /\ UNCHANGED ledger
    /\ \/ UNCHANGED ledgerEnd
       \/ "ledger" \in TornFiles /\ ledgerEnd = "clean" /\ ledgerEnd' = "stump"

\* SsdfSink::spool returned Ok, or only the ledger refused: the line is on disk
\* and spool_outcome reports success.
SpoolSucceeds(s) ==
    /\ outbox' = Write(outbox, s)
    /\ \/ NoFault /\ MarkOk(s.id, "pending")
       \/ Fault /\ MarkFails

\* SsdfSink::spool returned an I/O error: nothing written, a stump, or a whole
\* line that was not synced.  The ledger is not reached.
SpoolFails(s) ==
    /\ Fault
    /\ \/ UNCHANGED outbox
       \/ outbox' = Write(outbox, s)
       \/ "outbox" \in TornFiles /\ outbox' = Write(outbox, Torn)
    /\ UNCHANGED <<ledger, ledgerEnd>>

-----------------------------------------------------------------------------
(* The recorder, called from the coordinator.                                *)

Serving == mode = "up" \/ (mode = "stopping" /\ ~Quiesced)

Proposal(ch) ==
    /\ Serving /\ phase[ch] = "new"
    /\ rec' = Appended(Remembered(rec, ch), {})
    /\ phase' = [phase EXCEPT ![ch] = "proposed"]
    /\ UNCHANGED <<call, claim, flushing, lifeVars, passVars, fileVars, netVars, faults>>

\* approval("approved") and approval_waived differ in data only; a rejection
\* ends the change.
ApprovalKeeps(ch, verdict) == \* mutant
    /\ Serving /\ phase[ch] = "proposed"
    /\ rec' = Appended(rec, {})
    /\ phase' = [phase EXCEPT ![ch] = verdict]
    /\ UNCHANGED <<call, claim, flushing, lifeVars, passVars, fileVars, netVars, faults>>
Approval(ch, verdict) ==
    /\ Serving /\ phase[ch] = "proposed"
    /\ rec' = LET r == Appended(rec, {})
              IN  IF verdict = "approved" THEN r ELSE Forgotten(r, ch)
    /\ phase' = [phase EXCEPT ![ch] = verdict]
    /\ UNCHANGED <<call, claim, flushing, lifeVars, passVars, fileVars, netVars, faults>>

\* apply_intent up to its flush.
ApplyIntent(ch) ==
    /\ Serving /\ phase[ch] = "approved" /\ call[ch] = "idle"
    /\ rec' = Appended(rec, {ch})
    /\ call' = [call EXCEPT ![ch] = "flush"]
    /\ UNCHANGED <<phase, claim, flushing, lifeVars, passVars, fileVars, netVars, faults>>

\* result_receipt up to its flush: the change ends here.
ResultReceipt(ch) ==
    /\ Serving /\ phase[ch] = "touched" /\ call[ch] = "idle"
    /\ rec' = Forgotten(Appended(rec, {}), ch)
    /\ call' = [call EXCEPT ![ch] = "flush"]
    /\ UNCHANGED <<phase, claim, flushing, lifeVars, passVars, fileVars, netVars, faults>>

\* Where a change is once its intent or its receipt was answered.
Answered(ch, ok) ==
    CASE phase[ch] = "touched" -> "ended"
      [] phase[ch] # "touched" /\ ok -> "touched"
      [] OTHER -> "approved"

\* The flush mutex is released and the call returns.
Returns(ch, ok) ==
    /\ flushing' = NoOne
    /\ call' = [call EXCEPT ![ch] = "idle"]
    /\ phase' = [phase EXCEPT ![ch] = Answered(ch, ok)]

\* flush_after_append takes the flush mutex, then everything the recorder holds;
\* with nothing to write it returns.
FlushClaimUnlocked(ch) == \* mutant
    LET all == rec.closed \o RolledOff(rec) IN
    /\ call[ch] = "flush"
    /\ rec' = [Rolled(rec) EXCEPT !.closed = <<>>]
    /\ claim' = [claim EXCEPT ![ch] = all]
    /\ IF all = <<>> THEN Returns(ch, TRUE)
       ELSE flushing' = ch /\ call' = [call EXCEPT ![ch] = "spool"] /\ UNCHANGED phase
    /\ UNCHANGED <<lifeVars, passVars, fileVars, netVars, faults>>
FlushClaim(ch) ==
    LET all == rec.closed \o RolledOff(rec) IN
    /\ call[ch] = "flush" /\ flushing = NoOne
    /\ rec' = [Rolled(rec) EXCEPT !.closed = <<>>]
    /\ claim' = [claim EXCEPT ![ch] = all]
    /\ IF all = <<>> THEN Returns(ch, TRUE)
       ELSE flushing' = ch /\ call' = [call EXCEPT ![ch] = "spool"] /\ UNCHANGED phase
    /\ UNCHANGED <<lifeVars, passVars, fileVars, netVars, faults>>

\* The spool takes the oldest claimed segment; after the last the call returns.
FlushSpool(ch) ==
    /\ call[ch] = "spool"
    /\ SpoolSucceeds(Head(claim[ch]))
    /\ claim' = [claim EXCEPT ![ch] = Tail(@)]
    /\ IF Len(claim[ch]) = 1 THEN Returns(ch, TRUE) ELSE UNCHANGED <<flushing, call, phase>>
    /\ UNCHANGED <<rec, lifeVars, passVars, netVars>>

\* The spool refuses: what was not written goes back, oldest first, and the call
\* returns Err.
FlushRefusedBehind(ch) == \* mutant
    /\ call[ch] = "spool"
    /\ SpoolFails(Head(claim[ch]))
    /\ rec' = [rec EXCEPT !.closed = @ \o claim[ch]]
    /\ claim' = [claim EXCEPT ![ch] = <<>>]
    /\ Returns(ch, FALSE)
    /\ UNCHANGED <<lifeVars, passVars, netVars>>
FlushRefused(ch) ==
    /\ call[ch] = "spool"
    /\ SpoolFails(Head(claim[ch]))
    /\ rec' = [rec EXCEPT !.closed = claim[ch] \o @]
    /\ claim' = [claim EXCEPT ![ch] = <<>>]
    /\ Returns(ch, FALSE)
    /\ UNCHANGED <<lifeVars, passVars, netVars>>

-----------------------------------------------------------------------------
(* One delivery pass (attempt_delivery).  Start-up, the drain thread and the  *)
(* shutdown flush run it, never two at a time.                               *)

\* at is the run it is in.
NoPass == [by |-> "none", todo |-> {}, at |-> 0, sending |-> FALSE, error |-> FALSE]

\* Load the outbox; an unreadable line fails the pass.  A segment the ledger calls
\* delivered is passed over, and a line that is there twice counts once.
Loaded(who) ==
    IF Loadable(outbox)
    THEN [NoPass EXCEPT !.by = who, !.todo = {s \in Range(outbox) : s.id \notin ledger}]
    ELSE [NoPass EXCEPT !.by = who, !.error = TRUE]

\* The segments that may come next: one run after the other, in any order, for run
\* ids are arbitrary, and in each the oldest sequence first.
Turn ==
    LET oldest == {s \in pass.todo : \A t \in pass.todo :
                      SameRun(t.id, s.id) => s.id[2] <= t.id[2]}
        here == {s \in oldest : s.id[1] = pass.at}
    IN  IF here # {} THEN here ELSE oldest

\* The ledger takes the outcome, or refuses it and aborts the pass.
Settle(id, status, after) ==
    \/ MarkOk(id, status) /\ NoFault /\ pass' = after
    \/ MarkFails /\ Fault /\ pass' = [after EXCEPT !.todo = {}, !.error = TRUE]

DeliverOk(s) ==
    Settle(s.id, "delivered",
           [pass EXCEPT !.at = s.id[1], !.sending = FALSE, !.todo = @ \ {s}])

\* The receiver failed: hold the rest of the run back, or abort the pass when the
\* ledger refuses too.
DeliverErrNoBlock(s) == \* mutant
    /\ MarkOk(s.id, "failed")
    /\ pass' = [pass EXCEPT !.at = s.id[1], !.sending = FALSE, !.todo = @ \ {s}]
DeliverErr(s) ==
    \/ /\ MarkOk(s.id, "failed")
       /\ pass' = [pass EXCEPT !.at = s.id[1], !.sending = FALSE,
                               !.todo = {t \in @ : ~SameRun(t.id, s.id)}]
    \/ /\ MarkFails
       /\ pass' = [pass EXCEPT !.at = s.id[1], !.sending = FALSE, !.todo = {}, !.error = TRUE]

\* At or below high_water_mark, the largest sequence the receiver holds of the run.
Covered(id) == \E x \in Landed : SameRun(x, id) /\ id[2] <= x[2]

\* deliver_segment asks for the mark first: at or below it nothing is sent.
ReadMark(s) ==
    /\ ~pass.sending
    /\ \/ Covered(s.id) /\ DeliverOk(s)
       \/ /\ ~Covered(s.id)
          /\ pass' = [pass EXCEPT !.at = s.id[1], !.sending = TRUE]
          /\ NoFault /\ UNCHANGED <<ledger, ledgerEnd>>
       \/ Fault /\ DeliverErr(s)
    /\ UNCHANGED <<callVars, rec, lifeVars, drain, outbox, netVars>>

\* dedup_token: the receiver drops a block whose token it has seen.
DedupToken(s) == s.id
Inserted(s) ==
    IF \E i \in 1..Len(rows) : DedupToken(rows[i]) = DedupToken(s)
    THEN rows ELSE Append(rows, s)

\* The INSERT over HTTP: answered, or the answer was lost, it was refused, or it
\* timed out with the block still on its way.
Exchange(s, reply) ==
    \/ reply = "ok" /\ rows' = Inserted(s) /\ UNCHANGED flying
    \/ reply = "error" /\ Fault /\ rows' \in {rows, Inserted(s)} /\ UNCHANGED flying
    \/ reply = "error" /\ Fault /\ flying' = flying \cup {s} /\ UNCHANGED rows

SendSegment(s) ==
    /\ pass.sending
    /\ \/ Exchange(s, "ok") /\ DeliverOk(s)
       \/ Exchange(s, "error") /\ DeliverErr(s)
    /\ UNCHANGED <<callVars, rec, lifeVars, drain, outbox>>

\* A block that timed out reaches the receiver after all.
LateLanding(s) ==
    /\ s \in flying
    /\ flying' = flying \ {s}
    /\ rows' = Inserted(s)
    /\ UNCHANGED <<callVars, rec, lifeVars, passVars, fileVars, faults>>

PassOver(who) == pass.by = who /\ pass.todo = {}

-----------------------------------------------------------------------------
(* The drain thread.                                                         *)

\* After a pass the thread ends if the flag was up before it, else waits again.
DrainAfter(last) == [at |-> IF last THEN "exited" ELSE "wait", last |-> FALSE]

\* The interval elapsed or the stop flag woke it; the flag is read under its
\* lock, then a pass begins.  A pass without work is over at once.
DrainWakeDeaf == \* mutant
    /\ drain.at = "wait"
    /\ LET p == Loaded("drain") IN
       IF p.todo = {}
       THEN drain' = DrainAfter(FALSE) /\ UNCHANGED pass
       ELSE drain' = [at |-> "pass", last |-> FALSE] /\ pass' = p
    /\ UNCHANGED <<callVars, rec, lifeVars, fileVars, netVars, faults>>
DrainWake ==
    /\ drain.at = "wait"
    /\ LET p == Loaded("drain") IN
       IF p.todo = {}
       THEN drain' = DrainAfter(stop) /\ UNCHANGED pass
       ELSE drain' = [at |-> "pass", last |-> stop] /\ pass' = p
    /\ UNCHANGED <<callVars, rec, lifeVars, fileVars, netVars, faults>>

DrainPassed ==
    /\ PassOver("drain")
    /\ pass' = NoPass
    /\ drain' = DrainAfter(drain.last)
    /\ UNCHANGED <<callVars, rec, lifeVars, fileVars, netVars, faults>>

-----------------------------------------------------------------------------
(* Start-up: open both files, replay, read both heads, build the recorder.   *)

NoDrain == [at |-> "none", last |-> FALSE]

\* DeliveryLedger::open drops an unterminated last line; any other bad line is
\* fatal.  Then the replay pass begins.
OpenSinkStrict == \* mutant
    /\ mode = "down" /\ ledgerEnd = "clean"
    /\ mode' = "replay"
    /\ pass' = Loaded("start")
    /\ UNCHANGED <<callVars, rec, run, stop, residue, drain, fileVars, netVars, faults>>
OpenSink ==
    /\ mode = "down" /\ ledgerEnd # "garbage"
    /\ ledgerEnd' = "clean"
    /\ mode' = "replay"
    /\ pass' = Loaded("start")
    /\ UNCHANGED <<callVars, rec, run, stop, residue, drain, outbox, ledger,
                   netVars, faults>>

\* Rows of this writer nothing else points at.
RemoteTails == Landed \ {s.prev : s \in Range(rows)}

\* produced_head: the last line of the outbox, delivered or not.
ProducedHead == IF outbox = <<>> THEN Root ELSE Last(outbox).id

\* resume_head: what was produced here, else what the receiver holds, else a root.
ResumeHead ==
    IF ProducedHead = Root /\ RemoteTails # {}
    THEN CHOOSE t \in RemoteTails : TRUE ELSE ProducedHead

\* The replay ran and the receiver has one tail: a recorder continues the chain.
StartUp ==
    /\ mode = "replay" /\ PassOver("start") /\ ~pass.error
    /\ Cardinality(RemoteTails) <= 1
    /\ run < MaxRuns
    /\ run' = run + 1
    /\ rec' = NewRecorder(ResumeHead)
    /\ mode' = "up" /\ stop' = FALSE
    /\ drain' = [at |-> "wait", last |-> FALSE]
    /\ pass' = NoPass
    /\ UNCHANGED <<callVars, residue, fileVars, netVars, faults>>

\* The replay failed, the receiver holds two tails, or a read failed: no server.
\* So does the last start the bound allows, whose replay still ran.
StartRefused ==
    /\ mode = "replay" /\ PassOver("start")
    /\ \/ /\ pass.error \/ Cardinality(RemoteTails) > 1 \/ run = MaxRuns
          /\ NoFault
       \/ Fault
    /\ mode' = "down" /\ pass' = NoPass
    /\ UNCHANGED <<callVars, rec, run, stop, residue, drain, fileVars, netVars>>

-----------------------------------------------------------------------------
(* The ends of a process.                                                    *)

\* What is left of the callers when the process is gone: an intent that was not
\* answered may be tried again, a device that was touched gets no receipt.
Interrupted(ch) == IF phase[ch] = "touched" THEN "ended" ELSE phase[ch]

Gone ==
    /\ mode' = "down" /\ stop' = FALSE /\ residue' = <<>>
    /\ rec' = NoRecorder
    /\ drain' = NoDrain /\ pass' = NoPass
    /\ flushing' = NoOne
    /\ call' = [ch \in Changes |-> "idle"]
    /\ claim' = [ch \in Changes |-> <<>>]
    /\ phase' = [ch \in Changes |-> Interrupted(ch)]

\* The process dies; a ledger entry it was writing may be left unterminated.  A
\* process that served used up one of MaxRuns; one that was starting, a fault.
Crash ==
    /\ mode # "down"
    /\ IF mode = "replay" THEN Fault ELSE NoFault
    /\ Gone
    /\ \/ UNCHANGED ledgerEnd
       \/ /\ pass.by # "none" \/ \E ch \in Changes : call[ch] = "spool"
          /\ ledgerEnd = "clean" /\ ledgerEnd' = "stump"
    /\ UNCHANGED <<run, outbox, ledger, netVars>>

\* shutdown and Drop both raise the flag and join the drain thread.
SignalStop(how) ==
    /\ mode = "up"
    /\ Quiesced => \A ch \in Changes : call[ch] = "idle"
    /\ mode' = how /\ stop' = TRUE
    /\ UNCHANGED <<callVars, rec, run, residue, passVars, fileVars, netVars, faults>>

\* Drop joins and flushes nothing.
Dropped ==
    /\ mode = "dropping" /\ drain.at = "exited"
    /\ Gone
    /\ UNCHANGED <<run, fileVars, netVars, faults>>

\* shutdown after the join: take_closed.
TakeClosed ==
    /\ mode = "stopping" /\ drain.at = "exited"
    /\ mode' = "closing"
    /\ residue' = rec.closed
    /\ rec' = [rec EXCEPT !.closed = <<>>]
    /\ UNCHANGED <<callVars, run, stop, passVars, fileVars, netVars, faults>>

\* spool_everything goes on past a segment the disk refuses.
SpoolResidue ==
    /\ mode \in {"closing", "closed"} /\ residue # <<>>
    /\ SpoolSucceeds(Head(residue)) \/ SpoolFails(Head(residue))
    /\ residue' = Tail(residue)
    /\ UNCHANGED <<callVars, rec, mode, run, stop, passVars, netVars>>

\* close_current, once the closed ones were handed over.
CloseCurrent ==
    /\ mode = "closing" /\ residue = <<>>
    /\ mode' = "closed"
    /\ residue' = RolledOff(rec)
    /\ rec' = Rolled(rec)
    /\ UNCHANGED <<callVars, run, stop, passVars, fileVars, netVars, faults>>

ShutdownFlush ==
    /\ mode = "closed" /\ residue = <<>>
    /\ mode' = "flushing"
    /\ pass' = Loaded("flush")
    /\ UNCHANGED <<callVars, rec, run, stop, residue, drain, fileVars, netVars, faults>>

\* The flush pass reports nothing; the process exits.
Exit ==
    /\ mode = "flushing" /\ PassOver("flush")
    /\ Gone
    /\ UNCHANGED <<run, fileVars, netVars, faults>>

\* The host is rebuilt with an empty spool once nothing is on its way.
Rebuild ==
    /\ mode = "down" /\ flying = {} /\ Fault
    /\ outbox' = <<>> /\ ledger' = {} /\ ledgerEnd' = "clean"
    /\ UNCHANGED <<callVars, rec, lifeVars, passVars, netVars>>

-----------------------------------------------------------------------------
Init ==
    /\ \E e \in Entry : phase = e[1] /\ faults = e[2] /\ run = e[3]
    /\ call = [ch \in Changes |-> "idle"]
    /\ claim = [ch \in Changes |-> <<>>]
    /\ flushing = NoOne
    /\ rec = NoRecorder
    /\ mode = "down" /\ stop = FALSE /\ residue = <<>>
    /\ drain = NoDrain /\ pass = NoPass
    /\ outbox = <<>> /\ ledger = {} /\ ledgerEnd = "clean"
    /\ rows = <<>> /\ flying = {}

Recorder(ch) ==
    \/ Proposal(ch)
    \/ \E verdict \in {"approved", "rejected"} : Approval(ch, verdict)
    \/ ApplyIntent(ch)
    \/ ResultReceipt(ch)

Flush(ch) == FlushClaim(ch) \/ FlushSpool(ch) \/ FlushRefused(ch)

Deliver == \E s \in Turn : ReadMark(s) \/ SendSegment(s)

Drain == DrainWake \/ DrainPassed

Start == OpenSink \/ StartUp \/ StartRefused

Leave == TakeClosed \/ SpoolResidue \/ CloseCurrent \/ ShutdownFlush \/ Exit \/ Dropped

Next ==
    \/ \E ch \in Changes : Recorder(ch) \/ Flush(ch)
    \/ Deliver \/ Drain \/ Start \/ Leave
    \/ \E how \in {"stopping", "dropping"} : SignalStop(how)
    \/ \E s \in flying : LateLanding(s)
    \/ Crash \/ Rebuild

Spec == Init /\ [][Next]_vars

\* The threads the process runs make progress, and a process that is down is
\* started again by its supervisor.  Callers, signals and faults come or not.
FairSpec ==
    /\ Spec
    /\ \A ch \in Changes : WF_vars(Flush(ch))
    /\ WF_vars(Deliver) /\ WF_vars(Drain) /\ WF_vars(Start) /\ WF_vars(Leave)

-----------------------------------------------------------------------------
(* Properties.                                                               *)

\* IntentDurable: apply_intent returns Ok, and the device is touched, only once the
\* intent is in an outbox that the next start can read, whoever's flush wrote it.
IntentDurable ==
    [][\A ch \in Changes : phase[ch] = "approved" /\ phase'[ch] = "touched" =>
            /\ Loadable(outbox')
            /\ \E i \in 1..Len(outbox') : ch \in outbox'[i].intents]_vars

\* What was produced and not lost, oldest first: on disk, in a flush, closed.
Pipeline == outbox \o (IF flushing = NoOne THEN <<>> ELSE claim[flushing]) \o rec.closed

\* ProductionOrder: while the server is up no closed segment is missing or out of
\* place, through concurrent flushes and refusals: the outbox, the claimed segments
\* and the recorder together hold the run from its first segment to its last,
\* each linked to the one before, the first to what an earlier run left (a
\* segment may be on disk twice), and the recorder continues from the last.
ProductionOrder ==
    mode = "up" /\ Loadable(outbox) =>
        LET p == Pipeline IN
        /\ \A i \in 1..Len(p) : p[i].id[1] = run =>
              \/ i > 1 /\ p[i] = p[i - 1]
              \/ /\ i > 1 => p[i].prev = p[i - 1].id
                 /\ p[i].id[2] = IF i > 1 /\ p[i - 1].id[1] = run THEN p[i - 1].id[2] + 1 ELSE 0
        /\ p # <<>> => rec.prev = Last(p).id
        /\ IF p # <<>> /\ Last(p).id[1] = run THEN Last(p).id[2] = rec.next - 2 ELSE rec.next = 1

\* ChainNeverForks: no two segments, on disk or landed, continue the same head, over
\* every restart, refused write and rebuilt host.
ChainNeverForks ==
    \A s, t \in Spooled \cup Range(rows) : s.prev = t.prev => s.id = t.id

\* ChainIsOneLine: the segments of a host, on disk, claimed, in memory and landed,
\* form one chain with no gap, no exchange and no second branch.
ChainIsOneLine == ProductionOrder /\ ChainNeverForks

\* RunsLandInOrder: the receiver never holds a segment while it lacks an earlier
\* spooled one of the same run, and holds no segment twice, whatever
\* acknowledgements were lost and inserts landed late.
RunsLandInOrder ==
    \A i \in 1..Len(rows) :
        /\ \A j \in 1..i - 1 : rows[j].id # rows[i].id
        /\ \A s \in Spooled : SameRun(s.id, rows[i].id) /\ s.id[2] < rows[i].id[2] =>
                \E j \in 1..i - 1 : rows[j].id = s.id

\* DeliveredHasLanded: the ledger calls a segment delivered only when the receiver
\* holds it; nothing retries a delivered segment.
DeliveredHasLanded == ledger \subseteq Landed

\* DeliveryIsOrdered: what the receiver holds is gapless within each run, and the
\* ledger claims no more than it holds.
DeliveryIsOrdered == RunsLandInOrder /\ DeliveredHasLanded

\* ContextIsLive: the bounded context map and its eviction order describe the same
\* changes, and only ones that have not ended.
ContextIsLive ==
    /\ ToSet(rec.order) = rec.ctx /\ Len(rec.order) = Cardinality(rec.ctx)
    /\ Cardinality(rec.ctx) <= MaxTracked
    /\ \A ch \in rec.ctx : phase[ch] \in {"proposed", "approved", "touched"}

\* Files that the next start can open and replay.
Replayable == Loadable(outbox) /\ ledgerEnd # "garbage"

\* BacklogDrains: whatever is spooled reaches the receiver once faults stop, across
\* restarts and refused starts, as long as both files can be opened.
BacklogDrains == (Replayable ~> (SpooledIds \subseteq Landed \/ ~Replayable))

\* StopCompletes: a shutdown or a drop always ends the process: the drain thread
\* cannot miss the flag and the flush passes end.
StopCompletes == mode \in {"stopping", "dropping"} ~> mode = "down"

=============================================================================
