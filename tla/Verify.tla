------------------------------- MODULE Verify -------------------------------
(***************************************************************************)
(* mecmcp-verify: what the recorders of a run closed and signed is         *)
(* exported to one chain file per server, may be damaged there, and is     *)
(* verified against the run's manifest, the servers' public keys and, when *)
(* there is one, the commit log of a device.                               *)
(*                                                                         *)
(* A hash is the tuple of what was hashed and a signature the pair of the  *)
(* server whose key made it and the head it covers: neither can be found   *)
(* for another input.  A record is its request id; the copies of the       *)
(* envelope inside it are cleared by the verifier before it hashes, and    *)
(* are left out, as are the formats of the files and of the device log.    *)
(* Who writes the manifest, exports the files and keeps the commit log is  *)
(* outside the repository.                                                 *)
(***************************************************************************)
EXTENDS Integers, SequencesExt

CONSTANTS
    Auditors,       \* server ids
    Batches,        \* the records a segment may be closed with: sequences of request ids
    DeviceLogs,     \* request ids a commit log may hold, or Missing
    Missing,        \* no such file
    Garbled,        \* a line that does not parse
    MaxClosed,      \* bound: segments closed in all
    MaxRun,         \* bound: run ids, 1 .. MaxRun; run 1 is verified
    MaxDamages      \* bound: changes to the exported files

VARIABLES
    archive,    \* server -> the segments it closed, oldest first
    auditRun,   \* server -> its run id
    signing,    \* server -> where its signatures go: "segment", "file" or "nowhere"
    stage,      \* "open", "cutoff", "exported", then what the verifier answered
    manifest,   \* server -> the segments listed, as sequence number and head
    chains,     \* server -> the lines of its chain file
    sigFiles,   \* the detached signatures: server, sequence number, signature
    given,      \* the public keys the verifier has, and the device log
    damages     \* how many changes were made to the files

recorderVars == <<archive, auditRun, signing>>
exportVars == <<manifest, chains, sigFiles, given, damages>>
verifyVars == <<recorderVars, exportVars, stage>>

Verified == 1
ChainRoot == <<>>       \* what the first segment of a server links to
Unsigned == <<>>

-----------------------------------------------------------------------------
(* Closing and signing a segment *)

\* append, record by record, then close: a segment without records has the
\* hash it links to as its head.
HeadHash(g) ==
    FoldLeft(LAMBDA last, record : <<g.run, g.server, g.seq, record, last>>, g.prev, g.records)

sign_head(server, head) == <<server, head>>
verify_head(segment, signature, server) == signature = <<server, segment.head>>

InRun(segments, run) == SelectSeq(segments, LAMBDA g : g.run = run)

\* EvidenceRecorder::roll; the servers go on after the cutoff.
Roll(server, records) ==
    LET done == archive[server]
        open == [run |-> auditRun[server], server |-> server,
                 seq |-> Len(InRun(done, auditRun[server])),
                 prev |-> IF done = <<>> THEN ChainRoot ELSE Last(done).head,
                 records |-> records, head |-> ChainRoot, signature |-> Unsigned]
        head == HeadHash(open)
    IN  /\ stage \in {"open", "cutoff"}
        /\ FoldFunction(LAMBDA g, n : n + Len(g), 0, archive) < MaxClosed
        /\ archive' = [archive EXCEPT ![server] = Append(@,
               [open EXCEPT !.head = head,
                            !.signature = IF signing[server] = "segment"
                                          THEN sign_head(server, head) ELSE @])]
        /\ UNCHANGED <<auditRun, signing, stage, exportVars>>

\* A server restarts: its recorder takes a new run id and continues the chain.
NewRun(server) ==
    /\ stage \in {"open", "cutoff"} /\ archive[server] # <<>> /\ auditRun[server] < MaxRun
    /\ auditRun' = [auditRun EXCEPT ![server] = @ + 1]
    /\ UNCHANGED <<archive, signing, stage, exportVars>>

\* The manifest of the run is written.
Cutoff ==
    /\ stage = "open"
    /\ stage' = "cutoff"
    /\ manifest' = [s \in Auditors |-> {[seq |-> g.seq, head |-> g.head] :
                                           g \in Range(InRun(archive[s], Verified))}]
    /\ UNCHANGED <<recorderVars, chains, sigFiles, given, damages>>

Detached(s) ==
    {[server |-> s, seq |-> g.seq, signature |-> sign_head(s, g.head)] :
        g \in Range(InRun(archive[s], Verified))}

Export(keys, log) ==
    /\ stage = "cutoff"
    /\ stage' = "exported"
    /\ chains' = archive
    /\ sigFiles' = UNION {Detached(s) : s \in {a \in Auditors : signing[a] = "file"}}
    /\ given' = [keys |-> keys, log |-> log]
    /\ UNCHANGED <<recorderVars, manifest, damages>>

-----------------------------------------------------------------------------
(* Damage: a file, a line, or one field of a line, with the head left or   *)
(* hashed anew                                                             *)

Fields(line, lines) ==
    {[line EXCEPT !.run = r] : r \in 1 .. MaxRun}
        \cup {[line EXCEPT !.seq = n] : n \in 0 .. MaxClosed - 1}
        \cup {[line EXCEPT !.prev = g.head] : g \in lines}
        \cup {[line EXCEPT !.records = r] : r \in {<<>>} \cup Batches}
        \cup {[line EXCEPT !.signature = x] : x \in {Unsigned} \cup {g.signature : g \in lines}}

DamagedLines(lines) ==
    LET parsed == {i \in DOMAIN lines : lines[i] # Garbled}
        changed(i) == Fields(lines[i], {lines[j] : j \in parsed})
        rehashed(i) == {[g EXCEPT !.head = HeadHash(g)] : g \in changed(i)}
    IN  {RemoveAt(lines, i) : i \in DOMAIN lines}
            \cup {Append(lines, lines[i]) : i \in DOMAIN lines}
            \cup {[lines EXCEPT ![i] = Garbled] : i \in DOMAIN lines}
            \cup UNION {{[lines EXCEPT ![i] = g] : g \in changed(i) \cup rehashed(i)} : i \in parsed}

DamageExport ==
    /\ stage = "exported" /\ damages < MaxDamages
    /\ damages' = damages + 1
    /\ \/ /\ \E s \in Auditors :
                /\ chains[s] # Missing
                /\ \E lines \in DamagedLines(chains[s]) \cup {Missing} :
                       chains' = [chains EXCEPT ![s] = lines]
          /\ UNCHANGED sigFiles
       \/ /\ \E f \in sigFiles : sigFiles' = sigFiles \ {f}
          /\ UNCHANGED chains
    /\ UNCHANGED <<recorderVars, stage, manifest, given>>

-----------------------------------------------------------------------------
(* verify_run *)

\* The file as load_chain_segments leaves it: the segments of the run, sorted.
Loaded(s) ==
    IF chains[s] = Missing THEN <<>>
    ELSE SortSeq(InRun(chains[s], Verified), LAMBDA g, h : g.seq < h.seq)

Unreadable == \E s \in Auditors : chains[s] # Missing /\ Garbled \in Range(chains[s])

DuplicateSegmentSeq(s) ==
    \E i \in 2 .. Len(Loaded(s)) : Loaded(s)[i].seq = Loaded(s)[i - 1].seq

\* A server whose chain is missing, empty although segments are expected, or
\* with duplicates is reported and not looked at further.
Skipped(s) ==
    \/ chains[s] = Missing
    \/ DuplicateSegmentSeq(s)
    \/ manifest[s] # {} /\ Loaded(s) = <<>>

\* MissingSegment and HeadHashMismatch
ManifestUnmet(s) ==
    \E m \in manifest[s] :
        \A i \in DOMAIN Loaded(s) : Loaded(s)[i].seq = m.seq => Loaded(s)[i].head # m.head

SegmentChainBreak(s) ==
    \E i \in 2 .. Len(Loaded(s)) : Loaded(s)[i].prev # Loaded(s)[i - 1].head

\* verify_segment_records
RecordHashMismatch(s) == \E i \in DOMAIN Loaded(s) : HeadHash(Loaded(s)[i]) # Loaded(s)[i].head

AcceptsMissingSignature(s, g) ==  \* mutant
    IF g.signature # Unsigned
    THEN verify_head(g, g.signature, s)
    ELSE \A f \in sigFiles : f.server = s /\ f.seq = g.seq => verify_head(g, f.signature, s)

\* The signature in the segment, else the one in the file for its number.
SignatureVerifies(s, g) ==
    IF g.signature # Unsigned
    THEN verify_head(g, g.signature, s)
    ELSE \E f \in sigFiles : f.server = s /\ f.seq = g.seq /\ verify_head(g, f.signature, s)

\* Only where a key of the server was given.
SignatureVerificationFailed(s) ==
    s \in given.keys /\ \E i \in DOMAIN Loaded(s) : ~SignatureVerifies(s, Loaded(s)[i])

AuditedRequests ==
    UNION {UNION {Range(g.records) : g \in Range(Loaded(s))} : s \in {a \in Auditors : ~Skipped(a)}}

\* OrphanedDeviceCommit and OrphanedAuditRecord
JoinFails == given.log # Missing /\ given.log # AuditedRequests

Verify ==
    /\ stage = "exported"
    /\ stage' = IF Unreadable THEN "error"
                ELSE IF \/ JoinFails
                        \/ \E s \in Auditors :
                              \/ Skipped(s) \/ ManifestUnmet(s) \/ SegmentChainBreak(s)
                              \/ RecordHashMismatch(s) \/ SignatureVerificationFailed(s)
                     THEN "failed" ELSE "passed"
    /\ UNCHANGED <<recorderVars, exportVars>>

-----------------------------------------------------------------------------
VerifyInit ==
    /\ archive = [s \in Auditors |-> <<>>]
    /\ auditRun = [s \in Auditors |-> Verified]
    /\ signing \in [Auditors -> {"segment", "file", "nowhere"}]
    /\ stage = "open"
    /\ manifest = [s \in Auditors |-> {}]
    /\ chains = archive
    /\ sigFiles = {}
    /\ given = [keys |-> {}, log |-> Missing]
    /\ damages = 0

VerifyNext ==
    \/ \E s \in Auditors, records \in Batches : Roll(s, records)
    \/ \E s \in Auditors : NewRun(s)
    \/ Cutoff
    \/ \E keys \in SUBSET Auditors, log \in DeviceLogs : Export(keys, log)
    \/ DamageExport
    \/ Verify

VerifySpec == VerifyInit /\ [][VerifyNext]_verifyVars

-----------------------------------------------------------------------------
Recorded(s, g) ==
    \E h \in Range(archive[s]) :
        <<h.run, h.seq, h.prev, h.records>> = <<g.run, g.seq, g.prev, g.records>>

\* What was recorded up to the cutoff is there, once, and unchanged, but for
\* segments that lost all their records: close gives one without records the
\* hash it links to as its head, and final_seq of the manifest is not compared.
ManifestIsThere(s) ==
    \A m \in manifest[s] :
        \E i \in DOMAIN Loaded(s) :
            /\ Loaded(s)[i].seq = m.seq
            /\ Loaded(s)[i].records # <<>> => Recorded(s, Loaded(s)[i])
            /\ \A j \in DOMAIN Loaded(s) : Loaded(s)[j].seq = m.seq => j = i

\* With its key, every record in the file is the server's, in its place, and
\* none between two of them is missing.
NothingElse(s) ==
    /\ \A g \in Range(Loaded(s)) : g.records # <<>> => Recorded(s, g)
    /\ \A g, h \in Range(Loaded(s)), k \in Range(InRun(archive[s], Verified)) :
           g.seq < k.seq /\ k.seq < h.seq /\ h.records # <<>>
               => \E x \in Range(Loaded(s)) : x.seq = k.seq

\* Where verify_run passes a run, its files hold what was recorded, whatever
\* happened to them: of every segment of the manifest no record was changed,
\* with a public key there is nothing else either and no gap, and with a device
\* log every commit of it is in the evidence.  An undamaged export passes.
VerdictIsRight ==
    /\ stage = "passed" =>
         /\ \A s \in Auditors : ManifestIsThere(s) /\ (s \in given.keys => NothingElse(s))
         /\ given.log = Missing \/ given.log \subseteq
                UNION {UNION {Range(g.records) : g \in Range(Loaded(s))} : s \in Auditors}
    /\ stage \in {"failed", "error"} =>
         \/ damages > 0
         \/ \E s \in given.keys : signing[s] = "nowhere" /\ Loaded(s) # <<>>
         \/ JoinFails
=============================================================================
