--------------------------------- MODULE Scp ---------------------------------
(***************************************************************************)
(* The SCP1 client (mecmcp-scp, scp.rs): uploads and downloads, one at a   *)
(* time, over channels of one SSH connection.                              *)
(*                                                                         *)
(* The device is external: it follows the protocol, but it may refuse,     *)
(* fail to store or to read, or close the channel at any point.  A         *)
(* transfer is interrupted at any await, by its token or because its       *)
(* future is dropped; a file operation that was handed to the blocking     *)
(* pool by then still runs to its end, some time later.  A file is a       *)
(* sequence of chunks, each named after the transfer that wrote it.        *)
(***************************************************************************)
EXTENDS Integers, Sequences

CONSTANTS
    PermissionBits,  \* the bits of mode 0o777
    SpecialBits,     \* setuid, setgid and sticky
    MaxSize,         \* bound: chunks in a file
    MaxTransfers     \* bound: transfers in a behaviour

ASSUME ScpAssumption ==
    /\ PermissionBits \cap SpecialBits = {}
    /\ {MaxSize, MaxTransfers} \subseteq Nat

VARIABLES
    poisoned,  \* ScpClient.poisoned
    xfer,      \* the transfer that runs, or ran last
    sink,      \* the device: what it stored of an upload, whether storing or reading failed
    dest,      \* the local destination of downloads
    disk,      \* the write a download has handed to the blocking pool
    late       \* file operations of ended transfers that still have to run

scpVars == <<poisoned, xfer, sink, dest, disk, late>>

OldBytes == <<0>>
Hole == -1   \* what no transfer wrote, or a source that could not read padded
Idle == [state |-> "idle", at |-> 0, value |-> 0]
NoTransfer ==
    [n |-> 0, kind |-> "none", step |-> "done", size |-> 0, moved |-> 0, mode |-> {},
     interim |-> {}, was |-> {}, clean |-> TRUE, outcome |-> "none"]

NoFile == [exists |-> FALSE, owned |-> TRUE, mode |-> {}, bytes |-> << >>]
OldFiles ==
    [exists : {TRUE}, owned : BOOLEAN, mode : SUBSET PermissionBits, bytes : {OldBytes}]

ScpInit ==
    /\ poisoned = FALSE
    /\ xfer = NoTransfer
    /\ sink = [stored |-> 0, failed |-> FALSE]
    /\ dest \in OldFiles \cup {NoFile}
    /\ disk = Idle
    /\ late = {}

On(step) == xfer.step = step
Proceed(step) == xfer' = [xfer EXCEPT !.step = step]
Ends(outcome) == xfer' = [xfer EXCEPT !.step = "done", !.outcome = outcome]

\* An error return drops the file; the write in the pool goes on without it.
Orphaned == IF disk.state = "busy"
            THEN {[op |-> "write", at |-> disk.at, value |-> disk.value, mode |-> {}]} ELSE {}
Fail ==
    /\ Ends("error")
    /\ late' = late \cup Orphaned
    /\ disk' = Idle

----------------------------------------------------------------------------
(* Both directions: the channel and the command *)

NewTransfer(kind, size) ==
    [NoTransfer EXCEPT !.n = xfer.n + 1, !.kind = kind, !.size = size, !.step = "opening",
                       !.was = dest.mode, !.clean = late = {}]

\* A poisoned client refuses; an upload opens and measures its file first.
StartTransfer ==
    /\ On("done") /\ xfer.n < MaxTransfers
    /\ ~poisoned
    /\ \/ xfer' = NewTransfer("download", 0)
       \/ \E size \in 0..MaxSize : xfer' = NewTransfer("upload", size)
    /\ sink' = [stored |-> 0, failed |-> FALSE]
    /\ UNCHANGED <<poisoned, dest, disk, late>>

\* A new connection after the old client was given up.
Reconnect ==
    /\ On("done") /\ poisoned
    /\ poisoned' = FALSE
    /\ UNCHANGED <<xfer, sink, dest, disk, late>>

\* channel_open_session, exec, and the reply to exec.
OpenChannel ==
    /\ On("opening")
    /\ \/ Proceed("exec") /\ UNCHANGED <<disk, late>>
       \/ Fail
    /\ UNCHANGED <<poisoned, sink, dest>>

Exec ==
    /\ On("exec")
    /\ \/ Proceed(IF xfer.kind = "upload" THEN "ready" ELSE "request") /\ UNCHANGED <<disk, late>>
       \/ Fail
    /\ UNCHANGED <<poisoned, sink, dest>>

\* EOF is sent and the exit status awaited; a channel that closes without
\* one counts as zero.
ExitStatus ==
    /\ On("exit")
    /\ \/ Ends("ok") /\ UNCHANGED <<disk, late>>
       \/ Fail
    /\ UNCHANGED <<poisoned, sink, dest>>

\* The channel closes under any read or write before that.
ChannelCloses ==
    /\ xfer.step \notin {"done", "exit", "opening", "create", "narrow", "truncate", "widen", "flush"}
    /\ Fail
    /\ UNCHANGED <<poisoned, sink, dest>>

----------------------------------------------------------------------------
(* Upload: scp -t *)

\* The stages that wait for an acknowledgement, and what follows each.
AckStages == {"ready", "times", "header", "final", "end"}
Following(stage) ==
    CASE stage = "ready" -> "times"
      [] stage = "times" -> "header"
      [] stage = "header" -> IF xfer.size = 0 THEN "final" ELSE "data"
      [] stage = "final" -> "end"
      [] stage = "end" -> "exit"

\* The device acknowledges the payload only if it stored all of it.
Acks(stage) ==
    IF stage = "final"
    THEN IF sink.failed \/ sink.stored # xfer.size THEN {"warning", "error"} ELSE {"success"}
    ELSE {"success", "warning", "error"}

\* A warning is an error everywhere but after E, where the file is complete.
Accepts(stage, ack) == ack = "success" \/ (ack = "warning" /\ stage = "end")

ReadAck ==
    /\ xfer.step \in AckStages
    /\ \E ack \in Acks(xfer.step) :
          IF Accepts(xfer.step, ack)
          THEN Proceed(Following(xfer.step)) /\ UNCHANGED <<disk, late>>
          ELSE Fail
    /\ UNCHANGED <<poisoned, sink, dest>>

\* One chunk is read and sent; a file that has shrunk ends the upload.  A
\* device that cannot store a chunk goes on reading.
SendChunk ==
    /\ On("data") /\ xfer.kind = "upload"
    /\ \/ /\ xfer' = [xfer EXCEPT !.moved = @ + 1,
                                  !.step = IF xfer.moved + 1 = xfer.size THEN "final" ELSE @]
          /\ \/ sink' = [sink EXCEPT !.stored = @ + 1]
             \/ sink' = [sink EXCEPT !.failed = TRUE]
          /\ UNCHANGED <<disk, late>>
       \/ Fail /\ UNCHANGED sink
    /\ UNCHANGED <<poisoned, dest>>

----------------------------------------------------------------------------
(* Download: scp -f *)

\* The C header, with the special bits of its mode stripped; or an error
\* line, or a header or a name that is refused.
ReadHeader ==
    /\ On("request")
    /\ \/ /\ \E size \in 0..MaxSize, raw \in SUBSET (PermissionBits \cup SpecialBits) :
                xfer' = [xfer EXCEPT !.step = "create", !.size = size,
                                     !.mode = raw \cap PermissionBits]
          /\ UNCHANGED <<disk, late>>
       \/ Fail
    /\ UNCHANGED <<poisoned, sink, dest>>

\* The destination is opened without truncating it, checked, and its mode
\* read; a new file gets what the umask leaves of the requested mode.
CreateDest ==
    /\ On("create")
    /\ \/ /\ \E mode \in IF dest.exists THEN {dest.mode} ELSE SUBSET xfer.mode :
                /\ dest' = [dest EXCEPT !.exists = TRUE, !.mode = mode]
                /\ xfer' = [xfer EXCEPT !.step = "narrow", !.interim = mode \cap xfer.mode]
          /\ UNCHANGED <<disk, late>>
       \/ Fail /\ UNCHANGED dest
    /\ UNCHANGED <<poisoned, sink>>

\* The mode in two phases, with the truncation between them; only the owner
\* of a file may change its mode.
Narrow ==
    /\ On("narrow")
    /\ IF dest.owned
       THEN /\ dest' = [dest EXCEPT !.mode = xfer.interim]
            /\ Proceed("truncate") /\ UNCHANGED <<disk, late>>
       ELSE Fail /\ UNCHANGED dest
    /\ UNCHANGED <<poisoned, sink>>

Truncate ==
    /\ On("truncate")
    /\ \/ dest' = [dest EXCEPT !.bytes = << >>] /\ Proceed("widen") /\ UNCHANGED <<disk, late>>
       \/ Fail /\ UNCHANGED dest
    /\ UNCHANGED <<poisoned, sink>>

\* After the final mode the header is accepted, which the channel may refuse.
Widen ==
    /\ On("widen")
    /\ \/ /\ dest' = [dest EXCEPT !.mode = xfer.mode]
          /\ \/ /\ Proceed(IF xfer.size = 0 THEN "flush" ELSE "data")
                /\ UNCHANGED <<disk, late>>
             \/ Fail
       \/ Fail /\ UNCHANGED dest
    /\ UNCHANGED <<poisoned, sink>>

\* A chunk arrives and its write is handed to the pool, once the write
\* before it has ended; that one's failure is reported here.  A source that
\* cannot read on pads the rest.
ReceiveChunk ==
    /\ On("data") /\ xfer.kind = "download"
    /\ \/ /\ disk.state = "idle"
          /\ \E failed \in {sink.failed, TRUE} :
                /\ sink' = [sink EXCEPT !.failed = failed]
                /\ disk' = [state |-> "busy", at |-> xfer.moved + 1,
                            value |-> IF failed THEN Hole ELSE xfer.n]
          /\ xfer' = [xfer EXCEPT !.moved = @ + 1,
                                  !.step = IF xfer.moved + 1 = xfer.size THEN "flush" ELSE @]
          /\ UNCHANGED late
       \/ disk.state = "failed" /\ Fail /\ UNCHANGED sink
    /\ UNCHANGED <<poisoned, dest>>

WriteAt(bytes, at, value) ==
    [i \in 1..(IF at > Len(bytes) THEN at ELSE Len(bytes)) |->
        CASE i = at -> value [] i # at /\ i <= Len(bytes) -> bytes[i] [] OTHER -> Hole]

\* The blocking pool writes the chunk, or cannot.
DiskWrites ==
    /\ disk.state = "busy"
    /\ \/ /\ dest' = [dest EXCEPT !.bytes = WriteAt(@, disk.at, disk.value)]
          /\ disk' = Idle
       \/ disk' = [disk EXCEPT !.state = "failed"] /\ UNCHANGED dest
    /\ UNCHANGED <<poisoned, xfer, sink, late>>

FlushWithoutWaiting ==  \* mutant
    /\ On("flush")
    /\ Proceed("status") /\ UNCHANGED <<disk, late>>
    /\ UNCHANGED <<poisoned, sink, dest>>

\* flush waits for the last write and reports its failure.
Flush ==
    /\ On("flush")
    /\ \/ disk.state = "idle" /\ Proceed("status") /\ UNCHANGED <<disk, late>>
       \/ disk.state = "failed" /\ Fail
    /\ UNCHANGED <<poisoned, sink, dest>>

\* The source's status after the payload, and the acknowledgement of it.
ReadStatus ==
    /\ On("status")
    /\ IF sink.failed THEN Fail ELSE Proceed("exit") /\ UNCHANGED <<disk, late>>
    /\ UNCHANGED <<poisoned, sink, dest>>

----------------------------------------------------------------------------
(* Interruption *)

\* What a step that is interrupted may have handed to the pool.
Dispatched ==
    LET op(name, mode) == [op |-> name, at |-> 0, value |-> 0, mode |-> mode]
    IN  CASE On("create") -> {op("create", xfer.mode)}
          [] On("narrow") /\ dest.owned -> {op("mode", xfer.interim)}
          [] On("truncate") -> {op("truncate", {})}
          [] On("widen") -> {op("mode", xfer.mode)}
          [] OTHER -> {}

\* The token fires or the future is dropped.  An open whose answer was not
\* seen poisons the client.
Interrupt ==
    /\ ~On("done")
    /\ Ends("error")
    /\ poisoned' = (poisoned \/ On("opening"))
    /\ \E left \in {{}, Dispatched} : late' = late \cup left \cup Orphaned
    /\ disk' = Idle
    /\ UNCHANGED <<sink, dest>>

LateOperation ==
    \E o \in late :
        /\ late' = late \ {o}
        /\ CASE o.op = "create" /\ dest.exists -> UNCHANGED dest
             [] o.op = "create" /\ ~dest.exists ->
                    \E mode \in SUBSET o.mode : dest' = [dest EXCEPT !.exists = TRUE, !.mode = mode]
             [] o.op = "mode" -> dest' = [dest EXCEPT !.mode = o.mode]
             [] o.op = "truncate" -> dest' = [dest EXCEPT !.bytes = << >>]
             [] o.op = "write" -> dest' = [dest EXCEPT !.bytes = WriteAt(@, o.at, o.value)]
        /\ UNCHANGED <<poisoned, xfer, sink, disk>>

ScpNext ==
    \/ StartTransfer \/ Reconnect \/ OpenChannel \/ Exec \/ ExitStatus \/ ChannelCloses
    \/ ReadAck \/ SendChunk
    \/ ReadHeader \/ CreateDest \/ Narrow \/ Truncate \/ Widen \/ ReceiveChunk
    \/ DiskWrites \/ Flush \/ ReadStatus
    \/ Interrupt \/ LateOperation

----------------------------------------------------------------------------
\* A transfer that returned Ok is whole: an upload is stored on the device to
\* its declared size, and a download left exactly the source's chunks, with
\* the mode the header asked for, in the destination, although each side's
\* disk may fail and the failure surfaces later (the acknowledgements of
\* upload, the flush and the status of download).  For a download this needs
\* that no operation of an earlier, interrupted transfer was outstanding.
TransferIsWhole ==
    xfer.step = "done" /\ xfer.outcome = "ok" =>
        IF xfer.kind = "upload"
        THEN sink.stored = xfer.size /\ ~sink.failed
        ELSE xfer.clean => /\ dest.bytes = [i \in 1..xfer.size |-> xfer.n]
                           /\ dest.mode = xfer.mode

\* While a destination still holds bytes from before the download its mode
\* is never wider than it was; and where the mode may not be changed the
\* bytes are not lost either (download: narrow, truncate, widen).
OldContentProtected ==
    /\ /\ xfer.kind = "download" /\ xfer.clean
       /\ \E i \in DOMAIN dest.bytes : dest.bytes[i] \in 0..(xfer.n - 1)
       => dest.mode \subseteq xfer.was
    /\ ~dest.owned => dest.bytes = OldBytes

\* A transfer neither reports success for part of a file nor exposes or loses
\* what its destination held before.
TransferIsSafe == TransferIsWhole /\ OldContentProtected
=============================================================================
