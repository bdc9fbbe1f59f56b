-------------------------------- MODULE Wal ---------------------------------
(***************************************************************************)
(* The write-ahead log file (adb-storage, wal.rs) at the level of frames:  *)
(* appends that stop half way, crashes, the scan that separates a torn     *)
(* tail from corruption, the prefix truncation that replaces the file.     *)
(*                                                                         *)
(* A chunk is what one append left in the file: `got' of its frame's       *)
(* `FrameHeader + len' units.  An append or a truncation runs under the    *)
(* partition's write lock (or the engine's ddl_lock) in its callers, so    *)
(* each is one step here.                                                  *)
(***************************************************************************)
EXTENDS Sequences, FiniteSetsExt

CONSTANTS
    FrameHeader,     \* units of the length and CRC fields
    PayloadLens,     \* payload lengths a caller may append
    MaxRecord,       \* MAX_RECORD_BYTES
    LenMod,          \* 2^32: the length field and the size check are u32
    Faults,          \* the file operations that may fail
    MaxLsn, MaxCrashes     \* bounds on the exploration

ASSUME WalAssumption ==
    /\ {FrameHeader, LenMod} \subseteq Nat \ {0}
    /\ MaxRecord \in 1 .. LenMod - 1
    /\ PayloadLens \subseteq Nat \ {0}
    /\ Faults \subseteq {"write", "sync", "reopen"}
    /\ {MaxLsn, MaxCrashes} \subseteq Nat

VARIABLES
    log,         \* the chunks of the file at the log's path
    writer,      \* where the open handle points: "path" or "unlinked"
    next_lsn,
    status,      \* "up", "down", or "refused": open reported corruption
    crashes,
    failed,      \* the file operations that have failed
    \* history
    acked,       \* lsns that append returned
    covered      \* the checkpoint the callers truncated to

vars == <<log, writer, next_lsn, status, crashes, failed, acked, covered>>

Chunk == [lsn : Nat \ {0}, len : Nat \ {0}, got : Nat \ {0}]

-----------------------------------------------------------------------------
(* Reading the file.                                                       *)

\* What the length field holds.
Declared(c) == c.len % LenMod

\* The whole frame is there and its CRC covers what the length field says.
Intact(c) == c.got = FrameHeader + c.len /\ Declared(c) = c.len

UnitsFrom(i) == LET Got(j) == log[j].got IN MapThenSumSet(Got, i .. Len(log))

Good(n) == [ok |-> TRUE, n |-> n]
Corruption == [ok |-> FALSE, n |-> 0]

\* The possible results of scan: how many leading chunks it returns as entries,
\* or corruption.  A header that ran together with the next frame's bytes holds
\* any length.
scan ==
    LET bad  == { i \in DOMAIN log : ~Intact(log[i]) }
        i    == Min(bad)
        rest == UnitsFrom(i)
    IN  IF bad = {} THEN {Good(Len(log))}
        ELSE IF rest < FrameHeader THEN {Good(i - 1)}
        ELSE IF log[i].got < FrameHeader THEN {Good(i - 1), Corruption}
        ELSE IF Declared(log[i]) = 0 \/ FrameHeader + Declared(log[i]) >= rest
             THEN {Good(i - 1)}
        ELSE {Corruption}

-----------------------------------------------------------------------------

Init ==
    /\ log = <<>> /\ writer = "path" /\ next_lsn = 1 /\ status = "up"
    /\ crashes = 0 /\ failed = {} /\ acked = {} /\ covered = 0

\* A file operation returns an error; each kind does so once.
Fail(kind) ==
    /\ kind \in Faults \ failed
    /\ failed' = failed \cup {kind}

\* next_lsn.fetch_add: taken first, never given back.
TakeLsn ==
    /\ next_lsn <= MaxLsn
    /\ next_lsn' = next_lsn + 1

\* write_all to the open handle, of which `got' units arrive.
WriteFrame(len, got) ==
    log' = IF writer = "path"
           THEN Append(log, [lsn |-> next_lsn, len |-> len, got |-> got])
           ELSE log

\* The size check compares the length as a u32.
Oversized(len) == len % LenMod > MaxRecord

AppendRecord(len) ==
    /\ status = "up"
    /\ ~Oversized(len)
    /\ \/ WriteFrame(len, FrameHeader + len) /\ acked' = acked \cup {next_lsn}
          /\ UNCHANGED failed
       \/ Fail("sync") /\ WriteFrame(len, FrameHeader + len) /\ UNCHANGED acked
       \/ /\ Fail("write")
          /\ \/ \E got \in 1 .. FrameHeader + len - 1 : WriteFrame(len, got)
             \/ UNCHANGED log
          /\ UNCHANGED acked
    /\ TakeLsn
    /\ UNCHANGED <<writer, status, crashes, covered>>

AppendOversized(len) ==
    /\ status = "up"
    /\ Oversized(len)
    /\ UNCHANGED <<log, writer, status, crashes, failed, acked, covered>>
    /\ TakeLsn

\* The entries among the first n that a truncation keeps, and a set of positions
\* as the increasing sequence of them, in a singleton set.
Survivors(n) == { i \in 1 .. n : log[i].lsn > Max(acked) }

InOrder(S) ==
    { f \in [1 .. Cardinality(S) -> S] : \A i, j \in DOMAIN f : i < j => f[i] < f[j] }

\* truncate_prefix to the highest acknowledged lsn, as a flush does: the
\* survivors are read from the path, written aside and renamed over it; then
\* the writer is re-pointed.
TruncatePrefix ==
    /\ status = "up"
    /\ acked # {} /\ Max(acked) > covered
    /\ \E o \in scan :
          /\ o.ok
          /\ \E kept \in InOrder(Survivors(o.n)) : log' = [j \in DOMAIN kept |-> log[kept[j]]]
    /\ covered' = Max(acked)
    /\ \/ writer' = "path" /\ UNCHANGED failed
       \/ Fail("reopen") /\ writer' = "unlinked"
    /\ UNCHANGED <<next_lsn, status, crashes, acked>>

\* The process dies at rest, or during an append with part or all of the frame
\* in the file.
Crash ==
    /\ status = "up"
    /\ crashes < MaxCrashes
    /\ crashes' = crashes + 1
    /\ status' = "down"
    /\ \/ UNCHANGED log
       \/ \E len \in PayloadLens :
             /\ ~Oversized(len) /\ next_lsn <= MaxLsn
             /\ \E got \in 1 .. FrameHeader + len : WriteFrame(len, got)
    /\ UNCHANGED <<writer, next_lsn, failed, acked, covered>>

\* Mutants: the torn tail stays; advance_to is missing.
KeepTail(n) == log
LastLogged(n) == IF n = 0 THEN 0 ELSE log[n].lsn

\* set_len(good_end): the torn tail is cut off.
CutTail(n) == SubSeq(log, 1, n)

\* The lsn recovery starts from: the last entry's, and what advance_to adds.
LastUsed(n) == Max({covered, IF n = 0 THEN 0 ELSE log[n].lsn})

Open ==
    /\ status = "down"
    /\ \E o \in scan :
          IF o.ok
          THEN /\ status' = "up" /\ writer' = "path"
               /\ log' = CutTail(o.n)
               /\ next_lsn' = LastUsed(o.n) + 1
          ELSE status' = "refused" /\ UNCHANGED <<log, writer, next_lsn>>
    /\ UNCHANGED <<crashes, failed, acked, covered>>

Next ==
    \/ \E len \in PayloadLens : AppendRecord(len) \/ AppendOversized(len)
    \/ TruncatePrefix
    \/ Crash
    \/ Open

Spec == Init /\ [][Next]_vars

-----------------------------------------------------------------------------
(* Properties.                                                             *)

\* Types, and that no frame holds more than its header and its payload.
TypeOK ==
    /\ log \in Seq(Chunk)
    /\ \A i \in DOMAIN log : log[i].got <= FrameHeader + log[i].len
    /\ writer \in {"path", "unlinked"}
    /\ next_lsn \in Nat \ {0}
    /\ status \in {"up", "down", "refused"}
    /\ crashes \in Nat /\ failed \subseteq Faults
    /\ acked \subseteq Nat \ {0}
    /\ covered \in Nat

\* The two failures the code does not recover from have not happened: a write
\* that stopped half way (the partial frame stays in front of later ones), and a
\* log that could not be reopened after a truncation (appends go to a file that
\* is no longer at the path).
Recoverable == failed \cap {"write", "reopen"} = {}

\* At every instant, through crashes in the middle of appends and failed fsyncs,
\* opening the file succeeds and returns every acknowledged record above the
\* checkpoint ("Durably append and return the assigned LSN").
AckedSurvive ==
    Recoverable =>
        \A o \in scan :
            /\ o.ok
            /\ \A l \in acked : l > covered => \E i \in 1 .. o.n : log[i].lsn = l

\* "The same failure anywhere earlier is real corruption and is reported, never
\* silently skipped": a scan that succeeds leaves no intact record behind.
NeverSilentlySkipped ==
    \A o \in scan : o.ok => \A i \in o.n + 1 .. Len(log) : ~Intact(log[i])

\* The lsn of a torn or refused append may be reused, an acknowledged one
\* never, also when truncation has emptied the log before the restart.
AckedLsnNotReused ==
    [][Len(log') > Len(log) /\ Recoverable =>
          log'[Len(log')].lsn \notin acked /\ log'[Len(log')].lsn > covered]_vars

=============================================================================
