------------------------------ MODULE QsoSpool ------------------------------
(***************************************************************************)
(* The persistent JSONL spool of WSJT-X contacts (QSOs), qso_queue.rs:     *)
(* `open', `append' and `remove' over a file that a crash of the process,  *)
(* a power failure or an I/O error may interrupt between any two of their  *)
(* steps.                                                                  *)
(*                                                                         *)
(* `append' pushes to memory, then either appends a line (two writes and a *)
(* sync_data) or, over the cap, evicts the oldest entries and rewrites the *)
(* file; `remove' rewrites it too.  A rewrite fills and syncs a temporary  *)
(* file, renames it over the queue file and, when the path names one, syncs *)
(* the directory.  Both hold the mutex `inner' from their first step to    *)
(* their last, so that at most one operation is under way: the variable op.*)
(*                                                                         *)
(* The file is seen twice: `file' is what a reader gets (the page cache),  *)
(* `images' are the contents it may have after a power failure.  Until the *)
(* directory of a renamed or a new file is synced its name may be lost     *)
(* then, and the file that had it before be found, or none: `older'.       *)
(***************************************************************************)
EXTENDS Integers, SequencesExt

CONSTANTS
    Qsos,          \* the ADIF records WSJT-X may submit, each once
    NonAscii,      \* those whose text has a character of several bytes
    HasParent,     \* queue_path names a directory, which rewrites sync
    MaxQueueLen,   \* MAX_QUEUE_LEN (1000 in the program)
    MaxCrashes,    \* bound: kills and power failures in a behaviour
    MaxIoErrors    \* bound: failed system calls in a behaviour

ASSUME QsosAssumption == NonAscii \subseteq Qsos
ASSUME PathAssumption == HasParent \in BOOLEAN
ASSUME BoundsAssumption == /\ MaxQueueLen \in Nat \ {0}
                           /\ MaxCrashes \in Nat
                           /\ MaxIoErrors \in Nat

VARIABLES
    file,       \* the queue file: closed lines, then an unterminated tail
    images,     \* contents the file may have after a power failure
    older,      \* contents its name may lead to instead, {} once that is synced
    aside,      \* entries in the files renamed to <path>.corrupt-<ms>
    opened,     \* a process holds the lock and has the queue open
    entries,    \* Inner.entries
    nextSeq,    \* Inner.next_seq
    op,         \* the operation under way and the step it is at
    unsent,     \* QSOs not yet submitted
    promised,   \* history: entries whose append returned Ok, until removed
    exposed,    \* history: those acknowledged while the file's name was not on disk
    damaged,    \* history: entries whose line was glued, left out by a failed
                \* write, or lost with the name at a power failure
    stale,      \* history: memory and file may differ (see BeginAppend)
    crashes,    \* counts towards MaxCrashes
    ioErrors    \* counts towards MaxIoErrors

disk   == <<file, images, older, aside>>
memory == <<entries, nextSeq>>
marks  == <<exposed, damaged>>
past   == <<promised, marks, stale>>
faults == <<crashes, ioErrors>>
spoolVars == <<disk, opened, memory, op, past, faults>>
vars == <<spoolVars, unsent>>

-----------------------------------------------------------------------------
(* The file.  A line is a sequence of chunks, each left by one write: the  *)
(* whole JSON text of an entry, a part of it, or a part that ends inside a *)
(* character.                                                              *)

Entry == [seq : Nat \ {0}, adif : Qsos]
Chunk == [kind : {"whole", "part", "torn"}, entry : Entry]
Line  == Seq(Chunk) \ {<<>>}
File  == [lines : Seq(Line), tail : Seq(Chunk)]

NoFile == [lines |-> <<>>, tail |-> <<>>]

Written(kind, e) == [kind |-> kind, entry |-> e]

\* What a line write cut short may leave of the text of e.
CutShort(e) == {Written("part", e)} \cup
               {Written("torn", e) : a \in NonAscii \cap {e.adif}}

WriteTail(f, c) == [f EXCEPT !.tail = Append(@, c)]
EndLine(f)      == [lines |-> Append(f.lines, f.tail), tail |-> <<>>]
FileOf(es)      == [lines |-> [i \in 1..Len(es) |-> <<Written("whole", es[i])>>],
                    tail  |-> <<>>]

\* What a write of all of es that fails half-way may leave.
Beginnings(es) ==
    UNION {LET f == FileOf(SubSeq(es, 1, n))
               e == es[n + 1]
           IN  {f} \cup {WriteTail(f, c) : c \in {Written("whole", e)} \cup CutShort(e)} :
             n \in 0..(Len(es) - 1)}

\* str::lines: a last line needs no terminator.
Body(f) == IF f.tail = <<>> THEN f.lines ELSE Append(f.lines, f.tail)

Chunks(f) == UNION {ToSet(Body(f)[i]) : i \in DOMAIN Body(f)}

\* Lines serde_json accepts: one whole entry and nothing else.
Good(line)  == Len(line) = 1 /\ line[1].kind = "whole"
BadLines(f) == {i \in DOMAIN Body(f) : ~Good(Body(f)[i])}

\* fs::read_to_string fails on bytes that are not UTF-8.
Readable(f)  == \A c \in Chunks(f) : c.kind # "torn"
\* The three outcomes of parse_entries.
Clean(f)     == BadLines(f) = {}
Truncated(f) == BadLines(f) = {Len(Body(f))}
Corrupt(f)   == ~Clean(f) /\ ~Truncated(f)

\* e can be read back from f: it is the only thing on one of its lines.
Alone(e, f) == \E i \in DOMAIN Body(f) : Body(f)[i] = <<Written("whole", e)>>

\* The entries parse_entries returns: a malformed last line is dropped.
Parsed(f) ==
    [i \in 1..(Len(Body(f)) - (IF Truncated(f) THEN 1 ELSE 0)) |-> Body(f)[i][1].entry]

\* Two plausible mistakes in the next definition: seq counted from 0, and
\* resumed from the number of entries.
NextFromZero(es) ==
    IF es = <<>> THEN 0
    ELSE (CHOOSE s \in {es[i].seq : i \in DOMAIN es} :
             \A i \in DOMAIN es : es[i].seq <= s) + 1
NextFromCount(es) == Len(es) + 1

\* max(seq) + 1 of the entries, 1 when there is none.
NextAfter(es) ==
    IF es = <<>> THEN 1
    ELSE (CHOOSE s \in {es[i].seq : i \in DOMAIN es} :
             \A i \in DOMAIN es : es[i].seq <= s) + 1

-----------------------------------------------------------------------------
Calls == {"none", "open", "append", "remove"}
Steps == {"none", "line", "newline", "sync", "rename", "syncdir"}

Idle == [call |-> "none", at |-> "none"]
At(step) == op.at = step
Goto(step) == op' = [op EXCEPT !.at = step]

Init ==
    /\ file = NoFile
    /\ images = {NoFile}
    /\ older = {NoFile}
    /\ aside = {}
    /\ opened = FALSE
    /\ entries = <<>>
    /\ nextSeq = 1
    /\ op = Idle
    /\ unsent = Qsos
    /\ promised = {}
    /\ exposed = {}
    /\ damaged = {}
    /\ stale = FALSE
    /\ crashes = 0
    /\ ioErrors = 0

\* The memory of a process that is not there.
Forget == entries' = <<>> /\ nextSeq' = 1

\* A sync of the file's data.  (The mistake: no sync.)
NotSynced == UNCHANGED images
Synced    == images' = {file}

\* What a power failure may uncover.
Found == images \cup older

\* What is acknowledged before the name is on the disk may go with the name.
Expose == exposed' = IF older' = {} THEN {} ELSE exposed \cup (promised' \ promised)

\* The push exceeds the cap.  (The mistake: off by one.)
OverCapByTwo(es) == Len(es) > MaxQueueLen + 1
OverCap(es)      == Len(es) > MaxQueueLen

(* open: the file parses, as it is or once its last line is dropped, or is *)
(* renamed aside and the queue starts empty.  A file that is not UTF-8     *)
(* makes open return an error: no action, the process does not start.      *)
OpenReading == ~opened /\ op = Idle /\ Readable(file)

OpenClean ==
    /\ OpenReading
    /\ Clean(file)
    /\ opened' = TRUE
    /\ entries' = Parsed(file)
    /\ nextSeq' = NextAfter(entries')
    /\ stale' = FALSE
    /\ UNCHANGED <<disk, op, promised, marks, faults>>

\* A plausible mistake: the bad last line is dropped from memory only.
OpenTruncatedInPlace ==
    /\ OpenReading
    /\ Truncated(file)
    /\ opened' = TRUE
    /\ entries' = Parsed(file)
    /\ nextSeq' = NextAfter(entries')
    /\ stale' = FALSE
    /\ UNCHANGED <<disk, op, promised, marks, faults>>

OpenTruncated ==
    /\ OpenReading
    /\ Truncated(file)
    /\ entries' = Parsed(file)
    /\ nextSeq' = NextAfter(entries')
    /\ op' = [call |-> "open", at |-> "rename"]
    /\ UNCHANGED <<disk, opened, past, faults>>

OpenCorrupt ==
    /\ OpenReading
    /\ Corrupt(file)
    /\ file' = NoFile
    /\ images' = {NoFile}
    /\ older' = Found \cup {NoFile}
    /\ aside' = aside \cup {c.entry : c \in Chunks(file)}
    /\ opened' = TRUE
    /\ stale' = FALSE
    /\ Forget
    /\ UNCHANGED <<op, promised, marks, faults>>

-----------------------------------------------------------------------------
(* append: push first; over the cap evict the oldest and rewrite, else     *)
(* append one line.                                                        *)
BeginAppend(q) ==
    LET pushed == Append(entries, [seq |-> nextSeq, adif |-> q])
        excess == Len(pushed) - MaxQueueLen
    IN  /\ opened
        /\ op = Idle
        /\ nextSeq' = nextSeq + 1
        /\ IF OverCap(pushed)
             THEN /\ entries' = SubSeq(pushed, excess + 1, Len(pushed))
                  /\ op' = [call |-> "append", at |-> "rename"]
             ELSE /\ entries' = pushed
                  /\ op' = [call |-> "append", at |-> "line"]
        /\ promised' = promised \ (ToSet(entries) \ ToSet(entries'))
        /\ exposed' = exposed \cap promised'
        /\ UNCHANGED <<disk, opened, damaged, stale, faults>>

\* Text written after an unterminated line joins that line.
Glue(e) ==
    /\ damaged' = IF file.tail = <<>> THEN damaged
                  ELSE damaged \cup {e} \cup {c.entry : c \in ToSet(file.tail)}
    /\ stale' = (stale \/ file.tail # <<>>)

WriteLine ==
    LET e == Last(entries)
    IN  /\ At("line")
        /\ file' = WriteTail(file, Written("whole", e))
        /\ images' = images \cup {file'} \cup {WriteTail(file, c) : c \in CutShort(e)}
        /\ Glue(e)
        /\ Goto("newline")
        /\ UNCHANGED <<older, aside, opened, memory, promised, exposed, faults>>

WriteNewline ==
    /\ At("newline")
    /\ file' = EndLine(file)
    /\ images' = images \cup {file'}
    /\ Goto("sync")
    /\ UNCHANGED <<older, aside, opened, memory, past, faults>>

\* sync_data, and Ok(seq) to the listener.
SyncData ==
    /\ At("sync")
    /\ Synced
    /\ promised' = promised \cup {Last(entries)}
    /\ UNCHANGED older
    /\ Expose
    /\ op' = Idle
    /\ UNCHANGED <<file, aside, opened, memory, damaged, stale, faults>>

(* remove: an unknown seq is a no-op, otherwise drop the entry and rewrite.*)
(* retain keeps every entry of another seq; seqs are distinct.             *)
BeginRemove(s) ==
    /\ opened
    /\ op = Idle
    /\ \E i \in DOMAIN entries :
          /\ entries[i].seq = s
          /\ entries' = RemoveAt(entries, i)
    /\ promised' = promised \ (ToSet(entries) \ ToSet(entries'))
    /\ op' = [call |-> "remove", at |-> "rename"]
    /\ exposed' = exposed \cap promised'
    /\ UNCHANGED <<disk, opened, nextSeq, damaged, stale, faults>>

-----------------------------------------------------------------------------
(* rewrite_to: the temporary file is filled and synced, then renamed over  *)
(* the queue file; until the directory is synced either may be found.      *)
Renamed ==
    /\ At("rename")
    /\ images' = {file'}
    /\ older' = Found
    /\ Goto("syncdir")
    /\ UNCHANGED <<aside, opened, memory, promised, exposed>>

Rename ==
    /\ file' = FileOf(entries)
    /\ Renamed
    /\ stale' = FALSE
    /\ UNCHANGED <<damaged, faults>>

\* The directory is synced, if the path names one, and the call returns Ok:
\* open lets the process start, append acknowledges its entry.
SyncDir ==
    /\ At("syncdir")
    /\ older' = IF HasParent THEN {} ELSE older
    /\ opened' = TRUE
    /\ promised' = IF op.call = "append" THEN promised \cup {Last(entries)} ELSE promised
    /\ Expose
    /\ damaged' = IF older' = {} THEN {e \in damaged : ~Alone(e, file)} ELSE damaged
    /\ op' = Idle
    /\ UNCHANGED <<file, images, aside, memory, stale, faults>>

(* Any system call may fail.  append and remove return Err and leave memory*)
(* as it is; an error of open ends the process.  A failed write of a line  *)
(* may leave its beginning; it comes to light at the write of the newline. *)
IoError ==
    /\ op # Idle /\ ~At("newline")
    /\ At("syncdir") => HasParent
    /\ ioErrors < MaxIoErrors
    /\ ioErrors' = ioErrors + 1
    /\ op' = Idle
    /\ IF op.call = "open" THEN Forget /\ stale' = stale ELSE UNCHANGED memory /\ stale' = TRUE
    /\ \/ UNCHANGED <<file, images, damaged>>
       \/ /\ At("line")
          /\ \E c \in CutShort(Last(entries)) : file' = WriteTail(file, c)
          /\ images' = images \cup {file'}
          /\ damaged' = IF file.tail = <<>> THEN damaged
                        ELSE damaged \cup {c.entry : c \in ToSet(file.tail)}
    /\ UNCHANGED <<older, aside, opened, promised, exposed, crashes>>

(* The error of the last write before a sync never comes to light: tokio's *)
(* write_all only starts the write, and sync_data waits for it, drops its  *)
(* error and syncs.  The call goes on as if the newline, or the temporary  *)
(* file, had been written.                                                 *)
LostNewline ==
    /\ At("newline")
    /\ Goto("sync")
    /\ UNCHANGED <<disk, opened, memory, past>>

LostRewrite ==
    /\ file' \in Beginnings(entries)
    /\ Renamed
    /\ damaged' = damaged \cup {e \in ToSet(entries) : ~Alone(e, file')}
    /\ stale' = TRUE

LostWrite ==
    /\ LostNewline \/ LostRewrite
    /\ ioErrors < MaxIoErrors
    /\ ioErrors' = ioErrors + 1
    /\ UNCHANGED crashes

-----------------------------------------------------------------------------
(* The process dies (the kernel keeps what was written), the machine loses *)
(* power (one of the images is found), or the daemon ends.                 *)
Stop == opened' = FALSE /\ op' = Idle /\ Forget

Kill ==
    /\ opened \/ op # Idle
    /\ crashes < MaxCrashes
    /\ crashes' = crashes + 1
    /\ Stop
    /\ UNCHANGED <<disk, past, ioErrors>>

PowerLoss ==
    /\ crashes < MaxCrashes
    /\ crashes' = crashes + 1
    /\ file' \in Found
    /\ images' = {file'}
    /\ older' = {file'} \cap {NoFile}
    /\ exposed' = {}
    /\ damaged' = {e \in damaged \cup exposed : ~Alone(e, file')}
    /\ Stop
    /\ UNCHANGED <<aside, promised, stale, ioErrors>>

Close ==
    /\ opened
    /\ op = Idle
    /\ Stop
    /\ UNCHANGED <<disk, past, faults>>

-----------------------------------------------------------------------------
OpenStep  == OpenClean \/ OpenTruncated \/ OpenCorrupt
WriteStep == WriteLine \/ WriteNewline \/ SyncData \/ Rename \/ SyncDir
Crash     == Kill \/ PowerLoss

Next ==
    \/ OpenStep /\ UNCHANGED unsent
    \/ \E q \in unsent : BeginAppend(q) /\ unsent' = unsent \ {q}
    \/ \E s \in 1..(nextSeq - 1) : BeginRemove(s) /\ UNCHANGED unsent
    \/ WriteStep /\ UNCHANGED unsent
    \/ IoError /\ UNCHANGED unsent
    \/ LostWrite /\ UNCHANGED unsent
    \/ Crash /\ UNCHANGED unsent
    \/ Close /\ UNCHANGED unsent

Spec == Init /\ [][Next]_vars

-----------------------------------------------------------------------------
(* Properties.                                                             *)

\* Every variable has its type: in particular no closed line is empty.
TypeOK ==
    /\ file \in File
    /\ images \subseteq File
    /\ older \subseteq File
    /\ aside \subseteq Entry
    /\ opened \in BOOLEAN
    /\ entries \in Seq(Entry)
    /\ nextSeq \in Nat \ {0}
    /\ op \in [call : Calls, at : Steps]
    /\ unsent \subseteq Qsos
    /\ promised \subseteq Entry
    /\ exposed \subseteq Entry
    /\ damaged \subseteq Entry
    /\ stale \in BOOLEAN
    /\ crashes \in 0..MaxCrashes
    /\ ioErrors \in 0..MaxIoErrors

\* An entry whose append returned Ok and that was neither removed nor evicted
\* can be read from the file, at every step of every operation and after every
\* crash, power failure and failed call; and from every content a power failure
\* may uncover, unless it was acknowledged before the file's name was on the
\* disk.  Lost are only entries in a file set aside and damaged ones: whose line
\* was glued, or that a write whose failure the code does not see left out.
Durable ==
    \A e \in promised \ (damaged \cup aside) :
        /\ Alone(e, file)
        /\ e \notin exposed => \A f \in Found : Alone(e, f)

\* Between operations the file parses to exactly the entries in memory,
\* unless an append or a remove failed or glued a line since the last rewrite.
SpoolMirrorsMemory ==
    opened /\ op = Idle /\ ~stale => Clean(file) /\ Parsed(file) = entries

\* The seq of the next append is larger than that of any entry in memory or on
\* a readable line of the file, so that a remove never takes another QSO's
\* entry, whatever was truncated, replayed or set aside before.
SeqFresh ==
    opened => /\ \A e \in ToSet(entries) : e.seq < nextSeq
              /\ \A i, j \in DOMAIN entries : i < j => entries[i].seq < entries[j].seq
              /\ \A i \in DOMAIN Body(file) :
                    Good(Body(file)[i]) => Body(file)[i][1].entry.seq < nextSeq

\* Without I/O errors the spool never holds more than MAX_QUEUE_LEN entries,
\* in memory or on disk, crashes and replays included.
CapHolds ==
    ioErrors = 0 => /\ Len(entries) <= MaxQueueLen
                    /\ \A f \in Found : Len(Body(f)) <= MaxQueueLen

-----------------------------------------------------------------------------
(* What the comments of the source say and the code does not do.           *)

\* "Entries are removed only after a successful POST (or a permanent Rejected
\* response)" (qso_queue.rs:6-7), the cap aside: an entry whose append returned
\* Ok is in the queue of every later process, or in a file set aside.
NothingLost == opened => promised \ aside \subseteq ToSet(entries)

\* A truncated trailing line is "dropped with a WARN" (qso_queue.rs:32-34): no
\* crash leaves a file that open fails to read, ending the process.
Startable == ~opened /\ op = Idle => Readable(file)

=============================================================================
